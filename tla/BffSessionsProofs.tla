-------------------------- MODULE BffSessionsProofs --------------------------
(***************************************************************************)
(* Ended sessions stay ended and refresh tokens are used once, for any     *)
(* number of sessions, users, requests and revocations.                    *)
(***************************************************************************)
EXTENDS BffSessions, TLAPS

\* What is known of a request that a step moves on.
LEMMA MoveRequest ==
    ASSUME TypeOK, NEW p \in Requests, NEW place \in Places, Move(p, place)
    PROVE  /\ request' \in [Requests -> AllRequests]
           /\ request'[p] = [at |-> place, session |-> request[p].session,
                             ticket |-> request[p].ticket, next |-> request[p].next]
           /\ \A q \in Requests : q # p => request'[q] = request[q]
BY DEF TypeOK, Move, SetRequest, AllRequests

LEMMA SetOneRequest ==
    ASSUME TypeOK, NEW p \in Requests, NEW value \in AllRequests, SetRequest(p, value)
    PROVE  /\ request' \in [Requests -> AllRequests]
           /\ request'[p] = value
           /\ \A q \in Requests : q # p => request'[q] = request[q]
BY DEF TypeOK, SetRequest

LEMMA SetAtTicket ==
    ASSUME TypeOK, NEW p \in Requests, NEW place \in Places, NEW t \in Tickets \cup {Wiped},
           SetRequest(p, [request[p] EXCEPT !.at = place, !.ticket = t])
    PROVE  /\ request' \in [Requests -> AllRequests]
           /\ request'[p].at = place /\ request'[p].session = request[p].session
           /\ request'[p].ticket = t /\ request'[p].next = request[p].next
           /\ \A q \in Requests : q # p => request'[q] = request[q]
<1> DEFINE v == [request[p] EXCEPT !.at = place, !.ticket = t]
<1>1. request[p] \in AllRequests
  BY DEF TypeOK
<1>2. /\ v \in AllRequests /\ v.at = place /\ v.session = request[p].session
      /\ v.ticket = t /\ v.next = request[p].next
  BY <1>1 DEF AllRequests
<1>3. SetRequest(p, v)
  OBVIOUS
<1> HIDE DEF v
<1> QED BY <1>2, <1>3, SetOneRequest

LEMMA SetAtNext ==
    ASSUME TypeOK, NEW p \in Requests, NEW place \in Places, NEW m \in Tickets \cup {Wiped},
           SetRequest(p, [request[p] EXCEPT !.at = place, !.next = m])
    PROVE  /\ request' \in [Requests -> AllRequests]
           /\ request'[p].at = place /\ request'[p].session = request[p].session
           /\ request'[p].ticket = request[p].ticket /\ request'[p].next = m
           /\ \A q \in Requests : q # p => request'[q] = request[q]
<1> DEFINE v == [request[p] EXCEPT !.at = place, !.next = m]
<1>1. request[p] \in AllRequests
  BY DEF TypeOK
<1>2. /\ v \in AllRequests /\ v.at = place /\ v.session = request[p].session
      /\ v.ticket = request[p].ticket /\ v.next = m
  BY <1>1 DEF AllRequests
<1>3. SetRequest(p, v)
  OBVIOUS
<1> HIDE DEF v
<1> QED BY <1>2, <1>3, SetOneRequest

LEMMA InitInv == Init => Inv
<1> SUFFICES ASSUME Init PROVE Inv
  OBVIOUS
<1>1. \A p \in Requests : request[p] = NoRequest(key[p]) /\ key[p] \in Sessions /\ stage[p] = "out"
  BY DEF Init, Lock!Init
<1>2. \A p \in Requests : request[p].at = "idle" /\ request[p].ticket = 0 /\ request[p].next = 0
  <2> TAKE p \in Requests
  <2>1. request[p] = [at |-> "idle", session |-> key[p], ticket |-> 0, next |-> 0]
    BY <1>1 DEF NoRequest, Wiped
  <2> QED BY <2>1
<1>3. TypeOK
  <2>1. request \in [Requests -> AllRequests]
    BY <1>1 DEF Init, NoRequest, AllRequests, Places, Wiped
  <2>2. stage \in [Requests -> {"out", "waits", "holds"}] /\ key \in [Requests -> Sessions]
    BY DEF Init, Lock!Init
  <2>3. origin \in [Tickets -> Tickets] /\ issued \in 0..MaxTickets
    BY SessionsAssumption DEF Init
  <2>4. row \in [Sessions -> Rows] /\ revocation \in [Revocations -> [busy : BOOLEAN, found : SUBSET Sessions]]
    BY DEF Init, NoRevocation
  <2> QED BY <2>1, <2>2, <2>3, <2>4 DEF TypeOK, Init
<1>4. LockHeld
  BY <1>1, <1>2 DEF LockHeld, InHand, Refreshing, At
<1>5. AllIssued
  BY <1>2 DEF AllIssued, Init, Wiped
<1>6. NextFresh /\ OneSession /\ RefreshedOnce
  BY <1>2 DEF NextFresh, OneSession, RefreshedOnce, Pending, InHand, Refreshing, At, Init, Wiped
<1>7. StoredUnused
  BY DEF StoredUnused, Init
<1> QED BY <1>3, <1>4, <1>5, <1>6, <1>7 DEF Inv

-----------------------------------------------------------------------------
(* The lock.                                                               *)

\* Who is where, as far as the lock goes.
Wants(at, ticket) == IF at \in {"locked", "posting"} \/ (at \in {"renewing", "saving"} /\ ticket # Wiped)
                     THEN "holds" ELSE IF at = "waiting" THEN "waits" ELSE "out"

LEMMA LockHeldAlt ==
    ASSUME TypeOK
    PROVE  LockHeld <=>
             /\ \A p \in Requests : /\ stage[p] = Wants(request[p].at, request[p].ticket)
                                    /\ stage[p] # "out" => key[p] = request[p].session
             /\ \A p, q \in Requests : stage[p] = "holds" /\ stage[q] = "holds" /\ key[p] = key[q] => p = q
BY DEF TypeOK, LockHeld, Wants, InHand, Refreshing, At

\* A step of a request that leaves the lock alone.
LEMMA LockKept ==
    ASSUME TypeOK, TypeOK', LockHeld, NEW p \in Requests, UNCHANGED lock,
           \A q \in Requests : q # p => request'[q] = request[q],
           Wants(request'[p].at, request'[p].ticket) = Wants(request[p].at, request[p].ticket),
           stage[p] = "out" \/ request'[p].session = request[p].session
    PROVE  LockHeld'
<1>1. stage' = stage /\ key' = key
  BY DEF lock
<1>2. \A q \in Requests : /\ stage[q] = Wants(request[q].at, request[q].ticket)
                          /\ stage[q] # "out" => key[q] = request[q].session
  BY LockHeldAlt
<1>3. \A q, r \in Requests : stage[q] = "holds" /\ stage[r] = "holds" /\ key[q] = key[r] => q = r
  BY DEF LockHeld
<1>4. \A q \in Requests : /\ stage'[q] = Wants(request'[q].at, request'[q].ticket)
                          /\ stage'[q] # "out" => key'[q] = request'[q].session
  BY <1>1, <1>2
<1>5. \A q, r \in Requests : stage'[q] = "holds" /\ stage'[r] = "holds" /\ key'[q] = key'[r] => q = r
  BY <1>1, <1>3
<1> QED BY <1>4, <1>5 DEF TypeOK, LockHeld, Wants, InHand, Refreshing, At

\* A step that ends the use of the lock.
LEMMA LockLeft ==
    ASSUME TypeOK, TypeOK', LockHeld, NEW p \in Requests, Unlock(p),
           \A q \in Requests : q # p => request'[q] = request[q],
           Wants(request'[p].at, request'[p].ticket) = "out"
    PROVE  LockHeld'
<1>1. key' = key /\ stage'[p] = "out" /\ \A q \in Requests : q # p => stage'[q] = stage[q]
  BY DEF Unlock, lock, Lock!Leave, TypeOK
<1>2. \A q \in Requests : /\ stage[q] = Wants(request[q].at, request[q].ticket)
                          /\ stage[q] # "out" => key[q] = request[q].session
  BY LockHeldAlt
<1>3. \A q, r \in Requests : stage[q] = "holds" /\ stage[r] = "holds" /\ key[q] = key[r] => q = r
  BY DEF LockHeld
<1>4. \A q \in Requests : /\ stage'[q] = Wants(request'[q].at, request'[q].ticket)
                          /\ stage'[q] # "out" => key'[q] = request'[q].session
  BY <1>1, <1>2
<1>5. \A q, r \in Requests : stage'[q] = "holds" /\ stage'[r] = "holds" /\ key'[q] = key'[r] => q = r
  BY <1>1, <1>3
<1> QED BY <1>4, <1>5 DEF TypeOK, LockHeld, Wants, InHand, Refreshing, At

-----------------------------------------------------------------------------
(* The refresh tokens.                                                     *)

TokensInv == AllIssued /\ NextFresh /\ OneSession /\ StoredUnused /\ RefreshedOnce

\* A step that leaves rows, requests and tokens alone.
LEMMA TokensKept ==
    ASSUME TokensInv, UNCHANGED <<row, request, issued, redeemed, lost>>, over \subseteq over'
    PROVE  TokensInv'
BY DEF TokensInv, AllIssued, NextFresh, OneSession, StoredUnused, RefreshedOnce, Pending,
       InHand, Refreshing, At, Retrievable

\* A step of a request that issues, saves and redeems nothing.
LEMMA QuietStep ==
    ASSUME TypeOK, TokensInv, NEW p \in Requests, UNCHANGED <<row, issued, redeemed, lost, over>>,
           \A q \in Requests : q # p => request'[q] = request[q],
           request'[p].ticket <= issued, request'[p].next <= issued,
           \A q \in Requests : Pending(q) => request'[p].ticket # request[q].next,
           Pending(p)' => Pending(p) /\ request'[p].next = request[p].next,
           InHand(p)' => /\ InHand(p)
                         /\ request'[p].ticket = request[p].ticket
                         /\ request'[p].session = request[p].session,
           Refreshing(p) => Refreshing(p)' \/ ~Retrievable(request[p].session),
           At(p, "posting")' => At(p, "posting")
    PROVE  TokensInv'
<1> USE DEF TokensInv
<1>1. AllIssued'
  BY DEF AllIssued
<1>2. NextFresh'
  BY DEF NextFresh, Pending
<1>3. OneSession'
  BY DEF OneSession, InHand, Refreshing, At
<1>4. StoredUnused'
  BY DEF StoredUnused, Refreshing, InHand, Retrievable
<1>5. RefreshedOnce'
  BY DEF RefreshedOnce, At, InHand
<1> QED BY <1>1, <1>2, <1>3, <1>4, <1>5

\* The next ticket is new.
LEMMA NewTicket ==
    ASSUME TypeOK, AllIssued
    PROVE  /\ issued \in Nat /\ issued + 1 \in Nat /\ issued + 1 > issued
           /\ issued + 1 # Wiped /\ Wiped <= issued + 1 /\ issued + 1 \notin redeemed
           /\ \A s \in Sessions : row[s].ticket \in Nat /\ row[s].ticket # issued + 1
           /\ \A q \in Requests : /\ request[q].ticket \in Nat /\ request[q].ticket # issued + 1
                                  /\ request[q].next \in Nat /\ request[q].next # issued + 1
           /\ \A m \in redeemed : m \in Nat
<1>1. issued \in Nat /\ Tickets \cup {Wiped} \subseteq Nat
  BY SessionsAssumption DEF TypeOK, Tickets, Wiped
<1>2. \A s \in Sessions : row[s].ticket \in Nat
  BY <1>1 DEF TypeOK, Rows
<1>3. \A q \in Requests : request[q].ticket \in Nat /\ request[q].next \in Nat
  BY <1>1 DEF TypeOK, AllRequests
<1>4. \A m \in redeemed : m \in Nat
  BY <1>1 DEF TypeOK
<1> QED BY <1>1, <1>2, <1>3, <1>4 DEF AllIssued, Wiped

LEMMA SignInTokens ==
    ASSUME Inv, NEW p \in Requests, NEW s \in Sessions, NEW u \in Users, SignIn(p, s, u)
    PROVE  TokensInv'
<1> USE DEF Inv
<1> DEFINE n == issued + 1
<1>1. /\ row' = [row EXCEPT ![s] = [state |-> "stored", user |-> u, ticket |-> n,
                                    expires |-> n, revoked |-> FALSE]]
      /\ issued' = n /\ request' = request /\ redeemed' = redeemed /\ lost' = lost /\ over' = over
      /\ issued \in Nat /\ n \in Nat /\ n > issued
  BY SessionsAssumption DEF SignIn, Issue, TypeOK, clock
<1> HIDE DEF n
<1>2. row'[s].ticket = n /\ \A t \in Sessions : t # s => row'[t] = row[t]
  BY <1>1 DEF TypeOK
<1>3. /\ n # Wiped /\ Wiped <= n /\ n \notin redeemed
      /\ \A t \in Sessions : row[t].ticket \in Nat /\ row[t].ticket # n
      /\ \A q \in Requests : /\ request[q].ticket \in Nat /\ request[q].ticket # n
                             /\ request[q].next \in Nat /\ request[q].next # n
      /\ \A m \in redeemed : m \in Nat
  BY NewTicket DEF n
<1>4. AllIssued'
  BY <1>1, <1>2, <1>3 DEF AllIssued
<1>5. NextFresh'
  BY <1>1, <1>2, <1>3 DEF NextFresh, Pending
<1>6. OneSession'
  BY <1>1, <1>2, <1>3 DEF OneSession, InHand, Refreshing, At
<1>7. StoredUnused'
  BY <1>1, <1>2, <1>3 DEF StoredUnused, Refreshing, Retrievable
<1>8. RefreshedOnce'
  BY <1>1 DEF RefreshedOnce, At
<1> QED BY <1>4, <1>5, <1>6, <1>7, <1>8 DEF TokensInv

LEMMA SignInAgainTokens ==
    ASSUME Inv, NEW p \in Requests, SignInAgain(p)
    PROVE  TokensInv'
<1> USE DEF Inv
<1> DEFINE n == issued + 1
<1>0. request[p] \in AllRequests
  BY DEF TypeOK
<1>1. /\ issued' = n /\ row' = row /\ redeemed' = redeemed /\ lost' = lost /\ over' = over
      /\ At(p, "serving")
  BY DEF SignInAgain, Issue, clock, rows
<1>9. issued \in Nat /\ n \in Nat /\ n > issued
  BY NewTicket
<1>10. n \in Tickets
  BY <1>9, SessionsAssumption DEF SignInAgain, Issue, Tickets
<1>2. /\ request'[p].at = "renewing" /\ request'[p].ticket = Wiped /\ request'[p].next = n
      /\ \A q \in Requests : q # p => request'[q] = request[q]
  <2> DEFINE v == [request[p] EXCEPT !.at = "renewing", !.ticket = Wiped, !.next = n]
  <2>1. SetRequest(p, v)
    BY DEF SignInAgain
  <2> HIDE DEF n
  <2>2. v \in AllRequests /\ v.at = "renewing" /\ v.ticket = Wiped /\ v.next = n
    BY <1>0, <1>10 DEF AllRequests, Places
  <2> HIDE DEF v
  <2> QED BY <2>1, <2>2, SetOneRequest
<1> HIDE DEF n
<1>3. /\ n # Wiped /\ Wiped <= n /\ n \notin redeemed
      /\ \A t \in Sessions : row[t].ticket \in Nat /\ row[t].ticket # n
      /\ \A q \in Requests : /\ request[q].ticket \in Nat /\ request[q].ticket # n
                             /\ request[q].next \in Nat /\ request[q].next # n
      /\ \A m \in redeemed : m \in Nat
  BY NewTicket DEF n
<1>4. AllIssued'
  BY <1>1, <1>2, <1>3, <1>9 DEF AllIssued
<1>5. NextFresh'
  BY <1>1, <1>2, <1>3, <1>9 DEF NextFresh, Pending
<1>6. OneSession'
  BY <1>1, <1>2 DEF OneSession, InHand, Refreshing, At
<1>7. StoredUnused'
  BY <1>1, <1>2 DEF StoredUnused, Refreshing, Retrievable, At
<1>8. RefreshedOnce'
  BY <1>1, <1>2 DEF RefreshedOnce, At
<1> QED BY <1>4, <1>5, <1>6, <1>7, <1>8 DEF TokensInv

LEMMA RemoveTokens ==
    ASSUME Inv, NEW p \in Requests, ~InHand(p), ~Pending(p), Remove(p)
    PROVE  TokensInv'
<1> USE DEF Inv
<1> DEFINE s == request[p].session
<1>1. s \in Sessions
  BY DEF TypeOK, AllRequests
<1>2. /\ UNCHANGED <<issued, redeemed, lost, over>>
      /\ row' = [row EXCEPT ![s].state = "removed"]
      /\ request' = [request EXCEPT ![p] = [at |-> "idle", session |-> s, ticket |-> Wiped, next |-> Wiped]]
  BY DEF Remove, SetRequest, NoRequest, tokens, clock
<1> HIDE DEF s
<1>3. /\ request'[p].at = "idle" /\ request'[p].ticket = Wiped /\ request'[p].next = Wiped
      /\ \A q \in Requests : q # p => request'[q] = request[q]
  BY <1>2 DEF TypeOK
<1>4. \A t \in Sessions : /\ row'[t].ticket = row[t].ticket /\ row'[t].revoked = row[t].revoked
                          /\ row'[t].expires = row[t].expires
                          /\ t # s => row'[t] = row[t]
                          /\ row'[s].state = "removed"
  BY <1>1, <1>2 DEF TypeOK, Rows
<1>5. Wiped <= issued /\ \A m \in redeemed : m <= issued
  BY NewTicket DEF AllIssued, TypeOK, Wiped
<1>6. AllIssued'
  BY <1>2, <1>3, <1>4, <1>5 DEF AllIssued
<1>7. NextFresh'
  BY <1>2, <1>3, <1>4 DEF NextFresh, Pending
<1>8. OneSession'
  BY <1>2, <1>3, <1>4 DEF OneSession, InHand, Refreshing, At
<1>9. \A t \in Sessions : Retrievable(t)' => Retrievable(t)
  BY <1>1, <1>2, <1>4 DEF Retrievable
<1>10. StoredUnused'
  BY <1>2, <1>3, <1>4, <1>9 DEF StoredUnused, Refreshing, InHand
<1>11. RefreshedOnce'
  BY <1>2, <1>3 DEF RefreshedOnce, At
<1> QED BY <1>6, <1>7, <1>8, <1>10, <1>11 DEF TokensInv

\* The holder of the refresh lock presents the token it has just read.
LEMMA RereadTokens ==
    ASSUME Inv, NEW p \in Requests, At(p, "locked"), NEW s, s = request[p].session,
           Retrievable(s), row[s].ticket \in stale,
           SetRequest(p, [request[p] EXCEPT !.at = "posting", !.ticket = row[s].ticket]),
           UNCHANGED <<rows, tokens, clock>>
    PROVE  TokensInv'
<1> USE DEF Inv
<1>1. s \in Sessions /\ request[p] \in AllRequests
  BY DEF TypeOK, AllRequests
<1>2. row[s].ticket \in Tickets \cup {Wiped} /\ "posting" \in Places
  BY <1>1 DEF TypeOK, Rows, Places
<1>3. /\ request'[p].at = "posting" /\ request'[p].ticket = row[s].ticket
      /\ request'[p].next = request[p].next /\ request'[p].session = s
      /\ \A q \in Requests : q # p => request'[q] = request[q]
  BY <1>2, SetAtTicket
<1>4. UNCHANGED <<row, issued, redeemed, lost, over>>
  BY DEF rows, tokens, clock
<1>5. row[s].ticket # Wiped
  BY SessionsAssumption DEF TypeOK, Tickets, Wiped
<1>6. AllIssued'
  BY <1>1, <1>3, <1>4 DEF AllIssued
<1>7. NextFresh'
  BY <1>1, <1>3, <1>4 DEF NextFresh, Pending
<1>8. OneSession'
  BY <1>1, <1>3, <1>4, <1>5 DEF OneSession, InHand, Refreshing, At
<1>9. StoredUnused'
  BY <1>3, <1>4 DEF StoredUnused, Refreshing, Retrievable, At
<1>10. row[s].ticket \in redeemed => row[s].ticket \in lost
  <2> SUFFICES ASSUME row[s].ticket \in redeemed, row[s].ticket \notin lost
               PROVE  FALSE
    OBVIOUS
  <2>1. PICK q \in Requests : Refreshing(q) /\ request[q].session = s
    BY <1>1 DEF StoredUnused
  <2>2. stage[q] = "holds" /\ stage[p] = "holds" /\ key[q] = s /\ key[p] = s
    BY <2>1 DEF LockHeld, InHand
  <2> QED BY <2>1, <2>2 DEF LockHeld, Refreshing, At
<1>11. RefreshedOnce'
  BY <1>3, <1>4, <1>10 DEF RefreshedOnce, At
<1> QED BY <1>6, <1>7, <1>8, <1>9, <1>11 DEF TokensInv

LEMMA RedeemTokens ==
    ASSUME Inv, NEW p \in Requests, Redeem(p)
    PROVE  TokensInv'
<1> USE DEF Inv
<1> DEFINE n == issued + 1
           t == request[p].ticket
<1>1. request[p] \in AllRequests /\ At(p, "posting")
  BY DEF TypeOK, Redeem
<1>2. /\ issued' = n /\ row' = row /\ redeemed' = redeemed \cup {t} /\ lost' = lost /\ over' = over
  BY DEF Redeem, Issue, rows, clock
<1>3. n \in Tickets
  BY NewTicket, SessionsAssumption DEF Redeem, Issue, Tickets
<1>4. /\ issued \in Nat /\ n \in Nat /\ n > issued /\ n # Wiped /\ n \notin redeemed
      /\ \A r \in Sessions : row[r].ticket \in Nat /\ row[r].ticket # n
      /\ \A q \in Requests : /\ request[q].ticket \in Nat /\ request[q].ticket # n
                             /\ request[q].next \in Nat /\ request[q].next # n
      /\ \A m \in redeemed : m \in Nat
  BY NewTicket
<1>5. t # Wiped /\ t <= issued /\ t \in Nat /\ t # n
  BY <1>1, <1>4 DEF OneSession, InHand, AllIssued
<1>13. SetRequest(p, [request[p] EXCEPT !.at = "renewing", !.next = n])
  BY DEF Redeem
<1>14. "renewing" \in Places
  BY DEF Places
<1> HIDE DEF n
<1>6. /\ request'[p].at = "renewing" /\ request'[p].ticket = t /\ request'[p].next = n
      /\ request'[p].session = request[p].session
      /\ \A q \in Requests : q # p => request'[q] = request[q]
  BY <1>3, <1>13, <1>14, SetAtNext
<1> HIDE DEF t
<1>7. AllIssued'
  BY <1>2, <1>4, <1>5, <1>6 DEF AllIssued
<1>8. \A q \in Requests : Pending(q) => request[q].next # t
  BY DEF NextFresh, t
<1>9. NextFresh'
  BY <1>2, <1>4, <1>5, <1>6, <1>8 DEF NextFresh, Pending
<1>10. OneSession'
  BY <1>1, <1>2, <1>5, <1>6 DEF OneSession, InHand, Refreshing, At, t
<1>11. StoredUnused'
  BY <1>1, <1>2, <1>5, <1>6 DEF StoredUnused, OneSession, InHand, Refreshing, Retrievable, At, t
<1>12. RefreshedOnce'
  <2> SUFFICES ASSUME NEW q \in Requests, At(q, "posting")', request'[q].ticket \in redeemed'
               PROVE  request'[q].ticket \in lost'
    BY DEF RefreshedOnce
  <2>1. q # p /\ request'[q] = request[q] /\ At(q, "posting")
    BY <1>6 DEF At
  <2>2. request[q].ticket # t
    <3> SUFFICES ASSUME request[q].ticket = request[p].ticket PROVE FALSE
      BY DEF t
    <3>1. request[q].session = request[p].session
      BY <1>1, <2>1 DEF OneSession, InHand
    <3>2. stage[q] = "holds" /\ stage[p] = "holds"
      BY <1>1, <2>1 DEF LockHeld, InHand
    <3>3. key[q] = request[q].session /\ key[p] = request[p].session
      BY <3>2 DEF LockHeld
    <3> QED BY <2>1, <3>1, <3>2, <3>3 DEF LockHeld
  <2> QED BY <1>2, <2>1, <2>2 DEF RefreshedOnce
<1> QED BY <1>7, <1>9, <1>10, <1>11, <1>12 DEF TokensInv

LEMMA FailTokens ==
    ASSUME Inv, NEW p \in Requests, Fail(p)
    PROVE  TokensInv'
<1> USE DEF Inv
<1> DEFINE t == request[p].ticket
<1>1. PICK gone : /\ gone = {} \/ (gone = {t} /\ t # Wiped)
                  /\ Refreshing(p) => gone = {t}
                  /\ redeemed' = redeemed \cup gone /\ lost' = lost \cup gone
  BY DEF Fail, Refreshing
<1>2. row' = row /\ issued' = issued /\ over' = over
  BY DEF Fail, rows, clock
<1>3. /\ request'[p].at = "idle" /\ request'[p].ticket = Wiped /\ request'[p].next = Wiped
      /\ \A q \in Requests : q # p => request'[q] = request[q]
  <2>1. request' = [request EXCEPT ![p] = [at |-> "idle", session |-> request[p].session,
                                           ticket |-> Wiped, next |-> Wiped]]
    BY DEF Fail, SetRequest, NoRequest
  <2> QED BY <2>1 DEF TypeOK
<1>4. Wiped <= issued /\ t <= issued
  BY NewTicket DEF AllIssued, TypeOK, Wiped
<1>5. \A q \in Requests : Pending(q) => request[q].next # t /\ request[q].next # Wiped
  BY DEF NextFresh
<1>6. \A q \in Requests : Refreshing(q) /\ request[q].ticket \notin gone => q # p
  BY <1>1
<1> HIDE DEF t
<1>7. AllIssued'
  BY <1>1, <1>2, <1>3, <1>4 DEF AllIssued
<1>8. NextFresh'
  BY <1>1, <1>2, <1>3, <1>5 DEF NextFresh, Pending
<1>9. OneSession'
  BY <1>2, <1>3 DEF OneSession, InHand, Refreshing, At
<1>10. StoredUnused'
  BY <1>1, <1>2, <1>3, <1>6 DEF StoredUnused, Refreshing, Retrievable
<1>11. RefreshedOnce'
  BY <1>1, <1>3 DEF RefreshedOnce, At
<1> QED BY <1>7, <1>8, <1>9, <1>10, <1>11 DEF TokensInv

\* Saving the successor gives the row a ticket nobody has used.
LEMMA RenewSaveTokens ==
    ASSUME Inv, NEW p \in Requests, RenewSave(p)
    PROVE  TokensInv'
<1> USE DEF Inv
<1> DEFINE s == request[p].session
           n == request[p].next
<1>1. s \in Sessions /\ request[p] \in AllRequests /\ Pending(p) /\ ~At(p, "idle")
  BY DEF TypeOK, AllRequests, RenewSave, At, Pending
<1>2. UNCHANGED <<issued, redeemed, lost, over>>
  BY DEF RenewSave, tokens, clock
<1>3. \A t \in Sessions : /\ row'[t].state = row[t].state /\ row'[t].revoked = row[t].revoked
                          /\ row'[t].ticket = IF t = s THEN n ELSE row[t].ticket
                          /\ t # s => row'[t] = row[t]
  <2>1. /\ row' = [row EXCEPT ![s].ticket = n, ![s].expires = origin[n]]
    BY DEF RenewSave
  <2>2. row \in [Sessions -> Rows]
    BY DEF TypeOK
  <2> HIDE DEF s, n
  <2> QED BY <1>1, <2>1, <2>2 DEF Rows
<1>4. /\ request'[p] = [at |-> "serving", session |-> s, ticket |-> request[p].ticket, next |-> n]
      /\ \A q \in Requests : q # p => request'[q] = request[q]
  <2>1. "serving" \in Places /\ Move(p, "serving")
    BY DEF Places, RenewSave
  <2> QED BY <2>1, MoveRequest
<1>5. /\ request'[p].at = "serving" /\ request'[p].ticket = request[p].ticket /\ request'[p].next = n
  BY <1>4
<1>6. /\ n # Wiped /\ n \notin redeemed /\ n <= issued
      /\ \A t \in Sessions : row[t].ticket # n
      /\ \A q \in Requests : /\ request[q].ticket # n
                             /\ Pending(q) /\ request[q].next = n => q = p
  BY <1>1 DEF NextFresh, AllIssued
<1> HIDE DEF n
<1>7. AllIssued'
  BY <1>2, <1>3, <1>4, <1>5, <1>6 DEF AllIssued
<1>8. NextFresh'
  BY <1>2, <1>3, <1>4, <1>5, <1>6 DEF NextFresh, Pending
<1>9. OneSession'
  BY <1>2, <1>3, <1>4, <1>5, <1>6 DEF OneSession, InHand, Refreshing, At
<1>10. \A t \in Sessions : t # s /\ Retrievable(t)' => Retrievable(t)
  BY <1>2, <1>3 DEF Retrievable
<1>11. StoredUnused'
  BY <1>2, <1>3, <1>4, <1>5, <1>6, <1>10 DEF StoredUnused, Refreshing
<1>12. RefreshedOnce'
  BY <1>2, <1>4, <1>5 DEF RefreshedOnce, At
<1> QED BY <1>7, <1>8, <1>9, <1>11, <1>12 DEF TokensInv

LEMMA RevokeSaveTokens ==
    ASSUME Inv, NEW a \in Revocations, RevokeSave(a)
    PROVE  TokensInv'
<1> USE DEF Inv
<1> DEFINE found == revocation[a].found
<1>1. UNCHANGED <<issued, redeemed, lost, over, request>>
  BY DEF RevokeSave, tokens, clock
<1>2. \A t \in Sessions : row'[t] = IF t \in found THEN [row[t] EXCEPT !.ticket = Wiped, !.revoked = TRUE]
                                    ELSE row[t]
  BY DEF RevokeSave
<1> HIDE DEF found
<1>3. \A t \in Sessions : /\ t \in found => row'[t].ticket = Wiped /\ row'[t].revoked = TRUE
                          /\ t \notin found => row'[t] = row[t]
  BY <1>2 DEF TypeOK, Rows
<1>4. Wiped <= issued /\ Wiped \notin redeemed
  BY NewTicket, SessionsAssumption DEF TypeOK, Wiped, Tickets
<1>5. AllIssued'
  BY <1>1, <1>3, <1>4 DEF AllIssued
<1>6. NextFresh'
  BY <1>1, <1>3 DEF NextFresh, Pending
<1>7. OneSession'
  BY <1>1, <1>3 DEF OneSession, InHand, Refreshing, At
<1>8. StoredUnused'
  BY <1>1, <1>3, <1>4 DEF StoredUnused, Refreshing, Retrievable
<1>9. RefreshedOnce'
  BY <1>1 DEF RefreshedOnce, At
<1> QED BY <1>5, <1>6, <1>7, <1>8, <1>9 DEF TokensInv

-----------------------------------------------------------------------------
(* One lemma for every action.                                             *)

LEMMA Combine ==
    ASSUME TypeOK', LockHeld', TokensInv'
    PROVE  Inv'
BY DEF TokensInv, Inv

LEMMA InvTokens == Inv => TypeOK /\ LockHeld /\ TokensInv
BY DEF Inv, TokensInv

LEMMA UnlockType ==
    ASSUME TypeOK, NEW p \in Requests, Unlock(p)
    PROVE  stage' \in [Requests -> {"out", "waits", "holds"}] /\ key' \in [Requests -> Sessions]
BY DEF TypeOK, Unlock, lock, Lock!Leave

LEMMA GoStaleInv ==
    ASSUME Inv, NEW n \in Tickets, GoStale(n)
    PROVE  Inv'
<1>1. TypeOK /\ LockHeld /\ TokensInv
  BY InvTokens
<1>2. TypeOK'
  BY <1>1 DEF GoStale, TypeOK, rows, tokens, lock
<1>3. LockHeld'
  BY <1>1 DEF GoStale, lock, LockHeld, InHand, Refreshing, At
<1>4. TokensInv'
  <2>1. UNCHANGED <<row, request, issued, redeemed, lost>> /\ over \subseteq over'
    BY DEF GoStale, rows, tokens
  <2> QED BY <1>1, <2>1, TokensKept
<1> QED BY <1>2, <1>3, <1>4, Combine

LEMMA GoOverInv ==
    ASSUME Inv, NEW n \in Tickets, GoOver(n)
    PROVE  Inv'
<1>1. TypeOK /\ LockHeld /\ TokensInv
  BY InvTokens
<1>2. TypeOK'
  BY <1>1 DEF GoOver, TypeOK, rows, tokens, lock
<1>3. LockHeld'
  BY <1>1 DEF GoOver, lock, LockHeld, InHand, Refreshing, At
<1>4. TokensInv'
  <2>1. UNCHANGED <<row, request, issued, redeemed, lost>> /\ over \subseteq over'
    BY DEF GoOver, rows, tokens
  <2> QED BY <1>1, <2>1, TokensKept
<1> QED BY <1>2, <1>3, <1>4, Combine

\* Issuing a ticket keeps the types of what numbers the tickets.
LEMMA IssueType ==
    ASSUME TypeOK, NEW o, o \in Tickets \/ o = issued + 1, Issue(o)
    PROVE  /\ issued' \in 0..MaxTickets /\ issued + 1 \in Tickets
           /\ origin' \in [Tickets -> Tickets]
<1>1. issued \in Nat /\ issued < MaxTickets /\ MaxTickets \in Nat
  BY SessionsAssumption DEF TypeOK, Issue
<1>2. issued + 1 \in Tickets /\ issued + 1 \in 0..MaxTickets
  BY <1>1 DEF Tickets
<1>3. origin' \in [Tickets -> Tickets]
  BY <1>2 DEF TypeOK, Issue
<1> QED BY <1>2, <1>3 DEF Issue

LEMMA SignInInv ==
    ASSUME Inv, NEW p \in Requests, NEW s \in Sessions, NEW u \in Users, SignIn(p, s, u)
    PROVE  Inv'
<1>1. TypeOK /\ LockHeld /\ TokensInv
  BY InvTokens
<1>2. TypeOK'
  <2>1. issued' \in 0..MaxTickets /\ issued + 1 \in Tickets /\ origin' \in [Tickets -> Tickets]
    BY <1>1, IssueType DEF SignIn
  <2>2. row' \in [Sessions -> Rows]
    BY <1>1, <2>1 DEF SignIn, TypeOK, Rows
  <2> QED BY <1>1, <2>1, <2>2 DEF SignIn, TypeOK, clock, lock
<1>3. LockHeld'
  BY <1>1 DEF SignIn, lock, LockHeld, InHand, Refreshing, At
<1> QED BY <1>2, <1>3, SignInTokens, Combine

LEMMA AuthenticateInv ==
    ASSUME Inv, NEW p \in Requests, NEW s \in Sessions, Authenticate(p, s)
    PROVE  Inv'
<1>1. TypeOK /\ LockHeld /\ TokensInv
  BY InvTokens
<1> DEFINE v == [at |-> "serving", session |-> s, ticket |-> row[s].ticket, next |-> Wiped]
<1>2. v \in AllRequests
  BY <1>1 DEF TypeOK, Rows, AllRequests, Places
<1>3. SetRequest(p, v) /\ At(p, "idle")
  BY DEF Authenticate
<1> HIDE DEF v
<1>4. /\ request' \in [Requests -> AllRequests]
      /\ request'[p] = v
      /\ \A q \in Requests : q # p => request'[q] = request[q]
  BY <1>1, <1>2, <1>3, SetOneRequest
<1>5. v.at = "serving" /\ v.ticket = row[s].ticket /\ v.next = Wiped
  BY DEF v
<1>6. TypeOK'
  BY <1>1, <1>4 DEF Authenticate, TypeOK, rows, tokens, clock, lock
<1>7. LockHeld'
  <2>1. /\ Wants(request'[p].at, request'[p].ticket) = "out"
        /\ Wants(request[p].at, request[p].ticket) = "out"
    BY <1>3, <1>4, <1>5 DEF Wants, At
  <2>2. stage[p] = "out"
    BY <1>1, <2>1, LockHeldAlt
  <2>3. UNCHANGED lock
    BY DEF Authenticate
  <2> QED BY <1>1, <1>4, <1>6, <2>1, <2>2, <2>3, LockKept
<1>8. TokensInv'
  <2>1. UNCHANGED <<row, issued, redeemed, lost, over>>
    BY DEF Authenticate, rows, tokens, clock
  <2>2. request'[p].ticket <= issued /\ request'[p].next <= issued
    BY <1>1, <1>4, <1>5, SessionsAssumption DEF TokensInv, AllIssued, TypeOK, Wiped
  <2>3. \A q \in Requests : Pending(q) => request'[p].ticket # request[q].next
    BY <1>1, <1>4, <1>5 DEF TokensInv, NextFresh
  <2>4. /\ ~Pending(p)' /\ ~InHand(p)' /\ ~Refreshing(p) /\ ~At(p, "posting")'
    BY <1>3, <1>4, <1>5 DEF Pending, InHand, Refreshing, At
  <2> QED BY <1>1, <1>4, <2>1, <2>2, <2>3, <2>4, QuietStep
<1> QED BY <1>6, <1>7, <1>8, Combine

LEMMA SignInAgainInv ==
    ASSUME Inv, NEW p \in Requests, SignInAgain(p)
    PROVE  Inv'
<1>1. TypeOK /\ LockHeld /\ TokensInv
  BY InvTokens
<1> DEFINE v == [request[p] EXCEPT !.at = "renewing", !.ticket = Wiped, !.next = issued + 1]
<1>2. issued' \in 0..MaxTickets /\ issued + 1 \in Tickets /\ origin' \in [Tickets -> Tickets]
  BY <1>1, IssueType DEF SignInAgain
<1>3. request[p] \in AllRequests
  BY <1>1 DEF TypeOK
<1>4. v \in AllRequests /\ v.at = "renewing" /\ v.ticket = Wiped
  BY <1>2, <1>3 DEF AllRequests, Places
<1>5. SetRequest(p, v) /\ At(p, "serving")
  BY DEF SignInAgain
<1> HIDE DEF v
<1>6. /\ request' \in [Requests -> AllRequests]
      /\ request'[p] = v
      /\ \A q \in Requests : q # p => request'[q] = request[q]
  BY <1>1, <1>4, <1>5, SetOneRequest
<1>7. UNCHANGED <<row, revocation, stale, over, redeemed, lost, stage, key>>
  BY DEF SignInAgain, rows, clock, lock
<1>8. TypeOK'
  BY <1>1, <1>2, <1>6, <1>7 DEF TypeOK
<1>9. LockHeld'
  <2>1. /\ Wants(request'[p].at, request'[p].ticket) = "out"
        /\ Wants(request[p].at, request[p].ticket) = "out"
    BY <1>4, <1>5, <1>6 DEF Wants, At
  <2>2. stage[p] = "out"
    BY <1>1, <2>1, LockHeldAlt
  <2>3. UNCHANGED lock
    BY <1>7 DEF lock
  <2> QED BY <1>1, <1>6, <1>8, <2>1, <2>2, <2>3, LockKept
<1> QED BY <1>8, <1>9, SignInAgainTokens, Combine

\* Logout, SignOutExpired and Finish leave a request without the lock.
LEMMA IdleAgain ==
    ASSUME Inv, NEW p \in Requests, At(p, "serving") \/ At(p, "expired"),
           SetRequest(p, NoRequest(request[p].session)), UNCHANGED lock
    PROVE  /\ request' \in [Requests -> AllRequests]
           /\ request'[p].at = "idle" /\ request'[p].ticket = Wiped /\ request'[p].next = Wiped
           /\ \A q \in Requests : q # p => request'[q] = request[q]
           /\ TypeOK' => LockHeld'
<1>1. TypeOK /\ LockHeld
  BY InvTokens
<1> DEFINE v == NoRequest(request[p].session)
<1>2. v \in AllRequests /\ v.at = "idle" /\ v.ticket = Wiped /\ v.next = Wiped
  BY <1>1 DEF TypeOK, AllRequests, NoRequest, Places
<1> HIDE DEF v
<1>3. /\ request' \in [Requests -> AllRequests]
      /\ request'[p] = v
      /\ \A q \in Requests : q # p => request'[q] = request[q]
  BY <1>1, <1>2, SetOneRequest DEF v
<1>4. /\ Wants(request'[p].at, request'[p].ticket) = "out"
      /\ Wants(request[p].at, request[p].ticket) = "out"
  BY <1>2, <1>3 DEF Wants, At
<1>5. stage[p] = "out"
  BY <1>1, <1>4, LockHeldAlt
<1>6. ASSUME TypeOK' PROVE LockHeld'
  BY <1>1, <1>3, <1>4, <1>5, <1>6, LockKept
<1> QED BY <1>2, <1>3, <1>6

LEMMA RemoveInv ==
    ASSUME Inv, NEW p \in Requests, Logout(p) \/ SignOutExpired(p)
    PROVE  Inv'
<1>1. /\ At(p, "serving") \/ At(p, "expired")
      /\ ~InHand(p) /\ ~Pending(p) /\ Remove(p)
  BY DEF Logout, SignOutExpired, InHand, Refreshing, Pending, At
<1>2. TypeOK
  BY InvTokens
<1>3. SetRequest(p, NoRequest(request[p].session)) /\ UNCHANGED lock
  BY <1>1 DEF Remove
<1>4. request' \in [Requests -> AllRequests] /\ (TypeOK' => LockHeld')
  BY <1>1, <1>3, IdleAgain
<1>5. row' \in [Sessions -> Rows]
  <2> DEFINE s == request[p].session
             v == [row[s] EXCEPT !.state = "removed"]
  <2>1. s \in Sessions
    BY <1>2 DEF TypeOK, AllRequests
  <2>2. row' = [row EXCEPT ![s] = v]
    BY <1>1 DEF Remove
  <2>3. v \in Rows
    <3>1. row[s] \in Rows
      BY <1>2, <2>1 DEF TypeOK
    <3> HIDE DEF s
    <3> QED BY <3>1 DEF Rows
  <2> HIDE DEF s, v
  <2> QED BY <1>2, <2>1, <2>2, <2>3 DEF TypeOK
<1>6. TypeOK'
  BY <1>1, <1>2, <1>4, <1>5 DEF Remove, TypeOK, tokens, clock, lock
<1>7. TokensInv'
  BY <1>1, RemoveTokens
<1> QED BY <1>4, <1>6, <1>7, Combine

LEMMA FinishInv ==
    ASSUME Inv, NEW p \in Requests, Finish(p)
    PROVE  Inv'
<1>1. TypeOK /\ TokensInv /\ At(p, "serving")
  BY InvTokens DEF Finish
<1>2. SetRequest(p, NoRequest(request[p].session)) /\ UNCHANGED lock
  BY DEF Finish
<1>3. /\ request' \in [Requests -> AllRequests]
      /\ request'[p].at = "idle" /\ request'[p].ticket = Wiped /\ request'[p].next = Wiped
      /\ \A q \in Requests : q # p => request'[q] = request[q]
      /\ TypeOK' => LockHeld'
  BY <1>1, <1>2, IdleAgain
<1>4. TypeOK'
  BY <1>1, <1>3 DEF Finish, TypeOK, rows, tokens, clock, lock
<1>5. TokensInv'
  <2>1. UNCHANGED <<row, issued, redeemed, lost, over>>
    BY DEF Finish, rows, tokens, clock
  <2>2. request'[p].ticket <= issued /\ request'[p].next <= issued
    BY <1>1, <1>3, SessionsAssumption DEF TypeOK, Wiped
  <2>3. \A q \in Requests : Pending(q) => request'[p].ticket # request[q].next
    BY <1>1, <1>3 DEF TokensInv, NextFresh
  <2>4. /\ ~Pending(p)' /\ ~InHand(p)' /\ ~Refreshing(p) /\ ~At(p, "posting")'
    BY <1>1, <1>3 DEF Pending, InHand, Refreshing, At
  <2> QED BY <1>1, <1>3, <2>1, <2>2, <2>3, <2>4, QuietStep
<1> QED BY <1>3, <1>4, <1>5, Combine

\* A move that issues and redeems nothing keeps the tokens in order.
LEMMA QuietMove ==
    ASSUME TypeOK, TokensInv, NEW p \in Requests,
           NEW place \in {"serving", "waiting", "locked", "saving", "expired"},
           Move(p, place), UNCHANGED <<rows, tokens, clock>>,
           place = "saving" => At(p, "renewing"),
           Refreshing(p) => place = "saving" \/ ~Retrievable(request[p].session)
    PROVE  TypeOK /\ TokensInv' /\ request' \in [Requests -> AllRequests]
<1>1. place \in Places
  BY DEF Places
<1>2. /\ request' \in [Requests -> AllRequests]
      /\ request'[p] = [at |-> place, session |-> request[p].session,
                        ticket |-> request[p].ticket, next |-> request[p].next]
      /\ \A q \in Requests : q # p => request'[q] = request[q]
  BY <1>1, MoveRequest
<1>3. /\ request'[p].at = place /\ request'[p].session = request[p].session
      /\ request'[p].ticket = request[p].ticket /\ request'[p].next = request[p].next
  BY <1>2
<1>4. UNCHANGED <<row, issued, redeemed, lost, over>>
  BY DEF rows, tokens, clock
<1>5. request'[p].ticket <= issued /\ request'[p].next <= issued
  BY <1>3 DEF TokensInv, AllIssued
<1>6. \A q \in Requests : Pending(q) => request'[p].ticket # request[q].next
  BY <1>3 DEF TokensInv, NextFresh
<1>7. Pending(p)' => Pending(p) /\ request'[p].next = request[p].next
  BY <1>3 DEF Pending, At
<1>8. InHand(p)' => /\ InHand(p)
                    /\ request'[p].ticket = request[p].ticket
                    /\ request'[p].session = request[p].session
  BY <1>3 DEF InHand, Refreshing, At
<1>9. Refreshing(p) => Refreshing(p)' \/ ~Retrievable(request[p].session)
  BY <1>3 DEF Refreshing
<1>10. At(p, "posting")' => At(p, "posting")
  BY <1>3 DEF At
<1> QED BY <1>2, <1>4, <1>5, <1>6, <1>7, <1>8, <1>9, <1>10, QuietStep

\* A move that ends the use of the lock.
LEMMA LeavingMove ==
    ASSUME Inv, NEW p \in Requests, NEW place \in {"serving", "expired"}, Move(p, place), Unlock(p),
           UNCHANGED <<rows, tokens, clock>>,
           Refreshing(p) => ~Retrievable(request[p].session)
    PROVE  Inv'
<1>1. TypeOK /\ LockHeld /\ TokensInv /\ place \in Places
  BY InvTokens DEF Places
<1>2. /\ request' \in [Requests -> AllRequests]
      /\ request'[p] = [at |-> place, session |-> request[p].session,
                        ticket |-> request[p].ticket, next |-> request[p].next]
      /\ \A q \in Requests : q # p => request'[q] = request[q]
  BY <1>1, MoveRequest
<1>3. TypeOK'
  <2>1. stage' \in [Requests -> {"out", "waits", "holds"}] /\ key' \in [Requests -> Sessions]
    BY <1>1, UnlockType
  <2> QED BY <1>1, <1>2, <2>1 DEF TypeOK, rows, tokens, clock
<1>4. Wants(request'[p].at, request'[p].ticket) = "out"
  <2>1. request'[p].at = place
    BY <1>2
  <2> QED BY <2>1 DEF Wants
<1>5. LockHeld'
  BY <1>1, <1>2, <1>3, <1>4, LockLeft
<1>6. TokensInv'
  BY <1>1, QuietMove
<1> QED BY <1>3, <1>5, <1>6, Combine

LEMMA RefuseInv ==
    ASSUME Inv, NEW p \in Requests, Refuse(p)
    PROVE  Inv'
<1>1. ~Refreshing(p) /\ Move(p, "expired") /\ Unlock(p) /\ UNCHANGED <<rows, tokens, clock>>
  BY DEF Refuse, Refreshing, At
<1> QED BY <1>1, LeavingMove

LEMMA RenewReadInv ==
    ASSUME Inv, NEW p \in Requests, RenewRead(p)
    PROVE  Inv'
<1>1. UNCHANGED <<rows, tokens, clock>> /\ At(p, "renewing") /\ TypeOK /\ LockHeld /\ TokensInv
  BY InvTokens DEF RenewRead
<1>2. CASE Move(p, "saving") /\ UNCHANGED lock
  <2>1. TokensInv' /\ request' \in [Requests -> AllRequests]
    BY <1>1, <1>2, QuietMove
  <2>2. TypeOK'
    BY <1>1, <1>2, <2>1 DEF TypeOK, rows, tokens, clock, lock
  <2>3. /\ request'[p] = [at |-> "saving", session |-> request[p].session,
                          ticket |-> request[p].ticket, next |-> request[p].next]
        /\ \A q \in Requests : q # p => request'[q] = request[q]
    <3>1. "saving" \in Places
      BY DEF Places
    <3> QED BY <1>1, <1>2, <3>1, MoveRequest
  <2>4. /\ Wants(request'[p].at, request'[p].ticket) = Wants(request[p].at, request[p].ticket)
        /\ request'[p].session = request[p].session
    BY <1>1, <2>3 DEF Wants, At
  <2>5. LockHeld'
    BY <1>1, <1>2, <2>2, <2>3, <2>4, LockKept
  <2> QED BY <2>1, <2>2, <2>5, Combine
<1>3. CASE /\ ~(row[request[p].session].state = "stored" /\ ~row[request[p].session].revoked)
           /\ Move(p, "serving") /\ Unlock(p)
  <2>1. ~Retrievable(request[p].session)
    BY <1>3 DEF Retrievable
  <2> QED BY <1>1, <1>3, <2>1, LeavingMove
<1> QED BY <1>2, <1>3 DEF RenewRead

LEMMA AskLockInv ==
    ASSUME Inv, NEW p \in Requests, AskLock(p)
    PROVE  Inv'
<1> DEFINE s == request[p].session
<1>1. /\ TypeOK /\ LockHeld /\ TokensInv /\ At(p, "serving")
      /\ Move(p, "waiting") /\ UNCHANGED <<rows, tokens, clock>>
  BY InvTokens DEF AskLock
<1>2. s \in Sessions /\ "waiting" \in Places
  BY <1>1 DEF TypeOK, AllRequests, Places
<1>3. /\ request' \in [Requests -> AllRequests]
      /\ request'[p] = [at |-> "waiting", session |-> s,
                        ticket |-> request[p].ticket, next |-> request[p].next]
      /\ \A q \in Requests : q # p => request'[q] = request[q]
  BY <1>1, <1>2, MoveRequest
<1>4. stage' = [stage EXCEPT ![p] = "waits"] /\ key' = [key EXCEPT ![p] = s]
  BY DEF AskLock, Lock!Ask
<1> HIDE DEF s
<1>5. TypeOK'
  BY <1>1, <1>2, <1>3, <1>4 DEF TypeOK, rows, tokens, clock
<1>6. LockHeld'
  <2>1. request'[p].at = "waiting" /\ request'[p].session = s
    BY <1>3
  <2>2. /\ stage'[p] = "waits" /\ key'[p] = s
        /\ \A q \in Requests : q # p => stage'[q] = stage[q] /\ key'[q] = key[q]
    BY <1>1, <1>4 DEF TypeOK
  <2> QED BY <1>1, <1>3, <2>1, <2>2 DEF LockHeld, InHand, Refreshing, At
<1>7. TokensInv'
  <2>1. ~Refreshing(p)
    BY <1>1 DEF Refreshing, At
  <2> QED BY <1>1, <2>1, QuietMove
<1> QED BY <1>5, <1>6, <1>7, Combine

LEMMA TakeLockInv ==
    ASSUME Inv, NEW p \in Requests, TakeLock(p)
    PROVE  Inv'
<1>1. /\ TypeOK /\ LockHeld /\ TokensInv /\ At(p, "waiting")
      /\ Move(p, "locked") /\ UNCHANGED <<rows, tokens, clock>>
  BY InvTokens DEF TakeLock
<1>2. /\ request' \in [Requests -> AllRequests]
      /\ request'[p] = [at |-> "locked", session |-> request[p].session,
                        ticket |-> request[p].ticket, next |-> request[p].next]
      /\ \A q \in Requests : q # p => request'[q] = request[q]
  <2>1. "locked" \in Places
    BY DEF Places
  <2> QED BY <1>1, <2>1, MoveRequest
<1>3. /\ stage' = [stage EXCEPT ![p] = "holds"] /\ key' = key
      /\ \A q \in Requests : stage[q] = "holds" => key[q] # key[p]
  BY DEF TakeLock, Lock!Acquire, Lock!Held
<1>4. TypeOK'
  BY <1>1, <1>2, <1>3 DEF TypeOK, rows, tokens, clock
<1>5. LockHeld'
  <2>1. request'[p].at = "locked" /\ request'[p].session = request[p].session
    BY <1>2
  <2>2. /\ stage'[p] = "holds"
        /\ \A q \in Requests : q # p => stage'[q] = stage[q]
    BY <1>1, <1>3 DEF TypeOK
  <2> QED BY <1>1, <1>2, <1>3, <2>1, <2>2 DEF LockHeld, InHand, Refreshing, At
<1>6. TokensInv'
  <2>1. ~Refreshing(p)
    BY <1>1 DEF Refreshing, At
  <2> QED BY <1>1, <2>1, QuietMove
<1> QED BY <1>4, <1>5, <1>6, Combine

LEMMA RereadInv ==
    ASSUME Inv, NEW p \in Requests, Reread(p)
    PROVE  Inv'
<1> DEFINE s == request[p].session
<1>1. /\ TypeOK /\ LockHeld /\ TokensInv /\ At(p, "locked") /\ ~Refreshing(p)
      /\ UNCHANGED <<rows, tokens, clock>>
  BY InvTokens DEF Reread, Refreshing, At
<1>2. CASE Move(p, "expired") /\ Unlock(p)
  BY <1>1, <1>2, LeavingMove
<1>3. CASE Move(p, "serving") /\ Unlock(p)
  BY <1>1, <1>3, LeavingMove
<1>4. CASE /\ Retrievable(s) /\ row[s].ticket \in stale
           /\ SetRequest(p, [request[p] EXCEPT !.at = "posting", !.ticket = row[s].ticket])
           /\ UNCHANGED lock
  <2>1. s \in Sessions /\ row[s].ticket \in Tickets \cup {Wiped} /\ "posting" \in Places
    BY <1>1 DEF TypeOK, AllRequests, Rows, Places
  <2>2. TokensInv'
    BY <1>1, <1>4, RereadTokens
  <2>3. /\ request' \in [Requests -> AllRequests]
        /\ request'[p].at = "posting" /\ request'[p].session = s
        /\ \A q \in Requests : q # p => request'[q] = request[q]
    BY <1>1, <1>4, <2>1, SetAtTicket
  <2>4. TypeOK'
    BY <1>1, <1>4, <2>3 DEF TypeOK, rows, tokens, clock, lock
  <2>5. Wants(request'[p].at, request'[p].ticket) = Wants(request[p].at, request[p].ticket)
    BY <1>1, <2>3 DEF Wants, At
  <2>6. LockHeld'
    BY <1>1, <1>4, <2>3, <2>4, <2>5, LockKept
  <2> QED BY <2>2, <2>4, <2>6, Combine
<1> QED BY <1>2, <1>3, <1>4 DEF Reread

LEMMA RedeemInv ==
    ASSUME Inv, NEW p \in Requests, Redeem(p)
    PROVE  Inv'
<1>1. TypeOK /\ LockHeld /\ TokensInv /\ OneSession /\ At(p, "posting")
  BY InvTokens DEF Redeem, TokensInv
<1>2. request[p].ticket \in Tickets
  BY <1>1 DEF OneSession, InHand, TypeOK, AllRequests
<1>3. /\ issued' \in 0..MaxTickets /\ issued + 1 \in Tickets /\ origin' \in [Tickets -> Tickets]
  <2>1. origin[request[p].ticket] \in Tickets
    BY <1>1, <1>2 DEF TypeOK
  <2> QED BY <1>1, <2>1, IssueType DEF Redeem
<1>4. /\ request' \in [Requests -> AllRequests]
      /\ request'[p].at = "renewing" /\ request'[p].session = request[p].session
      /\ request'[p].ticket = request[p].ticket
      /\ \A q \in Requests : q # p => request'[q] = request[q]
  <2>1. SetRequest(p, [request[p] EXCEPT !.at = "renewing", !.next = issued + 1])
    BY DEF Redeem
  <2>2. "renewing" \in Places
    BY DEF Places
  <2> QED BY <1>1, <1>3, <2>1, <2>2, SetAtNext
<1>5. UNCHANGED <<row, revocation, lost, stale, over, stage, key>>
  BY DEF Redeem, rows, clock, lock
<1>6. redeemed' \subseteq Tickets
  BY <1>1, <1>2 DEF Redeem, TypeOK
<1>7. TypeOK'
  BY <1>1, <1>3, <1>4, <1>5, <1>6 DEF TypeOK
<1>8. LockHeld'
  <2>1. Wants(request'[p].at, request'[p].ticket) = Wants(request[p].at, request[p].ticket)
    BY <1>1, <1>4 DEF Wants, At, OneSession, InHand
  <2>2. UNCHANGED lock
    BY <1>5 DEF lock
  <2> QED BY <1>1, <1>4, <1>7, <2>1, <2>2, LockKept
<1> QED BY <1>7, <1>8, RedeemTokens, Combine

LEMMA RenewSaveInv ==
    ASSUME Inv, NEW p \in Requests, RenewSave(p)
    PROVE  Inv'
<1> DEFINE s == request[p].session
           n == request[p].next
<1>1. /\ TypeOK /\ LockHeld /\ NextFresh /\ Pending(p)
      /\ Move(p, "serving") /\ Unlock(p)
  BY InvTokens DEF RenewSave, Inv, At, Pending
<1>2. s \in Sessions /\ n \in Tickets /\ "serving" \in Places
  BY <1>1 DEF NextFresh, TypeOK, AllRequests, Places
<1>3. /\ request' \in [Requests -> AllRequests]
      /\ request'[p] = [at |-> "serving", session |-> s, ticket |-> request[p].ticket, next |-> n]
      /\ \A q \in Requests : q # p => request'[q] = request[q]
  BY <1>1, <1>2, MoveRequest
<1>4. row' \in [Sessions -> Rows]
  <2> DEFINE v == [row[s] EXCEPT !.ticket = n, !.expires = origin[n]]
  <2>1. row' = [row EXCEPT ![s] = v]
    <3>1. row' = [row EXCEPT ![s].ticket = n, ![s].expires = origin[n]]
      BY DEF RenewSave
    <3> HIDE DEF s, n
    <3> QED BY <1>1, <1>2, <3>1 DEF TypeOK
  <2>2. v \in Rows
    <3>1. origin[n] \in Tickets /\ row[s] \in Rows
      BY <1>1, <1>2 DEF TypeOK
    <3> HIDE DEF s, n
    <3> QED BY <1>2, <3>1 DEF Rows
  <2> HIDE DEF s, n, v
  <2> QED BY <1>1, <1>2, <2>1, <2>2 DEF TypeOK
<1>5. stage' \in [Requests -> {"out", "waits", "holds"}] /\ key' \in [Requests -> Sessions]
  BY <1>1, UnlockType
<1>6. UNCHANGED <<revocation, issued, origin, redeemed, lost, stale, over>>
  BY DEF RenewSave, tokens, clock
<1>7. TypeOK'
  BY <1>1, <1>3, <1>4, <1>5, <1>6 DEF TypeOK
<1>8. LockHeld'
  <2>1. request'[p].at = "serving"
    BY <1>3
  <2>2. Wants(request'[p].at, request'[p].ticket) = "out"
    BY <2>1 DEF Wants
  <2> QED BY <1>1, <1>3, <1>7, <2>2, LockLeft
<1> QED BY <1>7, <1>8, RenewSaveTokens, Combine

LEMMA FailInv ==
    ASSUME Inv, NEW p \in Requests, Fail(p)
    PROVE  Inv'
<1>1. TypeOK /\ LockHeld
  BY InvTokens
<1> DEFINE v == NoRequest(request[p].session)
<1>2. v \in AllRequests /\ v.at = "idle"
  BY <1>1 DEF TypeOK, AllRequests, NoRequest, Places
<1>3. SetRequest(p, v) /\ Unlock(p)
  BY DEF Fail
<1> HIDE DEF v
<1>4. /\ request' \in [Requests -> AllRequests]
      /\ request'[p] = v
      /\ \A q \in Requests : q # p => request'[q] = request[q]
  BY <1>1, <1>2, <1>3, SetOneRequest
<1>5. PICK gone : /\ gone = {} \/ (gone = {request[p].ticket} /\ request[p].ticket # Wiped)
                  /\ redeemed' = redeemed \cup gone /\ lost' = lost \cup gone
  BY DEF Fail
<1>6. redeemed' \subseteq Tickets /\ lost' \subseteq Tickets
  BY <1>1, <1>5 DEF TypeOK, AllRequests
<1>7. stage' \in [Requests -> {"out", "waits", "holds"}] /\ key' \in [Requests -> Sessions]
  BY <1>1, <1>3, UnlockType
<1>8. UNCHANGED <<row, revocation, issued, origin, stale, over>>
  BY DEF Fail, rows, clock
<1>9. TypeOK'
  BY <1>1, <1>4, <1>6, <1>7, <1>8 DEF TypeOK
<1>10. Wants(request'[p].at, request'[p].ticket) = "out"
  BY <1>2, <1>4 DEF Wants
<1>11. LockHeld'
  BY <1>1, <1>3, <1>4, <1>9, <1>10, LockLeft
<1> QED BY <1>9, <1>11, FailTokens, Combine

\* The steps of a revocation leave the requests and the lock alone.
LEMMA RevocationInv ==
    ASSUME Inv, NEW a \in Revocations, RevocationStep(a)
    PROVE  Inv'
<1>1. TypeOK /\ LockHeld /\ TokensInv
  BY InvTokens
<1>2. UNCHANGED <<request, lock, tokens, clock>>
  BY DEF RevocationStep, RevokeRead, RevokeSave, RevokeFail
<1>3. LockHeld'
  BY <1>1, <1>2 DEF lock, LockHeld, InHand, Refreshing, At
<1>4. /\ UNCHANGED <<issued, origin, redeemed, lost, stale, over>>
      /\ UNCHANGED <<stage, key>>
  BY <1>2 DEF tokens, clock, lock
<1>5. CASE RevokeSave(a)
  <2>1. row' \in [Sessions -> Rows]
    <3>1. /\ revocation[a].found \subseteq Sessions
          /\ \A s \in Sessions : row[s] \in Rows
      BY <1>1 DEF TypeOK
    <3>2. \A s \in Sessions : [row[s] EXCEPT !.ticket = Wiped, !.revoked = TRUE] \in Rows
      <4> TAKE s \in Sessions
      <4> DEFINE r == row[s]
      <4>1. r \in Rows
        BY <3>1
      <4> HIDE DEF r
      <4>2. [r EXCEPT !.ticket = Wiped, !.revoked = TRUE] \in Rows
        BY <4>1 DEF Rows
      <4> QED BY <4>2 DEF r
    <3> QED BY <1>5, <3>1, <3>2, Zenon DEF RevokeSave
  <2>2. revocation' \in [Revocations -> [busy : BOOLEAN, found : SUBSET Sessions]]
    BY <1>1, <1>5, Zenon DEF RevokeSave, TypeOK, NoRevocation
  <2>3. TypeOK'
    BY <1>1, <1>2, <1>4, <2>1, <2>2 DEF TypeOK
  <2>4. TokensInv'
    BY <1>5, RevokeSaveTokens
  <2> QED BY <1>3, <2>3, <2>4, Combine
<1>6. CASE RevokeFail(a) \/ \E users \in SUBSET Users : RevokeRead(a, users)
  <2>1. row' = row
    BY <1>6 DEF RevokeFail, RevokeRead
  <2>2. revocation' \in [Revocations -> [busy : BOOLEAN, found : SUBSET Sessions]]
    <3>1. PICK v \in [busy : BOOLEAN, found : SUBSET Sessions] : revocation' = [revocation EXCEPT ![a] = v]
      <4>1. CASE RevokeFail(a)
        <5>1. NoRevocation \in [busy : BOOLEAN, found : SUBSET Sessions]
          BY DEF NoRevocation
        <5> QED BY <4>1, <5>1 DEF RevokeFail
      <4>2. ASSUME NEW users \in SUBSET Users, RevokeRead(a, users)
            PROVE  \E v \in [busy : BOOLEAN, found : SUBSET Sessions] : revocation' = [revocation EXCEPT ![a] = v]
        <5> DEFINE found == {s \in Sessions : /\ row[s].state = "stored" /\ ~row[s].revoked
                                             /\ row[s].user \in users}
                   v == [busy |-> TRUE, found |-> found]
        <5>1. revocation' = [revocation EXCEPT ![a] = v]
          BY <4>2 DEF RevokeRead
        <5>2. found \in SUBSET Sessions
          OBVIOUS
        <5> HIDE DEF found
        <5>3. v \in [busy : BOOLEAN, found : SUBSET Sessions]
          BY <5>2
        <5> HIDE DEF v
        <5> QED BY <5>1, <5>3
      <4> QED BY <1>6, <4>1, <4>2
    <3> QED BY <1>1, <3>1 DEF TypeOK
  <2>3. TypeOK'
    BY <1>1, <1>2, <1>4, <2>1, <2>2 DEF TypeOK
  <2>4. TokensInv'
    BY <1>1, <1>2, <1>4, <2>1, TokensKept
  <2> QED BY <1>3, <2>3, <2>4, Combine
<1> QED BY <1>5, <1>6 DEF RevocationStep

LEMMA StutterInv ==
    ASSUME Inv, UNCHANGED vars
    PROVE  Inv'
<1>1. TypeOK /\ LockHeld /\ TokensInv
  BY InvTokens
<1>2. TypeOK'
  BY <1>1 DEF vars, TypeOK
<1>3. LockHeld'
  BY <1>1 DEF vars, LockHeld, InHand, Refreshing, At
<1>4. TokensInv'
  <2>1. UNCHANGED <<row, request, issued, redeemed, lost>> /\ over \subseteq over'
    BY DEF vars
  <2> QED BY <1>1, <2>1, TokensKept
<1> QED BY <1>2, <1>3, <1>4, Combine

LEMMA StepInv == Inv /\ [Next]_vars => Inv'
<1> SUFFICES ASSUME Inv, [Next]_vars PROVE Inv'
  OBVIOUS
<1>1. ASSUME NEW n \in Tickets, GoStale(n) \/ GoOver(n) PROVE Inv'
  BY <1>1, GoStaleInv, GoOverInv
<1>2. ASSUME NEW p \in Requests, RequestStep(p) PROVE Inv'
  <2>1. ASSUME NEW s \in Sessions, Authenticate(p, s) \/ \E u \in Users : SignIn(p, s, u) PROVE Inv'
    BY <2>1, AuthenticateInv, SignInInv
  <2>2. CASE SignInAgain(p) \/ Logout(p) \/ SignOutExpired(p) \/ Finish(p)
    BY <2>2, SignInAgainInv, RemoveInv, FinishInv
  <2>3. CASE AskLock(p) \/ TakeLock(p) \/ Reread(p) \/ Redeem(p) \/ Refuse(p)
    BY <2>3, AskLockInv, TakeLockInv, RereadInv, RedeemInv, RefuseInv
  <2>4. CASE RenewRead(p) \/ RenewSave(p) \/ Fail(p)
    BY <2>4, RenewReadInv, RenewSaveInv, FailInv
  <2> QED BY <1>2, <2>1, <2>2, <2>3, <2>4 DEF RequestStep
<1>3. ASSUME NEW a \in Revocations, RevocationStep(a) PROVE Inv'
  BY <1>3, RevocationInv
<1> QED BY <1>1, <1>2, <1>3, StutterInv DEF Next

\* The strengthened invariant of the runs holds for every value of the constants.
THEOREM Invariance == Spec => []Inv
<1> QED BY InitInv, StepInv, PTL DEF Spec

\* A refresh token is presented twice only after the request that redeemed it
\* failed before its successor was saved (AccessTokenHandler).
THEOREM TokensUsedOnce == Spec => []RefreshedOnce
<1>1. Inv => RefreshedOnce
  BY DEF Inv
<1> QED BY <1>1, Invariance, PTL

-----------------------------------------------------------------------------
(* Ended sessions.                                                         *)

LEMMA RowsKeptEnded ==
    ASSUME row' = row, NEW s \in Sessions, Ended(s)
    PROVE  ~Retrievable(s)'
BY DEF Ended, Retrievable

LEMMA EndedStep ==
    ASSUME Inv, [Next]_vars, NEW s \in Sessions, Ended(s)
    PROVE  ~Retrievable(s)'
<1>1. TypeOK
  BY InvTokens
<1>2. ASSUME NEW n \in Tickets, GoStale(n) \/ GoOver(n) PROVE row' = row
  BY <1>2 DEF GoStale, GoOver, rows
<1>3. ASSUME NEW p \in Requests, RequestStep(p) PROVE ~Retrievable(s)'
  <2>1. ASSUME NEW t \in Sessions, NEW u \in Users, SignIn(p, t, u) PROVE ~Retrievable(s)'
    <3>1. t # s
      BY <2>1 DEF SignIn, Ended
    <3>2. row'[s] = row[s]
      BY <1>1, <2>1, <3>1 DEF SignIn, TypeOK
    <3> QED BY <3>2 DEF Ended, Retrievable
  <2>2. CASE Logout(p) \/ SignOutExpired(p)
    <3> DEFINE t == request[p].session
    <3>1. t \in Sessions
      BY <1>1 DEF TypeOK, AllRequests
    <3>2. row' = [row EXCEPT ![t].state = "removed"]
      BY <2>2 DEF Logout, SignOutExpired, Remove
    <3> HIDE DEF t
    <3>3. row'[s].state = "removed" \/ row'[s] = row[s]
      BY <1>1, <3>1, <3>2 DEF TypeOK, Rows
    <3> QED BY <3>3 DEF Ended, Retrievable
  <2>3. CASE RenewSave(p)
    <3> DEFINE t == request[p].session
               n == request[p].next
    <3>1. row[t].state = "stored" /\ row' = [row EXCEPT ![t].ticket = n, ![t].expires = origin[n]]
      BY <2>3 DEF RenewSave
    <3> HIDE DEF t, n
    <3>2. row'[s].state = row[s].state /\ row'[s].revoked = row[s].revoked
      BY <1>1, <3>1 DEF TypeOK, Rows
    <3> QED BY <3>2 DEF Ended, Retrievable
  <2>4. CASE \/ \E t \in Sessions : Authenticate(p, t)
             \/ SignInAgain(p) \/ Finish(p) \/ AskLock(p) \/ TakeLock(p) \/ Reread(p)
             \/ Redeem(p) \/ Refuse(p) \/ RenewRead(p) \/ Fail(p)
    <3>1. row' = row
      BY <2>4 DEF Authenticate, SignInAgain, Finish, AskLock, TakeLock, Reread, Redeem, Refuse,
                  RenewRead, Fail, rows
    <3> QED BY <3>1, RowsKeptEnded
  <2> QED BY <1>3, <2>1, <2>2, <2>3, <2>4 DEF RequestStep
<1>4. ASSUME NEW a \in Revocations, RevocationStep(a) PROVE ~Retrievable(s)'
  <2>1. CASE RevokeSave(a)
    <3> DEFINE r == row[s]
               v == [r EXCEPT !.ticket = Wiped, !.revoked = TRUE]
    <3>1. row'[s] = v \/ row'[s] = row[s]
      BY <2>1, Zenon DEF RevokeSave
    <3>2. v.revoked = TRUE
      <4>1. r \in Rows
        BY <1>1 DEF TypeOK
      <4> HIDE DEF r
      <4> QED BY <4>1 DEF Rows
    <3> HIDE DEF r, v
    <3> QED BY <3>1, <3>2 DEF Ended, Retrievable
  <2>2. CASE RevokeFail(a) \/ \E users \in SUBSET Users : RevokeRead(a, users)
    <3>1. row' = row
      BY <2>2 DEF RevokeFail, RevokeRead
    <3> QED BY <3>1, RowsKeptEnded
  <2> QED BY <1>4, <2>1, <2>2 DEF RevocationStep
<1>5. CASE UNCHANGED vars
  <2>1. row' = row
    BY <1>5 DEF vars
  <2> QED BY <2>1, RowsKeptEnded
<1> QED BY <1>2, <1>3, <1>4, <1>5, RowsKeptEnded DEF Next

\* A session that was signed out or revoked serves no request again, whatever
\* refresh was under way (DatabaseTicketStore.RenewAsync).
THEOREM EndedSessionsStayEnded == Spec => EndedStaysEnded
<1>1. Inv /\ [Next]_vars => [\A s \in Sessions : Ended(s) => ~Retrievable(s)']_vars
  BY EndedStep
<1> QED BY <1>1, Invariance, PTL DEF Spec, EndedStaysEnded
=============================================================================
