--------------------------- MODULE SipAccessProofs ---------------------------
(***************************************************************************)
(* Proofs about SipAccess: no nonce and count get in twice, no one with    *)
(* the right password is turned away without a cause, an overtaken request *)
(* does not get in under the same nonce, and who is told that it is        *)
(* registered is bound that long - for any user agents, habits, lifetimes  *)
(* and bounds with NonceLife < SeenLife.                                   *)
(***************************************************************************)
EXTENDS SipAccess, TLAPS

\* What the steps keep together.
AccessSafe == TypeOK /\ AccessInv /\ AcceptedOnce

(***************************************************************************)
(* A user agent only ever sends what is a request.                         *)
(***************************************************************************)
LEMMA SendKeepsTypes ==
    ASSUME TypeOK, NEW c \in Clients, NEW n \in 0..MaxTime, SendWith(c, n)
    PROVE  /\ requests' \in SUBSET Requests
           /\ ua' \in [Clients -> [seq : Nat, nonce : 0..MaxTime, count : [1..MaxTime -> Nat]]]
<1>1. NextCount(c, n) \in Nat
  <2>1. CASE n = NoNonce \/ ~habits[c].qop
    BY <2>1 DEF NextCount
  <2>2. CASE ~(n = NoNonce \/ ~habits[c].qop)
    <3>1. n \in 1..MaxTime /\ ua[c].count \in [1..MaxTime -> Nat]
      BY <2>2 DEF TypeOK, NoNonce
    <3>2. NextCount(c, n) = ua[c].count[n] + 1
      BY <2>2, Zenon DEF NextCount
    <3>3. ua[c].count[n] \in Nat
      BY <3>1
    <3> QED
      BY <3>2, <3>3
  <2> QED
    BY <2>1, <2>2
<1>2. [ua |-> c, seq |-> ua[c].seq + 1, nonce |-> n, nc |-> NextCount(c, n), sent |-> now] \in Requests
  BY <1>1 DEF TypeOK, Requests
<1>3. [k \in 1..MaxTime |-> IF k = n THEN NextCount(c, n) ELSE ua[c].count[k]] \in [1..MaxTime -> Nat]
  <2>1. ua[c].count \in [1..MaxTime -> Nat]
    BY DEF TypeOK
  <2> QED
    BY <1>1, <2>1
<1> QED
  BY <1>1, <1>2, <1>3 DEF SendWith, TypeOK

(***************************************************************************)
(* claim_nonce keeps nonce_seen a table of counts and ages.                *)
(***************************************************************************)
LEMMA ClaimKeepsTypes ==
    ASSUME TypeOK, NEW q \in Requests, is_valid(q.nonce)
    PROVE  /\ DOMAIN Claimed(q.nonce, q.nc) = DOMAIN seen \cup {q.nonce}
           /\ DOMAIN Claimed(q.nonce, q.nc) \subseteq 1..MaxTime
           /\ Claimed(q.nonce, q.nc) \in
                [DOMAIN Claimed(q.nonce, q.nc) -> [highest : Nat, first : 1..MaxTime]]
<1>1. q.nonce \in 1..MaxTime /\ q.nc \in Nat
  BY DEF Requests, is_valid, NoNonce
<1> QED
  BY <1>1 DEF TypeOK, Claimed

(***************************************************************************)
(* The registrar keeps its bindings within the lifetime it grants.         *)
(***************************************************************************)
LEMMA RegisterKeepsTypes ==
    ASSUME TypeOK, NEW q \in Requests, NEW op \in Ops,
           ApplyRegister(q, op)
    PROVE  /\ bindings' \in [Clients -> [expires_at : 0..(MaxTime + MaxExpires),
                                         registered_at : 0..MaxTime]]
           /\ applied' \in [Clients -> [by : Clients, seq : Nat]]
<1> USE AccessAssumption
<1>1. NoBinding \in [expires_at : 0..(MaxTime + MaxExpires), registered_at : 0..MaxTime]
  BY DEF NoBinding
<1>2. applied' \in [Clients -> [by : Clients, seq : Nat]]
  BY DEF ApplyRegister, TypeOK, Requests
<1>3. CASE op.kind = "star"
  BY <1>1, <1>2, <1>3 DEF ApplyRegister, remove_all
<1>4. CASE op.kind = "register"
  <2>1. op.expires \in Nat
    BY <1>4 DEF Ops
  <2>2. Capped(op.expires) \in 0..MaxExpires
    BY <2>1 DEF Capped
  <2>3. [expires_at |-> now + Capped(op.expires), registered_at |-> now]
          \in [expires_at : 0..(MaxTime + MaxExpires), registered_at : 0..MaxTime]
    BY <2>2 DEF TypeOK
  <2> QED
    BY <1>1, <1>2, <1>4, <2>3 DEF ApplyRegister, update, TypeOK
<1> QED
  BY <1>3, <1>4 DEF Ops

(***************************************************************************)
(* Every step keeps the types: one case per action of the core and of the  *)
(* user agents.                                                            *)
(***************************************************************************)
LEMMA TypeStep == TypeOK /\ [Next]_vars => TypeOK'
<1> SUFFICES ASSUME TypeOK, [Next]_vars PROVE TypeOK'
  OBVIOUS
<1>1. CASE Tick
  <2>1. now' \in 1..MaxTime
    BY <1>1, AccessAssumption DEF Tick, TypeOK
  <2> QED
    BY <1>1, <2>1 DEF Tick, TypeOK
<1>2. CASE gc
  BY <1>2 DEF gc, TypeOK
<1>3. ASSUME NEW c \in Clients, Send(c) PROVE TypeOK'
  <2>1. ua[c].nonce \in 0..MaxTime
    BY DEF TypeOK
  <2>2. SendWith(c, ua[c].nonce)
    BY <1>3 DEF Send
  <2> QED
    BY <1>3, <2>1, <2>2, SendKeepsTypes DEF Send, TypeOK
<1>4. ASSUME NEW p \in replies, HearChallenge(p) PROVE TypeOK'
  <2>1. p.nonce \in 0..MaxTime /\ p.req.ua \in Clients
    BY DEF TypeOK, Requests
  <2>2. SendWith(p.req.ua, p.nonce)
    BY <1>4 DEF HearChallenge
  <2> QED
    <3>1. /\ requests' \in SUBSET Requests
          /\ ua' \in [Clients -> [seq : Nat, nonce : 0..MaxTime, count : [1..MaxTime -> Nat]]]
      BY <2>1, <2>2, SendKeepsTypes
    <3> QED
      BY <1>4, <3>1 DEF HearChallenge, TypeOK
<1>5. ASSUME NEW p \in replies, HearOk(p) PROVE TypeOK'
  <2>1. /\ p.req.seq \in Nat /\ p.req.sent \in Nat /\ p.granted \in Nat
    BY DEF TypeOK, Requests
  <2>2. believes' \in [Clients -> [seq : Nat, sent : Nat, granted : Nat]]
    BY <1>5, <2>1 DEF HearOk, TypeOK
  <2>3. replies' \in SUBSET [req : Requests, code : {200, 401},
                             nonce : 0..MaxTime, stale : BOOLEAN, granted : Nat]
    BY <1>5 DEF HearOk, TypeOK
  <2> QED
    BY <1>5, <2>2, <2>3 DEF HearOk, TypeOK
<1>6. ASSUME NEW q \in requests, Refuse(q) PROVE TypeOK'
  <2>1. q \in Requests /\ CredentialsOk(q) \in BOOLEAN
    BY DEF TypeOK, CredentialsOk, Requests
  <2>2. [req |-> q, code |-> 401, nonce |-> issue, stale |-> CredentialsOk(q), granted |-> 0]
          \in [req : Requests, code : {200, 401}, nonce : 0..MaxTime, stale : BOOLEAN, granted : Nat]
    BY <2>1 DEF TypeOK, issue
  <2> QED
    <3>1. replies' \in SUBSET [req : Requests, code : {200, 401},
                               nonce : 0..MaxTime, stale : BOOLEAN, granted : Nat]
      BY <1>6, <2>2 DEF Refuse, TypeOK
    <3>2. requests' \in SUBSET Requests /\ seen' = seen
      BY <1>6 DEF Refuse, AfterRefusal, TypeOK
    <3>3. UNCHANGED <<habits, now, ua, admitted, updated, bindings, applied, accepted, believes>>
      BY <1>6 DEF Refuse
    <3> QED
      BY <3>1, <3>2, <3>3 DEF TypeOK
<1>7. ASSUME NEW q \in requests, Passes(q), Admit(q) PROVE TypeOK'
  <2>1. q \in Requests /\ is_valid(q.nonce)
    BY <1>7 DEF TypeOK, Passes
  <2>2. DOMAIN seen' \subseteq 1..MaxTime /\ seen' \in [DOMAIN seen' -> [highest : Nat, first : 1..MaxTime]]
    BY <1>7, <2>1, ClaimKeepsTypes DEF Admit
  <2>3. requests' \in SUBSET Requests /\ accepted' \in SUBSET Requests /\ admitted' \in SUBSET Requests
    BY <1>7, <2>1 DEF Admit, TypeOK
  <2> QED
    BY <1>7, <2>2, <2>3 DEF Admit, TypeOK
<1>8. ASSUME NEW q \in admitted, NEW op \in Ops, ApplyRegister(q, op) PROVE TypeOK'
  <2>1. q \in Requests
    BY DEF TypeOK
  <2>2. /\ bindings' \in [Clients -> [expires_at : 0..(MaxTime + MaxExpires), registered_at : 0..MaxTime]]
        /\ applied' \in [Clients -> [by : Clients, seq : Nat]]
    BY <1>8, <2>1, RegisterKeepsTypes
  <2>3. admitted' \in SUBSET Requests /\ updated' \in SUBSET Requests
    BY <1>8, <2>1 DEF ApplyRegister, TypeOK
  <2>4. UNCHANGED <<habits, now, ua, requests, replies, seen, accepted, believes>>
    BY <1>8 DEF ApplyRegister
  <2> QED
    BY <2>2, <2>3, <2>4 DEF TypeOK
<1>9. ASSUME NEW q \in updated, ReplyRegister(q) PROVE TypeOK'
  <2>1. q \in Requests /\ q.ua \in Clients
    BY DEF TypeOK, Requests
  <2>2. ReplyExpires(q.ua) \in Nat
    <3>1. bindings[q.ua].expires_at \in Int /\ now \in Int
      BY <2>1, AccessAssumption DEF TypeOK
    <3> QED
      BY <3>1 DEF ReplyExpires, Live
  <2>3. [req |-> q, code |-> 200, nonce |-> NoNonce, stale |-> FALSE, granted |-> ReplyExpires(q.ua)]
          \in [req : Requests, code : {200, 401}, nonce : 0..MaxTime, stale : BOOLEAN, granted : Nat]
    BY <2>1, <2>2, AccessAssumption DEF NoNonce
  <2>4. replies' \in SUBSET [req : Requests, code : {200, 401},
                             nonce : 0..MaxTime, stale : BOOLEAN, granted : Nat]
    BY <1>9, <2>3 DEF ReplyRegister, TypeOK
  <2>5. updated' \in SUBSET Requests
    BY <1>9 DEF ReplyRegister, TypeOK
  <2> QED
    BY <1>9, <2>4, <2>5 DEF ReplyRegister, TypeOK
<1>10. CASE UNCHANGED vars
  BY <1>10 DEF vars, TypeOK
<1> QED
  BY <1>1, <1>2, <1>3, <1>4, <1>5, <1>6, <1>7, <1>8, <1>9, <1>10 DEF Next, Handle

----------------------------------------------------------------------------
(***************************************************************************)
(* A user agent that sends counts up: what it has sent before under a      *)
(* nonce does not exceed its count, nor does its count ever fall           *)
(* (NextCount, SendWith).                                                  *)
(***************************************************************************)
LEMMA SendCountsUp ==
    ASSUME TypeOK, CountInv, NEW c \in Clients, NEW n \in 0..MaxTime, SendWith(c, n),
           UNCHANGED <<habits, accepted>>
    PROVE  CountInv'
<1> DEFINE q0 == [ua |-> c, seq |-> ua[c].seq + 1, nonce |-> n, nc |-> NextCount(c, n), sent |-> now]
           new == [k \in 1..MaxTime |-> IF k = n THEN NextCount(c, n) ELSE ua[c].count[k]]
<1>1. /\ ua[c].seq \in Nat
      /\ ua[c].count \in [1..MaxTime -> Nat]
  BY DEF TypeOK
<1>2. NextCount(c, n) \in Nat /\ requests' = requests \cup {q0}
  <2>1. CASE n = NoNonce \/ ~habits[c].qop
    BY <2>1 DEF NextCount, SendWith
  <2>2. CASE ~(n = NoNonce \/ ~habits[c].qop)
    <3>1. n \in 1..MaxTime
      BY <2>2 DEF NoNonce
    <3>2. ua[c].count[n] \in Nat
      BY <3>1, <1>1
    <3>3. NextCount(c, n) = ua[c].count[n] + 1
      BY <2>2, Zenon DEF NextCount
    <3> QED
      BY <3>2, <3>3 DEF SendWith
  <2> QED
    BY <2>1, <2>2
<1>3. ua'[c] = [seq |-> ua[c].seq + 1, nonce |-> n, count |-> new]
  BY DEF SendWith, TypeOK
<1>4. \A d \in Clients : d # c => ua'[d] = ua[d]
  BY DEF SendWith, TypeOK
<1>5. \A k \in 1..MaxTime : new[k] \in Nat /\ ua[c].count[k] \in Nat /\ ua[c].count[k] <= new[k]
  <2> SUFFICES ASSUME NEW k \in 1..MaxTime
               PROVE  new[k] \in Nat /\ ua[c].count[k] \in Nat /\ ua[c].count[k] <= new[k]
    OBVIOUS
  <2>1. CASE k # n
    <3>1. new[k] = ua[c].count[k]
      BY <2>1
    <3>2. ua[c].count[k] \in Nat
      BY <1>1
    <3> QED
      BY <3>1, <3>2
  <2>2. CASE k = n /\ habits[c].qop
    <3>1. NextCount(c, n) = ua[c].count[n] + 1
      BY <2>2 DEF NextCount, NoNonce
    <3>2. new[k] = ua[c].count[k] + 1
      BY <2>2, <3>1
    <3>3. ua[c].count[k] \in Nat
      BY <1>1
    <3> QED
      BY <3>2, <3>3
  <2>3. CASE k = n /\ ~habits[c].qop
    <3>1. ua[c].count[k] = 0
      BY <2>3 DEF CountInv
    <3> QED
      BY <1>2, <2>3, <3>1
  <2> QED
    BY <2>1, <2>2, <2>3
<1>6. n = NoNonce => q0.nc = 0
  BY DEF NextCount
<1>7. n # NoNonce => n \in 1..MaxTime /\ new[n] = q0.nc
  BY DEF NoNonce
<1>8. \A q \in requests \cup accepted :
         /\ q \in Requests
         /\ q.seq <= ua[q.ua].seq
         /\ IF q.nonce = NoNonce THEN q.nc = 0 ELSE q.nc <= ua[q.ua].count[q.nonce]
  BY DEF CountInv, TypeOK
<1>9. \A q \in requests \cup accepted :
         q.ua = c => /\ q.seq \in Nat /\ q.nc \in Nat /\ q.nonce \in 0..MaxTime
                     /\ q.seq <= ua[c].seq
                     /\ IF q.nonce = NoNonce THEN q.nc = 0 ELSE q.nc <= new[q.nonce]
  <2> SUFFICES ASSUME NEW q \in requests \cup accepted, q.ua = c
               PROVE  /\ q.seq \in Nat /\ q.nc \in Nat /\ q.nonce \in 0..MaxTime
                      /\ q.seq <= ua[c].seq
                      /\ IF q.nonce = NoNonce THEN q.nc = 0 ELSE q.nc <= new[q.nonce]
    OBVIOUS
  <2>1. q.seq \in Nat /\ q.nc \in Nat /\ q.nonce \in 0..MaxTime
    BY <1>8 DEF Requests
  <2>2. CASE q.nonce = NoNonce
    BY <1>8, <2>1, <2>2
  <2>3. CASE q.nonce # NoNonce
    <3>1. q.nonce \in 1..MaxTime
      BY <2>1, <2>3 DEF NoNonce
    <3>2. q.nc <= ua[c].count[q.nonce]
      BY <1>8, <2>3
    <3>3. /\ new[q.nonce] \in Nat /\ ua[c].count[q.nonce] \in Nat
          /\ ua[c].count[q.nonce] <= new[q.nonce]
      BY <1>5, <3>1
    <3>4. q.nc <= new[q.nonce]
      BY <2>1, <3>2, <3>3
    <3> HIDE DEF new
    <3> QED
      BY <1>8, <2>1, <2>3, <3>4
  <2> QED
    BY <2>2, <2>3
<1> HIDE DEF new
<1>10. \A q \in (requests \cup accepted)' :
          /\ q.seq <= ua'[q.ua].seq
          /\ IF q.nonce = NoNonce THEN q.nc = 0 ELSE q.nc <= ua'[q.ua].count[q.nonce]
  <2> SUFFICES ASSUME NEW q \in requests \cup accepted \cup {q0}
               PROVE  /\ q.seq <= ua'[q.ua].seq
                      /\ IF q.nonce = NoNonce THEN q.nc = 0 ELSE q.nc <= ua'[q.ua].count[q.nonce]
    BY <1>2
  <2>1. CASE q = q0
    BY <1>1, <1>2, <1>3, <1>6, <1>7, <2>1
  <2>2. CASE q # q0 /\ q.ua = c
    BY <1>1, <1>3, <1>9, <2>2
  <2>3. CASE q # q0 /\ q.ua # c
    BY <1>4, <1>8, <2>3 DEF Requests
  <2> QED
    BY <2>1, <2>2, <2>3
<1>11. \A p, q \in (requests \cup accepted)' :
          p.ua = q.ua /\ p.nonce = q.nonce /\ p.seq < q.seq => p.nc <= q.nc
  <2> SUFFICES ASSUME NEW p \in requests \cup accepted \cup {q0}, NEW q \in requests \cup accepted \cup {q0},
                      p.ua = q.ua, p.nonce = q.nonce, p.seq < q.seq
               PROVE  p.nc <= q.nc
    BY <1>2
  <2>1. CASE p # q0 /\ q # q0
    BY <2>1 DEF CountInv
  <2>2. CASE p # q0 /\ q = q0
    <3>1. p \in requests \cup accepted /\ p.ua = c /\ p.nonce = n
      BY <2>2
    <3>2. CASE n = NoNonce
      BY <1>6, <1>9, <2>2, <3>1, <3>2
    <3>3. CASE n # NoNonce
      BY <1>7, <1>9, <2>2, <3>1, <3>3
    <3> QED
      BY <3>2, <3>3
  <2>3. CASE p = q0
    BY <1>1, <1>9, <2>3
  <2> QED
    BY <2>1, <2>2, <2>3
<1>12. \A d \in Clients : ~habits'[d].qop => \A k \in 1..MaxTime : ua'[d].count[k] = 0
  <2> SUFFICES ASSUME NEW d \in Clients, ~habits[d].qop, NEW k \in 1..MaxTime
               PROVE  ua'[d].count[k] = 0
    OBVIOUS
  <2>1. ua[d].count[k] = 0
    BY DEF CountInv
  <2>2. CASE d = c
    <3>1. NextCount(c, n) = 0
      BY <2>2 DEF NextCount
    <3>2. new[k] = 0
      BY <2>1, <2>2, <3>1 DEF new
    <3> QED
      BY <1>3, <2>2, <3>2
  <2>3. CASE d # c
    BY <1>4, <2>1, <2>3
  <2> QED
    BY <2>2, <2>3
<1> QED
  BY <1>10, <1>11, <1>12 DEF CountInv

(***************************************************************************)
(* A user agent that sends leaves the invariant alone, if the nonce it     *)
(* uses is one it can have been given (Send, HearChallenge).               *)
(***************************************************************************)
LEMMA SendKeepsAccess ==
    ASSUME AccessSafe, NEW c \in Clients, NEW n \in 0..MaxTime, n <= now, SendWith(c, n),
           UNCHANGED <<habits, now, seen, accepted>>, replies' \subseteq replies
    PROVE  AccessInv' /\ AcceptedOnce'
<1> USE DEF AccessSafe, AccessInv
<1>1. CountInv'
  BY SendCountsUp
<1>2. NonceInv'
  <2>1. \A q \in requests' : q.nonce <= now'
    BY DEF SendWith, NonceInv
  <2>2. \A d \in Clients : ua'[d].nonce <= now'
    BY DEF SendWith, NonceInv, TypeOK
  <2> QED
    BY <2>1, <2>2 DEF NonceInv
<1>3. SeenInv' /\ RememberedInv' /\ WitnessInv'
  BY DEF SeenInv, RememberedInv, WitnessInv
<1> QED
  BY <1>1, <1>2, <1>3 DEF AcceptedOnce

(***************************************************************************)
(* gc forgets a nonce only when it is too old to be valid: it was first    *)
(* used after it was issued, and SeenLife is longer than NonceLife.        *)
(***************************************************************************)
LEMMA GcKeepsAccess ==
    ASSUME AccessSafe, gc PROVE AccessInv' /\ AcceptedOnce'
<1> USE DEF AccessSafe, AccessInv
<1>1. /\ DOMAIN seen' = {k \in DOMAIN seen : Remember(k)}
      /\ \A k \in DOMAIN seen' : seen'[k] = seen[k]
  BY DEF gc
<1>2. UNCHANGED <<habits, now, ua, requests, replies, accepted>>
  BY DEF gc
<1>3. SeenInv' /\ WitnessInv'
  BY <1>1, <1>2 DEF SeenInv, WitnessInv
<1>4. RememberedInv'
  <2> SUFFICES ASSUME NEW a \in accepted
               PROVE  \/ a.nonce \in DOMAIN seen' /\ a.nc <= seen'[a.nonce].highest
                      \/ now - a.nonce > NonceLife
    BY <1>2 DEF RememberedInv
  <2>1. CASE a.nonce \in DOMAIN seen /\ a.nc <= seen[a.nonce].highest /\ Remember(a.nonce)
    BY <1>1, <2>1
  <2>2. CASE a.nonce \in DOMAIN seen /\ ~Remember(a.nonce)
    <3>1. /\ a.nonce \in 1..MaxTime /\ seen[a.nonce].first \in 1..MaxTime /\ now \in 1..MaxTime
          /\ a.nonce <= seen[a.nonce].first
      BY <2>2 DEF TypeOK, SeenInv
    <3>2. now - seen[a.nonce].first >= SeenLife
      BY <2>2, <3>1, LifeAssumption, AccessAssumption DEF Remember
    <3> QED
      BY <3>1, <3>2, LifeAssumption, AccessAssumption
  <2>3. CASE now - a.nonce > NonceLife
    BY <2>3
  <2> QED
    BY <2>1, <2>2, <2>3 DEF RememberedInv
<1> QED
  BY <1>2, <1>3, <1>4 DEF CountInv, NonceInv, AcceptedOnce

(***************************************************************************)
(* What claim_nonce lets through has a higher count than everything that   *)
(* has been accepted under its nonce.                                      *)
(***************************************************************************)
LEMMA PassingIsNewer ==
    ASSUME AccessSafe, NEW q \in requests, Passes(q),
           NEW a \in accepted, a.nonce = q.nonce
    PROVE  a.nc < q.nc
<1>1. /\ q.nonce \in 0..MaxTime /\ q.nc \in Nat /\ a.nc \in Nat /\ now \in Nat
  <2>1. q \in Requests /\ a \in Requests /\ now \in 1..MaxTime
    BY DEF AccessSafe, TypeOK
  <2> QED
    BY <2>1 DEF Requests
<1>2. now - q.nonce <= NonceLife
  BY <1>1, LifeAssumption, AccessAssumption DEF Passes, is_valid
<1>3. a.nonce \in DOMAIN seen /\ a.nc <= seen[a.nonce].highest
  <2>1. \/ a.nonce \in DOMAIN seen /\ a.nc <= seen[a.nonce].highest
        \/ now - a.nonce > NonceLife
    BY DEF AccessSafe, AccessInv, RememberedInv
  <2> QED
    BY <1>1, <1>2, <2>1, LifeAssumption, AccessAssumption
<1>4. q.nc > seen[q.nonce].highest /\ seen[q.nonce].highest \in Nat
  BY <1>3 DEF Passes, Claimable, AccessSafe, TypeOK
<1> QED
  BY <1>1, <1>3, <1>4

(***************************************************************************)
(* A request that gets in is remembered with its count, and nothing that   *)
(* was remembered before is forgotten by that (check_auth, claim_nonce).   *)
(***************************************************************************)
LEMMA AdmitKeepsAccess ==
    ASSUME AccessSafe, NEW q \in requests, Passes(q), Admit(q)
    PROVE  AccessInv' /\ AcceptedOnce'
<1> USE DEF AccessSafe, AccessInv
<1>1. /\ q \in Requests /\ q.nonce \in 1..MaxTime /\ q.nc \in Nat
      /\ now \in 1..MaxTime /\ q.nonce <= now
  BY DEF TypeOK, Requests, Passes, is_valid, NoNonce, NonceInv
<1>2. /\ DOMAIN seen' = DOMAIN seen \cup {q.nonce}
      /\ seen'[q.nonce].highest = q.nc
      /\ seen'[q.nonce].first = IF q.nonce \in DOMAIN seen THEN seen[q.nonce].first ELSE now
      /\ \A k \in DOMAIN seen : k # q.nonce => seen'[k] = seen[k]
  BY DEF Admit, Claimed
<1>3. /\ accepted' = accepted \cup {q}
      /\ requests' = requests \ {q}
      /\ UNCHANGED <<habits, now, ua, replies>>
  BY DEF Admit
<1>4. SeenInv'
  BY <1>1, <1>2, <1>3 DEF SeenInv
<1>5. RememberedInv'
  <2> SUFFICES ASSUME NEW a \in accepted \cup {q}
               PROVE  \/ a.nonce \in DOMAIN seen' /\ a.nc <= seen'[a.nonce].highest
                      \/ now - a.nonce > NonceLife
    BY <1>3 DEF RememberedInv
  <2>1. CASE a = q
    BY <1>1, <1>2, <2>1
  <2>2. CASE a \in accepted /\ a.nonce = q.nonce
    <3>1. a.nc < q.nc /\ a.nc \in Nat
      BY <2>2, PassingIsNewer DEF TypeOK, Requests
    <3> QED
      BY <1>1, <1>2, <2>2, <3>1
  <2>3. CASE a \in accepted /\ a.nonce # q.nonce
    BY <1>2, <2>3 DEF RememberedInv
  <2> QED
    BY <2>1, <2>2, <2>3
<1>6. WitnessInv'
  BY <1>2, <1>3 DEF WitnessInv
<1>7. CountInv'
  <2>1. (requests \cup accepted)' \subseteq requests \cup accepted
    BY <1>3
  <2> QED
    BY <1>3, <2>1 DEF CountInv
<1>8. NonceInv'
  BY <1>3 DEF NonceInv
<1>9. AcceptedOnce'
  <2>1. \A a \in accepted : a.nonce = q.nonce => a.nc # q.nc
    <3> SUFFICES ASSUME NEW a \in accepted, a.nonce = q.nonce PROVE a.nc # q.nc
      OBVIOUS
    <3>1. a.nc < q.nc /\ a.nc \in Nat
      BY PassingIsNewer DEF TypeOK, Requests
    <3> QED
      BY <1>1, <3>1
  <2> QED
    BY <1>3, <2>1 DEF AcceptedOnce
<1> QED
  BY <1>4, <1>5, <1>6, <1>7, <1>8, <1>9

(***************************************************************************)
(* Every step keeps the invariant.                                         *)
(***************************************************************************)
LEMMA AccessStep == AccessSafe /\ [Next]_vars => AccessSafe'
<1> SUFFICES ASSUME AccessSafe, [Next]_vars PROVE AccessSafe'
  OBVIOUS
<1> USE DEF AccessSafe
<1>1. TypeOK'
  BY TypeStep
<1>2. CASE Tick
  <2>1. /\ now \in 1..MaxTime /\ now' = now + 1
        /\ UNCHANGED <<habits, ua, requests, replies, seen, accepted>>
    BY <1>2 DEF Tick, TypeOK
  <2>2. RememberedInv'
    <3>1. \A a \in accepted : a.nonce \in 0..MaxTime
      BY DEF TypeOK, Requests
    <3> QED
      BY <2>1, <3>1, LifeAssumption, AccessAssumption DEF RememberedInv, AccessInv
  <2>3. NonceInv'
    <3>1. /\ \A q \in requests : q.nonce \in 0..MaxTime
          /\ \A p \in replies : p.nonce \in 0..MaxTime
          /\ \A c \in Clients : ua[c].nonce \in 0..MaxTime
      BY DEF TypeOK, Requests
    <3> QED
      BY <2>1, <3>1 DEF NonceInv, AccessInv
  <2>4. SeenInv' /\ CountInv' /\ WitnessInv' /\ AcceptedOnce'
    BY <2>1 DEF AccessInv, SeenInv, CountInv, WitnessInv, AcceptedOnce
  <2> QED
    BY <1>1, <2>2, <2>3, <2>4 DEF AccessInv
<1>3. CASE gc
  BY <1>1, <1>3, GcKeepsAccess
<1>4. ASSUME NEW c \in Clients, Send(c) PROVE AccessSafe'
  <2>1. ua[c].nonce \in 0..MaxTime /\ ua[c].nonce <= now
    BY DEF TypeOK, AccessInv, NonceInv
  <2> QED
    BY <1>1, <1>4, <2>1, SendKeepsAccess DEF Send
<1>5. ASSUME NEW p \in replies, HearChallenge(p) PROVE AccessSafe'
  <2>1. p.nonce \in 0..MaxTime /\ p.nonce <= now /\ p.req.ua \in Clients
    BY DEF TypeOK, Requests, AccessInv, NonceInv
  <2> QED
    BY <1>1, <1>5, <2>1, SendKeepsAccess DEF HearChallenge
<1>6. ASSUME NEW p \in replies, HearOk(p) PROVE AccessSafe'
  <2>1. /\ UNCHANGED <<habits, now, ua, requests, seen, accepted>>
        /\ replies' \subseteq replies
    BY <1>6 DEF HearOk
  <2> QED
    BY <1>1, <2>1 DEF AccessInv, SeenInv, RememberedInv, CountInv, WitnessInv,
                      NonceInv, AcceptedOnce
<1>7. ASSUME NEW q \in requests, Refuse(q) PROVE AccessSafe'
  <2>1. /\ UNCHANGED <<habits, now, ua, seen, accepted>>
        /\ requests' \subseteq requests
    BY <1>7 DEF Refuse, AfterRefusal
  <2>2. \A p \in replies' : p.nonce <= now
    BY <1>7 DEF Refuse, issue, AccessInv, NonceInv, TypeOK
  <2>3. NonceInv'
    BY <2>1, <2>2 DEF AccessInv, NonceInv
  <2> QED
    BY <1>1, <2>1, <2>3 DEF AccessInv, SeenInv, RememberedInv, CountInv, WitnessInv,
                            AcceptedOnce
<1>8. ASSUME NEW q \in requests, Passes(q), Admit(q) PROVE AccessSafe'
  BY <1>1, <1>8, AdmitKeepsAccess
<1>9. ASSUME NEW q \in admitted, NEW op \in Ops, ApplyRegister(q, op) PROVE AccessSafe'
  <2>1. UNCHANGED <<habits, now, ua, requests, replies, seen, accepted>>
    BY <1>9 DEF ApplyRegister
  <2> QED
    BY <1>1, <2>1 DEF AccessInv, SeenInv, RememberedInv, CountInv, WitnessInv, NonceInv,
                      AcceptedOnce
<1>10. ASSUME NEW q \in updated, ReplyRegister(q) PROVE AccessSafe'
  <2>1. UNCHANGED <<habits, now, ua, requests, seen, accepted>>
    BY <1>10 DEF ReplyRegister
  <2>2. \A p \in replies' : p.nonce <= now
    BY <1>10 DEF ReplyRegister, AccessInv, NonceInv, NoNonce, TypeOK
  <2>3. NonceInv'
    BY <2>1, <2>2 DEF AccessInv, NonceInv
  <2> QED
    BY <1>1, <2>1, <2>3 DEF AccessInv, SeenInv, RememberedInv, CountInv, WitnessInv, AcceptedOnce
<1>11. CASE UNCHANGED vars
  BY <1>1, <1>11 DEF vars, AccessInv, SeenInv, RememberedInv, CountInv, WitnessInv,
                    NonceInv, AcceptedOnce
<1> QED
  BY <1>2, <1>3, <1>4, <1>5, <1>6, <1>7, <1>8, <1>9, <1>10, <1>11 DEF Next, Handle

(***************************************************************************)
(* Nothing has been sent, claimed or bound at the start.                   *)
(***************************************************************************)
LEMMA AccessInit == Init => AccessSafe
<1> SUFFICES ASSUME Init PROVE AccessSafe
  OBVIOUS
<1>1. TypeOK
  BY AccessAssumption DEF Init, TypeOK, NoNonce, Habits
<1>2. DOMAIN seen = {} /\ requests = {} /\ replies = {} /\ accepted = {}
  BY DEF Init
<1>3. CountInv
  BY <1>2 DEF CountInv, Init
<1>4. NonceInv
  BY <1>2 DEF NonceInv, Init, NoNonce
<1> QED
  BY <1>1, <1>2, <1>3, <1>4 DEF AccessSafe, AccessInv, SeenInv, RememberedInv, WitnessInv, AcceptedOnce

(***************************************************************************)
(* The inductive invariant holds of every behaviour.                       *)
(***************************************************************************)
THEOREM AccessSafeHolds == Spec => []AccessSafe
BY AccessInit, AccessStep, PTL DEF Spec

----------------------------------------------------------------------------
(***************************************************************************)
(* Type correctness of the nonces, the bindings and the user agents.       *)
(***************************************************************************)
THEOREM AccessTypeCorrect == Spec => []TypeOK
BY AccessSafeHolds, PTL DEF AccessSafe

(***************************************************************************)
(* "each value is accepted once and never again" (claim_nonce), although   *)
(* gc forgets nonces and the user agents share them.                       *)
(***************************************************************************)
THEOREM NonceCountsAreAcceptedOnce == Spec => []AcceptedOnce
BY AccessSafeHolds, PTL DEF AccessSafe

(***************************************************************************)
(* Who is turned away with the right password has a nonce that is too old, *)
(* or one that an accepted request has used as far (check_auth).           *)
(***************************************************************************)
LEMMA RefusalHasItsCause ==
    ASSUME AccessSafe, NEW q \in requests, ~Passes(q), CredentialsOk(q)
    PROVE  \/ now - q.nonce > NonceLife
           \/ \E a \in accepted : a.nonce = q.nonce /\ a.nc >= q.nc
<1> USE DEF AccessSafe, AccessInv
<1>1. /\ q.nonce \in 0..MaxTime /\ q.nc \in Nat /\ q.nonce <= now /\ q.nonce # NoNonce
  <2>1. q \in Requests /\ q.nonce <= now
    BY DEF TypeOK, NonceInv
  <2> QED
    BY <2>1 DEF Requests, CredentialsOk
<1>2. now \in 1..MaxTime
  BY DEF TypeOK
<1>3. CASE ~is_valid(q.nonce)
  BY <1>1, <1>2, <1>3, LifeAssumption, AccessAssumption DEF is_valid
<1>4. CASE ~Claimable(q.nonce, q.nc)
  <2>1. q.nonce \in DOMAIN seen /\ ~(q.nc > seen[q.nonce].highest)
    BY <1>4 DEF Claimable
  <2>2. seen[q.nonce].highest \in Nat
    BY <2>1 DEF TypeOK
  <2>3. PICK a \in accepted : a.nonce = q.nonce /\ a.nc = seen[q.nonce].highest
    BY <2>1 DEF WitnessInv
  <2> QED
    BY <1>1, <2>1, <2>2, <2>3
<1> QED
  BY <1>3, <1>4 DEF Passes

(***************************************************************************)
(* Nobody with the right password is refused without a cause.              *)
(***************************************************************************)
THEOREM RefusalsHaveACause == Spec => RefusedForCause
<1>1. AccessSafe /\ [Next]_vars =>
        [\A p \in replies' \ replies :
           p.code = 401 /\ CredentialsOk(p.req) =>
              \/ now - p.req.nonce > NonceLife
              \/ \E a \in accepted : a.nonce = p.req.nonce /\ a.nc >= p.req.nc]_vars
  <2> SUFFICES ASSUME AccessSafe, [Next]_vars, NEW p \in replies' \ replies,
                      p.code = 401, CredentialsOk(p.req)
               PROVE  \/ now - p.req.nonce > NonceLife
                      \/ \E a \in accepted : a.nonce = p.req.nonce /\ a.nc >= p.req.nc
    OBVIOUS
  <2>1. CASE \E q \in requests : ~Passes(q) /\ Refuse(q)
    <3>1. PICK q \in requests : ~Passes(q) /\ Refuse(q)
      BY <2>1
    <3>2. p.req = q
      BY <3>1 DEF Refuse
    <3> QED
      BY <3>1, <3>2, RefusalHasItsCause
  <2>2. CASE \E q \in updated : ReplyRegister(q)
    BY <2>2 DEF ReplyRegister
  <2>3. CASE replies' \subseteq replies
    BY <2>3
  <2> QED
    BY <2>1, <2>2, <2>3 DEF Admit, ApplyRegister, Next, Handle, Tick, gc, Send, HearChallenge, HearOk, vars
<1> QED
  BY <1>1, AccessSafeHolds, PTL DEF Spec, RefusedForCause

----------------------------------------------------------------------------
(* The registrar.                                                          *)

\* What it rests on: the requests, and what has been granted.
RegistrarSafe == RequestsInv /\ GrantInv

(***************************************************************************)
(* A user agent that sends does so under a sequence number of its own      *)
(* (Send, HearChallenge); what it has been told stays as it is.            *)
(***************************************************************************)
LEMMA SendKeepsRegistrar ==
    ASSUME AccessSafe, RegistrarSafe, NEW c \in Clients, NEW n \in 0..MaxTime, SendWith(c, n),
           UNCHANGED <<now, admitted, updated, bindings, applied, accepted, believes>>,
           replies' \subseteq replies
    PROVE  RegistrarSafe'
<1> DEFINE q0 == [ua |-> c, seq |-> ua[c].seq + 1, nonce |-> n, nc |-> NextCount(c, n), sent |-> now]
<1>1. requests' = requests \cup {q0}
  BY DEF SendWith
<1>2. q0.ua = c /\ q0.seq = ua[c].seq + 1 /\ q0.sent = now
  OBVIOUS
<1> HIDE DEF q0
<1>3. ua[c].seq \in Nat /\ now \in 1..MaxTime
  BY DEF AccessSafe, TypeOK
<1>4. \A q \in requests \cup accepted : q.seq \in Nat /\ (q.ua = c => q.seq < q0.seq)
  <2>1. \A q \in requests \cup accepted : q \in Requests /\ q.seq <= ua[q.ua].seq
    BY DEF AccessSafe, TypeOK, AccessInv, CountInv
  <2>2. \A q \in requests \cup accepted : q.seq \in Nat
    BY <2>1 DEF Requests
  <2> QED
    BY <1>2, <1>3, <2>1, <2>2
<1>5. q0 \notin requests \cup accepted
  BY <1>2, <1>4
<1>6. RequestsInv'
  <2>1. \A q \in requests' \cup accepted' : q.seq > 0 /\ q.sent <= now'
    BY <1>1, <1>2, <1>3 DEF RegistrarSafe, RequestsInv
  <2>2. \A p, q \in requests' \cup accepted' : p.ua = q.ua /\ p.seq = q.seq => p = q
    <3> SUFFICES ASSUME NEW p \in requests \cup accepted \cup {q0},
                        NEW q \in requests \cup accepted \cup {q0}, p.ua = q.ua, p.seq = q.seq
                 PROVE  p = q
      BY <1>1
    <3> QED
      BY <1>2, <1>4 DEF RegistrarSafe, RequestsInv
  <2> QED
    BY <1>1, <1>5, <2>1, <2>2 DEF RegistrarSafe, RequestsInv
<1>7. GrantInv'
  BY DEF RegistrarSafe, GrantInv, Backed, Answered
<1> QED
  BY <1>6, <1>7 DEF RegistrarSafe

(***************************************************************************)
(* A user agent that hears a 200 believes what was granted (HearOk).       *)
(***************************************************************************)
LEMMA HearOkKeepsRegistrar ==
    ASSUME AccessSafe, RegistrarSafe, NEW p \in replies, HearOk(p)
    PROVE  RegistrarSafe'
<1>1. /\ p.code = 200 /\ p.req.ua \in Clients
      /\ replies' = replies \ {p}
      /\ UNCHANGED <<now, requests, admitted, updated, accepted, bindings, applied>>
  BY DEF HearOk, AccessSafe, TypeOK, Requests
<1>2. believes'[p.req.ua] = [seq |-> p.req.seq, sent |-> p.req.sent, granted |-> p.granted]
  BY <1>1 DEF HearOk, AccessSafe, TypeOK
<1>3. \A c \in Clients : c # p.req.ua => believes'[c] = believes[c]
  BY DEF HearOk, AccessSafe, TypeOK
<1>4. /\ p.req \in Answered /\ p.req.sent <= now
      /\ Backed(p.req.ua, p.req.seq, p.req.sent, p.granted)
  BY <1>1 DEF RegistrarSafe, GrantInv, RequestsInv, Answered
<1>5. GrantInv'
  <2>1. \A r \in replies' : r.code = 200 =>
           r.req \in Answered' /\ Backed(r.req.ua, r.req.seq, r.req.sent, r.granted)'
    BY <1>1 DEF RegistrarSafe, GrantInv, Backed, Answered
  <2>2. ASSUME NEW c \in Clients
        PROVE  /\ believes'[c].sent <= now'
               /\ Backed(c, believes[c].seq, believes[c].sent, believes[c].granted)'
               /\ believes'[c].seq > 0 =>
                     \E a \in Answered' : a.ua = c /\ a.seq = believes'[c].seq
    <3>1. CASE c = p.req.ua
      BY <1>1, <1>2, <1>4, <3>1 DEF Backed, Answered
    <3>2. CASE c # p.req.ua
      BY <1>1, <1>3, <3>2 DEF RegistrarSafe, GrantInv, Backed, Answered
    <3> QED
      BY <3>1, <3>2
  <2> QED
    BY <2>1, <2>2 DEF GrantInv
<1> QED
  BY <1>1, <1>5 DEF RegistrarSafe, RequestsInv

(***************************************************************************)
(* A request that gets in is new: nobody has been answered about it        *)
(* (check_auth, claim_nonce).                                              *)
(***************************************************************************)
LEMMA AdmitKeepsRegistrar ==
    ASSUME AccessSafe, RegistrarSafe, NEW q \in requests, Admit(q)
    PROVE  RegistrarSafe'
<1>1. /\ accepted' = accepted \cup {q} /\ requests' = requests \ {q}
      /\ admitted' \subseteq admitted \cup {q} /\ admitted \subseteq admitted'
      /\ UNCHANGED <<now, replies, updated, bindings, applied, believes>>
  BY DEF Admit
<1>2. q \notin accepted
  BY DEF RegistrarSafe, RequestsInv
<1>3. RequestsInv'
  BY <1>1, <1>2 DEF RegistrarSafe, RequestsInv
<1>4. Answered \subseteq Answered'
  BY <1>1, <1>2 DEF Answered
<1>5. \A p \in replies' : p.code = 200 =>
         p.req \in Answered' /\ Backed(p.req.ua, p.req.seq, p.req.sent, p.granted)'
  BY <1>1, <1>4 DEF RegistrarSafe, GrantInv, Backed
<1>6. \A c \in Clients :
         /\ believes'[c].sent <= now'
         /\ Backed(c, believes[c].seq, believes[c].sent, believes[c].granted)'
         /\ believes'[c].seq > 0 => \E a \in Answered' : a.ua = c /\ a.seq = believes'[c].seq
  BY <1>1, <1>4 DEF RegistrarSafe, GrantInv, Backed
<1> QED
  BY <1>3, <1>5, <1>6 DEF RegistrarSafe, GrantInv

(***************************************************************************)
(* A REGISTER replaces what was applied for a contact under a sequence     *)
(* number nobody has been told of yet (update, remove_all).                *)
(***************************************************************************)
LEMMA ApplyKeepsRegistrar ==
    ASSUME AccessSafe, RegistrarSafe, NEW q \in admitted, NEW op \in Ops, ApplyRegister(q, op)
    PROVE  RegistrarSafe'
<1>1. /\ admitted' = admitted \ {q} /\ updated' = updated \cup {q}
      /\ UNCHANGED <<now, requests, replies, accepted, believes>>
      /\ q \in accepted /\ q \in Requests /\ q.seq \in Nat /\ q.seq > 0
  BY DEF ApplyRegister, AccessSafe, TypeOK, Requests, RegistrarSafe, RequestsInv
<1>2. RequestsInv'
  BY <1>1 DEF RegistrarSafe, RequestsInv
<1>3. Answered' = Answered
  BY <1>1 DEF Answered
<1>4. \A a \in Answered : ~(a.ua = q.ua /\ a.seq = q.seq)
  BY <1>1 DEF Answered, RegistrarSafe, RequestsInv
\* Whoever has been told something has been answered: what is applied now is news.
<1>5. ASSUME NEW c \in Clients, NEW seq, NEW sent, NEW granted, Backed(c, seq, sent, granted),
             seq # q.seq \/ c # q.ua
      PROVE  Backed(c, seq, sent, granted)'
  <2>1. CASE applied'[c] = [by |-> q.ua, seq |-> q.seq]
    BY <1>5, <2>1 DEF Backed
  <2>2. CASE op.kind = "register" /\ c # q.ua
    <3>1. bindings'[c] = bindings[c] /\ applied'[c] = applied[c]
      BY <2>2 DEF ApplyRegister, update, AccessSafe, TypeOK
    <3> QED
      BY <1>1, <1>5, <3>1 DEF Backed
  <2>3. ~(op.kind = "register" /\ c # q.ua) => applied'[c] = [by |-> q.ua, seq |-> q.seq]
    BY DEF ApplyRegister, Ops
  <2> QED
    BY <2>1, <2>2, <2>3
<1>6. ASSUME NEW p \in replies', p.code = 200
      PROVE  p.req \in Answered' /\ Backed(p.req.ua, p.req.seq, p.req.sent, p.granted)'
  <2>1. p.req \in Answered /\ Backed(p.req.ua, p.req.seq, p.req.sent, p.granted)
    BY <1>1, <1>6 DEF RegistrarSafe, GrantInv
  <2>2. p.req.ua \in Clients
    BY <1>1 DEF AccessSafe, TypeOK, Requests
  <2>3. ~(p.req.ua = q.ua /\ p.req.seq = q.seq)
    BY <1>4, <2>1
  <2> QED
    BY <1>3, <1>5, <2>1, <2>2, <2>3
<1>7. ASSUME NEW c \in Clients
      PROVE  /\ believes'[c].sent <= now'
             /\ Backed(c, believes[c].seq, believes[c].sent, believes[c].granted)'
             /\ believes'[c].seq > 0 =>
                   \E a \in Answered' : a.ua = c /\ a.seq = believes'[c].seq
  <2>1. /\ believes[c].sent <= now
        /\ Backed(c, believes[c].seq, believes[c].sent, believes[c].granted)
        /\ believes[c].seq > 0 => \E a \in Answered : a.ua = c /\ a.seq = believes[c].seq
        /\ believes[c].seq \in Nat
    BY DEF RegistrarSafe, GrantInv, AccessSafe, TypeOK
  <2>2. ~(believes[c].seq = q.seq /\ c = q.ua)
    BY <1>1, <1>4, <2>1
  <2>3. Backed(c, believes[c].seq, believes[c].sent, believes[c].granted)'
    <3> DEFINE told == believes[c]
    <3>1. Backed(c, told.seq, told.sent, told.granted)'
      BY <1>1, <1>5, <2>1, <2>2 DEF Backed
    <3> QED
      BY <3>1
  <2> QED
    BY <1>1, <1>3, <2>1, <2>3
<1>8. GrantInv'
  BY <1>6, <1>7 DEF GrantInv
<1> QED
  BY <1>2, <1>8 DEF RegistrarSafe

(***************************************************************************)
(* The response gives what is left of the binding at that moment, and the  *)
(* request was sent before (handle_register, ReplyExpires).                *)
(***************************************************************************)
LEMMA ReplyIsBacked ==
    ASSUME AccessSafe, NEW q \in Requests, q.sent <= now
    PROVE  Backed(q.ua, q.seq, q.sent, ReplyExpires(q.ua))
<1>1. q.ua \in Clients /\ q.sent \in Int /\ now \in Int
  BY DEF Requests, AccessSafe, TypeOK
<1>2. bindings[q.ua].expires_at \in Int
  BY <1>1, AccessAssumption DEF AccessSafe, TypeOK
<1> QED
  BY <1>1, <1>2 DEF Backed, ReplyExpires, Live

(***************************************************************************)
(* A response tells the user agent what is backed by the registrar.        *)
(***************************************************************************)
LEMMA ReplyKeepsRegistrar ==
    ASSUME AccessSafe, RegistrarSafe, NEW q \in updated, ReplyRegister(q)
    PROVE  RegistrarSafe'
<1>1. /\ updated' = updated \ {q}
      /\ UNCHANGED <<now, requests, admitted, bindings, applied, accepted, believes>>
      /\ q \in accepted /\ q \notin admitted /\ q \in Requests /\ q.sent <= now
  BY DEF ReplyRegister, AccessSafe, TypeOK, RegistrarSafe, RequestsInv
<1>2. RequestsInv'
  BY <1>1 DEF RegistrarSafe, RequestsInv
<1>3. Answered' = Answered \cup {q}
  BY <1>1 DEF Answered
<1>4. \A p \in replies' : p.code = 200 =>
         p.req \in Answered' /\ Backed(p.req.ua, p.req.seq, p.req.sent, p.granted)'
  <2> SUFFICES ASSUME NEW p \in replies', p.code = 200
               PROVE  p.req \in Answered' /\ Backed(p.req.ua, p.req.seq, p.req.sent, p.granted)'
    OBVIOUS
  <2>1. CASE p \in replies
    BY <1>1, <1>3, <2>1 DEF RegistrarSafe, GrantInv, Backed
  <2>2. CASE p \notin replies
    <3>1. p.req = q /\ p.granted = ReplyExpires(q.ua)
      BY <2>2 DEF ReplyRegister
    <3>2. Backed(q.ua, q.seq, q.sent, p.granted)
      BY <1>1, <3>1, ReplyIsBacked
    <3> QED
      BY <1>1, <1>3, <3>1, <3>2 DEF Backed
  <2> QED
    BY <2>1, <2>2
<1>5. \A c \in Clients :
         /\ believes'[c].sent <= now'
         /\ Backed(c, believes[c].seq, believes[c].sent, believes[c].granted)'
         /\ believes'[c].seq > 0 => \E a \in Answered' : a.ua = c /\ a.seq = believes'[c].seq
  BY <1>1, <1>3 DEF RegistrarSafe, GrantInv, Backed
<1>6. GrantInv'
  BY <1>4, <1>5 DEF GrantInv
<1> QED
  BY <1>2, <1>6 DEF RegistrarSafe

(***************************************************************************)
(* Every step keeps it.                                                    *)
(***************************************************************************)
LEMMA RegistrarStep == AccessSafe /\ RegistrarSafe /\ [Next]_vars => RegistrarSafe'
<1> SUFFICES ASSUME AccessSafe, RegistrarSafe, [Next]_vars PROVE RegistrarSafe'
  OBVIOUS
<1>1. CASE Tick
  <2>1. /\ now \in Int /\ now' = now + 1
        /\ \A q \in requests \cup accepted : q.sent \in Int
        /\ \A c \in Clients : bindings[c].expires_at \in Int
    <3>1. now \in Int /\ now' = now + 1
      BY <1>1 DEF Tick, AccessSafe, TypeOK
    <3>2. \A q \in requests \cup accepted : q.sent \in Int
      BY DEF AccessSafe, TypeOK, Requests
    <3>3. \A c \in Clients : bindings[c].expires_at \in Int
      BY AccessAssumption DEF AccessSafe, TypeOK
    <3> QED
      BY <3>1, <3>2, <3>3
  <2>2. UNCHANGED <<requests, replies, admitted, updated, bindings, applied, accepted, believes>>
    BY <1>1 DEF Tick
  <2>3. RequestsInv'
    BY <2>1, <2>2 DEF RegistrarSafe, RequestsInv
  <2>4. \A c \in Clients : believes[c].sent \in Int
    BY DEF AccessSafe, TypeOK
  <2>5. ASSUME NEW c \in Clients, NEW seq, NEW sent, NEW granted, Backed(c, seq, sent, granted)
        PROVE  Backed(c, seq, sent, granted)'
    BY <2>1, <2>2, <2>5 DEF Backed
  <2>6. \A p \in replies : p.code = 200 => p.req.ua \in Clients
    BY DEF AccessSafe, TypeOK, Requests
  <2>7. \A p \in replies' : p.code = 200 =>
           p.req \in Answered' /\ Backed(p.req.ua, p.req.seq, p.req.sent, p.granted)'
    BY <2>2, <2>5, <2>6 DEF RegistrarSafe, GrantInv, Answered
  <2>8. ASSUME NEW c \in Clients
        PROVE  /\ believes'[c].sent <= now'
               /\ Backed(c, believes[c].seq, believes[c].sent, believes[c].granted)'
               /\ believes'[c].seq > 0 =>
                     \E a \in Answered' : a.ua = c /\ a.seq = believes'[c].seq
    BY <2>1, <2>2, <2>4 DEF RegistrarSafe, GrantInv, Answered, Backed
  <2>9. GrantInv'
    BY <2>7, <2>8 DEF GrantInv, Backed
  <2> QED
    BY <2>3, <2>9 DEF RegistrarSafe
<1>2. CASE gc \/ UNCHANGED vars
  BY <1>2 DEF gc, vars, RegistrarSafe, RequestsInv, GrantInv, Backed, Answered
<1>3. ASSUME NEW c \in Clients, Send(c) PROVE RegistrarSafe'
  <2>1. ua[c].nonce \in 0..MaxTime
    BY DEF AccessSafe, TypeOK
  <2> QED
    BY <1>3, <2>1, SendKeepsRegistrar DEF Send
<1>4. ASSUME NEW p \in replies, HearChallenge(p) PROVE RegistrarSafe'
  <2>1. p.nonce \in 0..MaxTime /\ p.req.ua \in Clients
    BY DEF AccessSafe, TypeOK, Requests
  <2> QED
    BY <1>4, <2>1, SendKeepsRegistrar DEF HearChallenge
<1>5. ASSUME NEW p \in replies, HearOk(p) PROVE RegistrarSafe'
  BY <1>5, HearOkKeepsRegistrar
<1>6. ASSUME NEW q \in requests, Refuse(q) PROVE RegistrarSafe'
  <2>1. /\ requests' \subseteq requests
        /\ \A p \in replies' : p.code = 200 => p \in replies
        /\ UNCHANGED <<now, admitted, updated, bindings, applied, accepted, believes>>
    BY <1>6 DEF Refuse
  <2>2. RequestsInv'
    BY <2>1 DEF RegistrarSafe, RequestsInv
  <2> QED
    BY <2>1, <2>2 DEF RegistrarSafe, GrantInv, Backed, Answered
<1>7. ASSUME NEW q \in requests, Admit(q) PROVE RegistrarSafe'
  BY <1>7, AdmitKeepsRegistrar
<1>8. ASSUME NEW q \in admitted, NEW op \in Ops, ApplyRegister(q, op) PROVE RegistrarSafe'
  BY <1>8, ApplyKeepsRegistrar
<1>9. ASSUME NEW q \in updated, ReplyRegister(q) PROVE RegistrarSafe'
  BY <1>9, ReplyKeepsRegistrar
<1> QED
  BY <1>1, <1>2, <1>3, <1>4, <1>5, <1>6, <1>7, <1>8, <1>9 DEF Next, Handle

(***************************************************************************)
(* Nothing has been asked for at the start.                                *)
(***************************************************************************)
THEOREM RegistrarSafeHolds == Spec => []RegistrarSafe
<1>1. Init => RegistrarSafe
  <2> SUFFICES ASSUME Init PROVE RegistrarSafe
    OBVIOUS
  <2>1. /\ requests = {} /\ replies = {} /\ accepted = {} /\ now = 1
        /\ admitted = {} /\ updated = {}
    BY DEF Init
  <2>2. \A c \in Clients : /\ believes[c] = [seq |-> 0, sent |-> 0, granted |-> 0]
                           /\ bindings[c].expires_at = 0
    BY DEF Init
  <2> QED
    BY <2>1, <2>2 DEF RegistrarSafe, RequestsInv, GrantInv, Backed
<1> QED
  BY <1>1, RegistrarStep, AccessSafeHolds, PTL DEF Spec

(***************************************************************************)
(* A request that gets in has been sent after everything its user agent    *)
(* has got in with under that nonce: a later one has a higher count, and   *)
(* claim_nonce has seen it.                                                *)
(***************************************************************************)
LEMMA AdmittedIsLater ==
    ASSUME AccessSafe, RegistrarSafe, NEW q \in requests, Passes(q),
           NEW a \in accepted, a.ua = q.ua, a.nonce = q.nonce
    PROVE  a.seq < q.seq
<1>1. a \in Requests /\ q \in Requests
  BY DEF AccessSafe, TypeOK
<1>2. a.seq \in Nat /\ q.seq \in Nat /\ a.nc \in Nat /\ q.nc \in Nat
  BY <1>1 DEF Requests
<1>3. a.nc < q.nc
  BY PassingIsNewer
<1>4. ~(q.seq < a.seq)
  <2>1. q.seq < a.seq => q.nc <= a.nc
    BY DEF AccessSafe, AccessInv, CountInv
  <2> QED
    BY <1>2, <1>3, <2>1
<1>5. a.seq # q.seq
  BY DEF RegistrarSafe, RequestsInv
<1> QED
  BY <1>2, <1>4, <1>5

(***************************************************************************)
(* Once a later request of a user agent has been let in under a nonce, an  *)
(* earlier one under it never is, for any number of user agents sharing    *)
(* nonces and whatever gc forgets.                                         *)
(***************************************************************************)
THEOREM OvertakenDoNotGetIn == Spec => OvertakenIsRefused
<1>1. AccessSafe /\ RegistrarSafe /\ [Next]_vars =>
        [\A q \in accepted' \ accepted : \A a \in accepted :
           a.ua = q.ua /\ a.nonce = q.nonce => a.seq < q.seq]_vars
  <2> SUFFICES ASSUME AccessSafe, RegistrarSafe, [Next]_vars, NEW q \in accepted' \ accepted,
                      NEW a \in accepted, a.ua = q.ua, a.nonce = q.nonce
               PROVE  a.seq < q.seq
    OBVIOUS
  <2>1. PICK r \in requests : Passes(r) /\ Admit(r)
    BY DEF Next, Handle, Tick, gc, Send, HearChallenge, HearOk, Refuse, ApplyRegister,
           ReplyRegister, vars
  <2>2. q = r
    BY <2>1 DEF Admit
  <2> QED
    BY <2>1, <2>2, AdmittedIsLater
<1> QED
  BY <1>1, AccessSafeHolds, RegistrarSafeHolds, PTL DEF Spec, OvertakenIsRefused

(***************************************************************************)
(* "the registrar decides the lifetime and tells the UA what it got"       *)
(* (handle_register): who has been told that it is registered is bound     *)
(* that long, and who has left is no target, for any user agents,          *)
(* lifetimes and reordering of their requests and responses.               *)
(***************************************************************************)
THEOREM RegistrarIsBelieved == Spec => []RegistrarInv
<1>1. AccessSafe /\ RegistrarSafe => RegistrarInv
  <2> SUFFICES ASSUME AccessSafe, RegistrarSafe PROVE RegistrarInv
    OBVIOUS
  <2>1. \A c \in Clients : Agreed(c) =>
           IF believes[c].granted = 0 THEN bindings[c].expires_at <= now
           ELSE bindings[c].expires_at >= believes[c].sent + believes[c].granted
    BY DEF Agreed, RegistrarSafe, GrantInv, Backed
  <2>2. \A c \in Clients : /\ bindings[c].expires_at \in Int
                           /\ believes[c].sent \in Nat /\ believes[c].granted \in Nat
    BY AccessAssumption DEF AccessSafe, TypeOK
  <2>3. now \in Int /\ now >= 1
    BY DEF AccessSafe, TypeOK
  <2>4. \A c \in Clients : Agreed(c) /\ believes[c].granted = 0 => ~Live(c)
    BY <2>1, <2>2, <2>3 DEF Live
  <2>5. \A c \in Clients : believes[c].sent <= now
    BY DEF RegistrarSafe, GrantInv
  <2>6. TargetHasNotLeft
    BY <2>4 DEF TargetHasNotLeft, newest
  <2>7. BelievedIsBound
    <3> SUFFICES ASSUME NEW c \in Clients, Agreed(c),
                        now < believes[c].sent + believes[c].granted
                 PROVE  Live(c)
      BY DEF BelievedIsBound
    <3>1. believes[c].granted # 0
      BY <2>2, <2>3, <2>5
    <3> QED
      BY <2>1, <2>2, <2>3, <3>1 DEF Live
  <2> QED
    BY <2>6, <2>7 DEF RegistrarInv, AccessSafe
<1> QED
  BY <1>1, RegistrarSafeHolds, AccessSafeHolds, PTL
=============================================================================
