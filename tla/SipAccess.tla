----------------------------- MODULE SipAccess -----------------------------
(***************************************************************************)
(* The SIP core's own services: digest authentication with its nonces      *)
(* (sip/auth.rs, check_auth and claim_nonce of sip/core.rs) and the        *)
(* registrar (sip/registrar.rs, handle_register), used by several user     *)
(* agents at once.                                                         *)
(*                                                                         *)
(* A request is handled by a task of its own, so requests of one user      *)
(* agent overtake each other, on the way and while they are handled: a     *)
(* REGISTER claims its nonce, updates the registrar and reads it back for  *)
(* the response under a lock each, three steps here.  Copies of a request are filtered out before *)
(* (SipServer); here every request is handled at most once.  Time passes   *)
(* in ticks; a nonce names the tick it was issued in, so that everybody    *)
(* challenged in one tick gets the same nonce.  The wall clock of the      *)
(* nonces and the monotonic clock of nonce_seen advance together.          *)
(*                                                                         *)
(* What check_auth never sees is left out, since it touches nothing here:  *)
(* OPTIONS, CANCEL, BYE and INFO within a dialog, refused sources.         *)
(***************************************************************************)
EXTENDS Integers, FiniteSets

CONSTANTS
    Clients,        \* user agents, each with one contact of one address of record
    NonceLife,      \* ticks a nonce is valid (300 s)
    SeenLife,       \* ticks a used nonce is remembered (600 s)
    SeenCap,        \* entries of nonce_seen that are kept regardless (64)
    MaxExpires,     \* MAX_REGISTER_EXPIRES
    Lifetimes,      \* the Expires values user agents ask for
    MaxSeq,         \* bound, MaxSeq[c]: requests c sends
    MaxTime         \* bound: the clock

ASSUME LifeAssumption ==
    NonceLife \in Nat /\ SeenLife \in Nat /\ NonceLife < SeenLife
ASSUME AccessAssumption ==
    /\ SeenCap \in Nat /\ MaxExpires \in Nat /\ Lifetimes \subseteq Nat
    /\ MaxSeq \in [Clients -> Nat] /\ MaxTime \in Nat \ {0}

VARIABLES
    habits,     \* habits[c]: whether c uses qop, and whether it has the right password
    now,        \* the clock
    ua,         \* ua[c]: the sequence number and nonce c used last, its count per nonce
    requests,   \* requests sent and not handled yet
    replies,    \* responses sent and not heard yet
    seen,       \* nonce_seen: a function on the nonces that have been used
    admitted,   \* REGISTERs whose nonce is claimed, still to be applied
    updated,    \* REGISTERs that have been applied, still to be answered
    bindings,   \* the registrar: one entry per contact
    applied,    \* history, applied[c]: the last REGISTER about the contact of c
    accepted,   \* history: requests that carried accepted credentials
    believes    \* believes[c]: the REGISTER of c that was confirmed last, and for how long

vars == <<habits, now, ua, requests, replies, seen, admitted, updated, bindings,
          applied, accepted, believes>>

NoNonce == 0
Habits == [Clients -> [qop : BOOLEAN, password : BOOLEAN]]
Ops == [kind : {"register"}, expires : Lifetimes] \cup [kind : {"star"}]
Requests == [ua : Clients, seq : Nat, nonce : 0..MaxTime, nc : Nat, sent : 1..MaxTime]

TypeOK ==
    /\ habits \in Habits
    /\ now \in 1..MaxTime
    /\ ua \in [Clients -> [seq : Nat, nonce : 0..MaxTime, count : [1..MaxTime -> Nat]]]
    /\ requests \in SUBSET Requests
    /\ replies \in SUBSET [req : Requests, code : {200, 401},
                           nonce : 0..MaxTime, stale : BOOLEAN, granted : Nat]
    /\ DOMAIN seen \subseteq 1..MaxTime
    /\ seen \in [DOMAIN seen -> [highest : Nat, first : 1..MaxTime]]
    /\ admitted \in SUBSET Requests
    /\ updated \in SUBSET Requests
    /\ bindings \in [Clients -> [expires_at : 0..(MaxTime + MaxExpires), registered_at : 0..MaxTime]]
    /\ applied \in [Clients -> [by : Clients, seq : Nat]]
    /\ accepted \in SUBSET Requests
    /\ believes \in [Clients -> [seq : Nat, sent : Nat, granted : Nat]]

Init ==
    /\ habits \in Habits
    /\ now = 1
    /\ ua = [c \in Clients |-> [seq |-> 0, nonce |-> NoNonce, count |-> [n \in 1..MaxTime |-> 0]]]
    /\ requests = {}
    /\ replies = {}
    /\ seen = [n \in {} |-> [highest |-> 0, first |-> 0]]
    /\ admitted = {}
    /\ updated = {}
    /\ bindings = [c \in Clients |-> [expires_at |-> 0, registered_at |-> 0]]
    /\ applied = [c \in Clients |-> [by |-> c, seq |-> 0]]
    /\ accepted = {}
    /\ believes = [c \in Clients |-> [seq |-> 0, sent |-> 0, granted |-> 0]]

Tick ==
    /\ now < MaxTime
    /\ now' = now + 1
    /\ UNCHANGED <<habits, ua, requests, replies, seen, admitted, updated, bindings, applied,
                   accepted, believes>>

----------------------------------------------------------------------------
(* The user agents.  One with qop counts its requests under a nonce; one   *)
(* without has nothing but the nonce, and uses it again all the same.      *)

NextCount(c, n) ==
    IF n = NoNonce \/ ~habits[c].qop THEN 0 ELSE ua[c].count[n] + 1

SendWith(c, n) ==
    LET q == [ua |-> c, seq |-> ua[c].seq + 1, nonce |-> n, nc |-> NextCount(c, n), sent |-> now]
    IN  /\ ua[c].seq < MaxSeq[c]
        /\ requests' = requests \cup {q}
        /\ ua' = [ua EXCEPT ![c] =
                     [seq |-> q.seq, nonce |-> n,
                      count |-> [k \in 1..MaxTime |-> IF k = n THEN q.nc ELSE @.count[k]]]]

\* A new request, with the nonce of the last challenge if there was one.
Send(c) ==
    /\ SendWith(c, ua[c].nonce)
    /\ UNCHANGED <<habits, now, replies, seen, admitted, updated, bindings, applied, accepted,
                   believes>>

\* A challenge is answered, unless it says that the password is wrong.
HearChallenge(p) ==
    /\ p.code = 401
    /\ p.req.nonce = NoNonce \/ p.stale
    /\ SendWith(p.req.ua, p.nonce)
    /\ replies' = replies \ {p}
    /\ UNCHANGED <<habits, now, seen, admitted, updated, bindings, applied, accepted, believes>>

\* A registration lasts as long as the response says, from the request on.
HearOk(p) ==
    /\ p.code = 200
    /\ believes' = [believes EXCEPT ![p.req.ua] =
                       [seq |-> p.req.seq, sent |-> p.req.sent, granted |-> p.granted]]
    /\ replies' = replies \ {p}
    /\ UNCHANGED <<habits, now, ua, requests, seen, admitted, updated, bindings, applied, accepted>>

----------------------------------------------------------------------------
(* Nonces.                                                                 *)

\* gc: which entries of nonce_seen stay.
Remember(n) == now - seen[n].first < SeenLife

\* gc, run by the receive loop after any datagram.
gc ==
    /\ Cardinality(DOMAIN seen) > SeenCap
    /\ seen' = [n \in {k \in DOMAIN seen : Remember(k)} |-> seen[n]]
    /\ UNCHANGED <<habits, now, ua, requests, replies, admitted, updated, bindings, applied,
                   accepted, believes>>

issue == now

is_valid(n) == n # NoNonce /\ now - n \in 0..NonceLife

\* verify and the tests beside it: user, realm, URI and digest.
CredentialsOk(q) == q.nonce # NoNonce /\ habits[q.ua].password

\* Mutant: any count but the last one is new.
ClaimableUnlessLast(n, nc) == n \in DOMAIN seen => nc # seen[n].highest

\* Mutant: the same count is good again.
ClaimableAgain(n, nc) == n \in DOMAIN seen => nc >= seen[n].highest

\* claim_nonce: what it returns.
Claimable(n, nc) == n \in DOMAIN seen => nc > seen[n].highest

\* claim_nonce: what it leaves in nonce_seen.
Claimed(n, nc) ==
    [k \in DOMAIN seen \cup {n} |->
        IF k # n THEN seen[k]
        ELSE [highest |-> nc, first |-> IF n \in DOMAIN seen THEN seen[n].first ELSE now]]

\* Mutant: the nonce is consumed before the credentials are looked at.
ClaimedByAnyone(q) ==
    IF is_valid(q.nonce) /\ Claimable(q.nonce, q.nc) THEN Claimed(q.nonce, q.nc) ELSE seen

\* check_auth: nonce_seen after a request that was refused.
AfterRefusal(q) == seen

\* check_auth: the request may proceed.
Passes(q) == CredentialsOk(q) /\ is_valid(q.nonce) /\ Claimable(q.nonce, q.nc)

----------------------------------------------------------------------------
(* The registrar.                                                          *)

NoBinding == [expires_at |-> 0, registered_at |-> 0]

\* handle_register: the lifetime that is granted.
Capped(e) == IF e > MaxExpires THEN MaxExpires ELSE e

\* update: one contact; "`expires == 0` removes it".
update(c, e) ==
    [bindings EXCEPT ![c] = IF e > 0 THEN [expires_at |-> now + e, registered_at |-> now]
                            ELSE NoBinding]

remove_all == [c \in Clients |-> NoBinding]

\* expire: what contacts and newest still see.
Live(c) == bindings[c].expires_at > now

\* newest, used by resolve_target: the binding refreshed last.
newest(c) ==
    /\ Live(c)
    /\ \A d \in Clients : Live(d) => bindings[d].registered_at <= bindings[c].registered_at

\* Mutant: the response gives the longest lifetime, as its Expires header may.
ReplyDefault(c) == MaxExpires

\* handle_register: the expires of our contact in the response, what is left of
\* the binding (none when it is not among the contacts any more).
ReplyExpires(c) == IF Live(c) THEN bindings[c].expires_at - now ELSE 0

----------------------------------------------------------------------------
(* on_request for one request.                                             *)

Refuse(q) ==
    /\ requests' = requests \ {q}
    /\ replies' = replies \cup
         {[req |-> q, code |-> 401, nonce |-> issue, stale |-> CredentialsOk(q), granted |-> 0]}
    /\ seen' = AfterRefusal(q)
    /\ UNCHANGED <<habits, now, ua, admitted, updated, bindings, applied, accepted, believes>>

\* A REGISTER stays with its task; everything else goes on to the gateway.
Admit(q) ==
    /\ seen' = Claimed(q.nonce, q.nc)
    /\ accepted' = accepted \cup {q}
    /\ requests' = requests \ {q}
    /\ \/ admitted' = admitted \cup {q}
       \/ admitted' = admitted
    /\ UNCHANGED <<habits, now, ua, replies, updated, bindings, applied, believes>>

Handle(q) == IF Passes(q) THEN Admit(q) ELSE Refuse(q)

\* handle_register: one contact, or all of them.  What a request asks for is not
\* looked at before, so it is chosen here.
ApplyRegister(q, op) ==
    LET about == IF op.kind = "star" THEN Clients ELSE {q.ua}
    IN  /\ bindings' = IF op.kind = "star" THEN remove_all ELSE update(q.ua, Capped(op.expires))
        /\ applied' = [c \in Clients |->
                         IF c \in about THEN [by |-> q.ua, seq |-> q.seq] ELSE applied[c]]
        /\ admitted' = admitted \ {q}
        /\ updated' = updated \cup {q}
        /\ UNCHANGED <<habits, now, ua, requests, replies, seen, accepted, believes>>

\* handle_register: the response, from what the registrar holds by then.
ReplyRegister(q) ==
    /\ replies' = replies \cup
         {[req |-> q, code |-> 200, nonce |-> NoNonce, stale |-> FALSE,
           granted |-> ReplyExpires(q.ua)]}
    /\ updated' = updated \ {q}
    /\ UNCHANGED <<habits, now, ua, requests, seen, admitted, bindings, applied, accepted, believes>>

----------------------------------------------------------------------------

Next ==
    \/ Tick
    \/ gc
    \/ \E c \in Clients : Send(c)
    \/ \E q \in requests : Handle(q)
    \/ \E q \in admitted, op \in Ops : ApplyRegister(q, op)
    \/ \E q \in updated : ReplyRegister(q)
    \/ \E p \in replies : HearChallenge(p) \/ HearOk(p)

Spec == Init /\ [][Next]_vars

----------------------------------------------------------------------------
(* The inductive strengthening (proved in SipAccessProofs).                *)

\* A nonce is first used after it was issued.
SeenInv == \A n \in DOMAIN seen : n <= seen[n].first

\* What has been accepted is remembered until its nonce is too old to be valid.
RememberedInv ==
    \A a \in accepted :
        \/ a.nonce \in DOMAIN seen /\ a.nc <= seen[a.nonce].highest
        \/ now - a.nonce > NonceLife

\* A user agent counts up.
CountInv ==
    /\ \A q \in requests \cup accepted :
          /\ q.seq <= ua[q.ua].seq
          /\ IF q.nonce = NoNonce THEN q.nc = 0 ELSE q.nc <= ua[q.ua].count[q.nonce]
    /\ \A p, q \in requests \cup accepted :
          p.ua = q.ua /\ p.nonce = q.nonce /\ p.seq < q.seq => p.nc <= q.nc
    /\ \A c \in Clients : ~habits[c].qop => \A n \in 1..MaxTime : ua[c].count[n] = 0

\* What nonce_seen holds, an accepted request has put there.
WitnessInv ==
    \A n \in DOMAIN seen : \E a \in accepted : a.nonce = n /\ a.nc = seen[n].highest

\* Nobody has a nonce from the future.
NonceInv ==
    /\ \A q \in requests : q.nonce <= now
    /\ \A p \in replies : p.nonce <= now
    /\ \A c \in Clients : ua[c].nonce <= now

AccessInv ==
    SeenInv /\ RememberedInv /\ CountInv /\ WitnessInv /\ NonceInv

\* Requests are told apart by user agent and CSeq, and handled once.
RequestsInv ==
    /\ requests \cap accepted = {}
    /\ admitted \cup updated \subseteq accepted
    /\ admitted \cap updated = {}
    /\ \A q \in requests \cup accepted : q.seq > 0 /\ q.sent <= now
    /\ \A p, q \in requests \cup accepted : p.ua = q.ua /\ p.seq = q.seq => p = q

\* A lifetime granted to the REGISTER applied last is that of the binding.
Backed(c, seq, sent, granted) ==
    applied[c].by = c /\ applied[c].seq = seq =>
        IF granted = 0 THEN bindings[c].expires_at <= now
        ELSE bindings[c].expires_at >= sent + granted

\* REGISTERs that have been answered.
Answered == accepted \ (admitted \cup updated)

\* Whether the user agent has heard of it or is still to.
GrantInv ==
    /\ \A p \in replies : p.code = 200 =>
          p.req \in Answered /\ Backed(p.req.ua, p.req.seq, p.req.sent, p.granted)
    /\ \A c \in Clients :
          /\ believes[c].sent <= now
          /\ Backed(c, believes[c].seq, believes[c].sent, believes[c].granted)
          /\ believes[c].seq > 0 =>
                \E a \in Answered : a.ua = c /\ a.seq = believes[c].seq

----------------------------------------------------------------------------

(***************************************************************************)
(* claim_nonce: "each value is accepted once and never again".  No two     *)
(* requests get in with the same nonce and count, although gc forgets used *)
(* nonces and a user agent without qop repeats the ones it has.            *)
(***************************************************************************)
AcceptedOnce ==
    \A p, q \in accepted : p.nonce = q.nonce /\ p.nc = q.nc => p = q

(***************************************************************************)
(* A user agent with the right password is turned away only because its    *)
(* nonce is too old, or because a request that did get in has used it as   *)
(* far: "a wrong password would otherwise burn the nonce the legitimate    *)
(* client is about to use" (check_auth).                                   *)
(***************************************************************************)
RefusedForCause ==
    [][\A p \in replies' \ replies :
         p.code = 401 /\ CredentialsOk(p.req) =>
            \/ now - p.req.nonce > NonceLife
            \/ \E a \in accepted : a.nonce = p.req.nonce /\ a.nc >= p.req.nc]_vars

(***************************************************************************)
(* A request that comes in after a later one of its user agent is refused, *)
(* as long as the two carry the same nonce: the registrar does not look at *)
(* the CSeq, the nonce count is what keeps an overtaken REGISTER from      *)
(* undoing the later one (claim_nonce).  It does no more: two that are     *)
(* both let in, in order, are applied in any order.                        *)
(***************************************************************************)
OvertakenIsRefused ==
    [][\A q \in accepted' \ accepted : \A a \in accepted :
         a.ua = q.ua /\ a.nonce = q.nonce => a.seq < q.seq]_vars

(* What the user agent has been told is what the registrar did last.       *)
Agreed(c) == applied[c].by = c /\ applied[c].seq = believes[c].seq

(***************************************************************************)
(* A user agent that counts itself registered can be called: until the     *)
(* time the response gave it is over, its binding is one the gateway sees  *)
(* ("the registrar decides the lifetime and tells the UA what it got",     *)
(* handle_register).                                                       *)
(***************************************************************************)
BelievedIsBound ==
    \A c \in Clients : Agreed(c) /\ now < believes[c].sent + believes[c].granted => Live(c)

(***************************************************************************)
(* A user agent whose de-registration has been confirmed is not the target *)
(* of a call or a message (resolve_target).                                *)
(***************************************************************************)
TargetHasNotLeft ==
    \A c \in Clients : Agreed(c) /\ believes[c].granted = 0 => ~newest(c)

\* What is checked of the bindings: they are well formed, and they are what
\* the user agents have been told.
RegistrarInv == TypeOK /\ BelievedIsBound /\ TargetHasNotLeft
=============================================================================
