----------------------------- MODULE SipClient -----------------------------
(***************************************************************************)
(* The client side of the SIP core (sip/core.rs): the table of client      *)
(* transactions, the retransmission tasks, transact with its one answer to *)
(* a digest challenge (sip/auth.rs), and its three kinds of user: a        *)
(* message or another request outside the call, the INVITE of an incoming  *)
(* call (gateway.rs), and the loop that keeps the gateway registered with  *)
(* an upstream registrar (sip/register.rs).                                *)
(*                                                                         *)
(* Users share nothing but the table, whose keys are random branches, so   *)
(* the module follows one user.  Datagrams are lost and reordered, and     *)
(* come twice when they are sent again.                                    *)
(***************************************************************************)
EXTENDS Naturals, Sequences, FiniteSets

CONSTANTS
    Branches,   \* Via branches
    MaxFail,    \* bound: sends the socket refuses
    MaxUnread   \* bound: provisionals waiting to be read

ASSUME BoundsAssumption == MaxFail \in Nat /\ MaxUnread \in Nat \ {0}

VARIABLES
    role,       \* what the user does: "message", "invite" or "register"
    creds,      \* whether there are credentials to answer a challenge with
    calm,       \* whether the network and the other side are in order
    pc,         \* where the user is
    branch,     \* the branch of its transaction
    attempt,    \* 2 when the challenge has been answered
    asked,      \* asked_for: whether it meets the registrar's minimum
    result,     \* how the last exchange ended
    txns,       \* client_txns
    stopped,    \* retransmission tasks whose stop_retransmit is set
    timer,      \* retransmission tasks
    exhausted,  \* branches whose task ended unasked: 32 s, or an error
    chan,       \* chan[b]: responses the user has not read
    net,        \* datagrams in flight
    peer,       \* peer[b]: the server transaction of the other side
    cancelled,  \* whether the INVITE has been cancelled
    leaked      \* entries of client_txns whose request could not be sent

user == <<role, creds, pc, branch, attempt, asked, result, cancelled>>
table == <<txns, stopped, timer, exhausted>>
vars == <<user, calm, table, chan, net, peer, leaked>>

NoBranch == "none"
Refusals == {"challenge", "too_brief", "reject"}
\* "reject": any other failure, and a 200 that grants a zero lifetime.
Finals == {"ok"} \cup Refusals
Answers == {"provisional"} \cup Finals
Response(r, b, m) == [kind |-> r, branch |-> b, method |-> m]
Request(b) == [kind |-> "request", branch |-> b, method |-> role]
Cancel(b) == [kind |-> "request", branch |-> b, method |-> "cancel"]
Dgrams == [kind : {"request"} \cup Answers, branch : Branches,
           method : {"message", "invite", "register", "cancel"}]

TypeOK ==
    /\ role \in {"message", "invite", "register"}
    /\ creds \in BOOLEAN /\ calm \in BOOLEAN /\ cancelled \in BOOLEAN
    /\ pc \in {"idle", "waiting", "answering", "ended"}
    /\ branch \in Branches \cup {NoBranch}
    /\ attempt \in 1..2
    /\ asked \in {"short", "long"}
    /\ result \in {"none", "error"} \cup Finals
    /\ txns \subseteq Branches /\ stopped \subseteq Branches
    /\ timer \subseteq Branches /\ exhausted \subseteq Branches
    /\ chan \in [Branches -> Seq(Answers)]
    /\ net \subseteq Dgrams
    /\ peer \in [Branches -> {"none"} \cup Answers]
    /\ leaked \in 0..MaxFail

Init ==
    /\ role \in {"message", "invite", "register"}
    /\ creds \in IF role = "register" THEN {TRUE} ELSE BOOLEAN
    /\ calm \in BOOLEAN
    /\ pc = "idle"
    /\ branch = NoBranch
    /\ attempt = 1
    /\ asked = "short"
    /\ result = "none"
    /\ txns = {} /\ stopped = {} /\ timer = {} /\ exhausted = {}
    /\ chan = [b \in Branches |-> <<>>]
    /\ net = {}
    /\ peer = [b \in Branches |-> "none"]
    /\ cancelled = FALSE
    /\ leaked = 0

----------------------------------------------------------------------------
(* The network and the other side.                                         *)

Take(m) == m \in net /\ net' = net \ {m}
TakeAndSend(m, new) == m \in net /\ net' = (net \ {m}) \cup new

Lose(m) ==
    /\ ~calm
    /\ net' = net \ {m}
    /\ UNCHANGED <<user, calm, table, chan, peer, leaked>>

Weather ==
    /\ calm' = ~calm
    /\ UNCHANGED <<user, table, chan, net, peer, leaked>>

\* A registrar in order asks for credentials, then for a lifetime above its
\* minimum, and grants that.
RegistrarSays ==
    IF attempt = 1 THEN "challenge" ELSE IF asked = "short" THEN "too_brief" ELSE "ok"

\* What the other side may say to a request it has not answered for good.
PeerMaySay(b) ==
    LET finals == IF role # "register" THEN Finals \ {"too_brief"}
                  ELSE IF calm THEN {RegistrarSays} ELSE Finals
    IN  finals \cup IF calm /\ peer[b] = "provisional" THEN {} ELSE {"provisional"}

\* An RFC 3261 server transaction repeats its last response.
PeerHears(b) ==
    \E r \in (IF peer[b] \in Finals THEN {peer[b]} ELSE PeerMaySay(b)) :
        /\ TakeAndSend(Request(b), {Response(r, b, role)})
        /\ peer' = [peer EXCEPT ![b] = r]
        /\ UNCHANGED <<user, calm, table, chan, leaked>>

\* A CANCEL is answered itself, and the INVITE with a 487 if it still can be.
PeerHearsCancel(b) ==
    LET r == IF peer[b] \in Finals THEN peer[b] ELSE "reject"
    IN  /\ TakeAndSend(Cancel(b), {Response("ok", b, "cancel"), Response(r, b, role)})
        /\ peer' = [peer EXCEPT ![b] = r]
        /\ UNCHANGED <<user, calm, table, chan, leaked>>

----------------------------------------------------------------------------
(* The core.                                                               *)

\* A random branch: the name of one that nobody waits on, sends with or has
\* just used.  Of what is left on the wire only responses can still matter.
Unused(b) == b \notin txns \cup timer \cup {branch}

Fresh == CHOOSE b \in Branches : Unused(b)

\* send_request: the entry, the datagram, the retransmission task.
SendRequest(n) ==
    /\ \E b \in Branches : Unused(b)
    /\ pc' = "waiting"
    /\ branch' = Fresh
    /\ attempt' = n
    /\ result' = "none"
    /\ txns' = txns \cup {Fresh}
    /\ timer' = timer \cup {Fresh}
    /\ peer' = [b \in Branches |-> "none"]
    /\ net' = {m \in net : m.branch # Fresh /\ m.kind # "request"} \cup {Request(Fresh)}
    /\ UNCHANGED <<role, creds, asked, cancelled, calm, stopped, exhausted, chan, leaked>>

\* Where a user is when its exchange is over: the registration loop goes on.
AfterExchange == IF role = "register" THEN "idle" ELSE "ended"

\* send_request: the socket refuses.  The entry stays in the table; no peer has
\* seen its branch, so that it is enough to count it.
SendFails(n) ==
    /\ leaked < MaxFail
    /\ leaked' = leaked + 1
    /\ attempt' = n
    /\ pc' = AfterExchange
    /\ result' = "error"
    /\ UNCHANGED <<role, creds, branch, asked, cancelled, calm, table, chan, net, peer>>

\* The retransmission task.
Retransmit(b) ==
    /\ b \in timer \ stopped
    /\ net' = net \cup {Request(b)}
    /\ UNCHANGED <<user, calm, table, chan, peer, leaked>>

TimerStops(b) ==
    /\ b \in timer \cap stopped
    /\ timer' = timer \ {b}
    /\ stopped' = stopped \ {b}
    /\ UNCHANGED <<user, calm, txns, exhausted, chan, net, peer, leaked>>

\* 32 s are over, or the socket refuses.
TimerGivesUp(b) ==
    /\ ~calm
    /\ b \in timer \ stopped
    /\ timer' = timer \ {b}
    /\ exhausted' = exhausted \cup {b}
    /\ UNCHANGED <<user, calm, txns, stopped, chan, net, peer, leaked>>

\* Mutant: the branch alone identifies a transaction.
BranchMatches(m) == m.branch \in txns

\* on_response: the entry a response belongs to.
Matches(m) == m.branch \in txns /\ m.method = role

\* Mutant: any response stops the retransmission.
StopsAlways(m) == TRUE

\* on_response: a final stops the retransmission; for an INVITE any response.
Stops(m) == m.kind \in Finals \/ m.method = "invite"

\* What arrives behind a final response is never read.
Room(m) ==
    LET q == chan[m.branch]
    IN  IF m.kind \in Finals THEN \A i \in 1..Len(q) : q[i] \notin Finals ELSE Len(q) < MaxUnread

\* on_response.
Deliver(m) ==
    /\ m.kind \in Answers
    /\ Room(m)
    /\ Take(m)
    /\ IF Matches(m)
       THEN /\ chan' = [chan EXCEPT ![m.branch] = Append(@, m.kind)]
            /\ stopped' = IF Stops(m) THEN stopped \cup ({m.branch} \cap timer) ELSE stopped
       ELSE UNCHANGED <<chan, stopped>>
    /\ UNCHANGED <<user, calm, txns, timer, exhausted, peer, leaked>>

\* Mutant: the entry is removed, the task goes on.
DropEntryOnly ==
    /\ txns' = txns \ {branch}
    /\ exhausted' = exhausted \ {branch}
    /\ chan' = [chan EXCEPT ![branch] = <<>>]
    /\ UNCHANGED <<stopped, timer>>

\* ClientTxn::drop.
DropTxn ==
    /\ stopped' = stopped \cup ({branch} \cap timer)
    /\ txns' = txns \ {branch}
    /\ exhausted' = exhausted \ {branch}
    /\ chan' = [chan EXCEPT ![branch] = <<>>]
    /\ UNCHANGED timer

\* final_response, invite_response_task: a provisional is read past.
ReadProvisional ==
    /\ pc = "waiting"
    /\ chan[branch] # <<>> /\ Head(chan[branch]) = "provisional"
    /\ chan' = [chan EXCEPT ![branch] = Tail(@)]
    /\ UNCHANGED <<user, calm, table, net, peer, leaked>>

\* transact, retry_invite_with_auth: the challenge can be answered, once.
MayAnswer(r) == r = "challenge" /\ attempt = 1 /\ creds

\* Mutant: a registrar's minimum is only reported.
AskAsBefore(r) == asked

\* register_once: what to ask for after a 423.
AskFor(r) == IF role = "register" /\ r = "too_brief" THEN "long" ELSE asked

\* final_response, the rest of transact or register_once: a final response.
ReadFinal ==
    /\ pc = "waiting"
    /\ chan[branch] # <<>> /\ Head(chan[branch]) \in Finals
    /\ LET r == Head(chan[branch]) IN
       /\ result' = r
       /\ pc' = IF MayAnswer(r) THEN "answering" ELSE AfterExchange
       /\ asked' = AskFor(r)
    /\ DropTxn
    /\ UNCHANGED <<role, creds, branch, attempt, cancelled, calm, net, peer, leaked>>

\* is_supported: none of the challenges is for MD5.
NoSupportedChallenge ==
    /\ pc = "answering"
    /\ ~(role = "register" /\ calm)
    /\ pc' = AfterExchange
    /\ UNCHANGED <<role, creds, branch, attempt, asked, result, cancelled, calm, table,
                   chan, net, peer, leaked>>

\* final_response: 32 s without one.  What has arrived is read first; a final
\* that comes too late is as good as one that has not arrived.
Timeout ==
    /\ pc = "waiting"
    /\ chan[branch] = <<>>
    /\ branch \in exhausted \/ ~calm
    /\ result' = "error"
    /\ pc' = AfterExchange
    /\ DropTxn
    /\ UNCHANGED <<role, creds, branch, attempt, asked, cancelled, calm, net, peer, leaked>>

\* cancel_outgoing_invite: a CANCEL with the branch of the INVITE, by send_raw.
CancelInvite ==
    /\ role = "invite" /\ pc = "waiting" /\ ~cancelled
    /\ cancelled' = TRUE
    /\ net' = net \cup {Cancel(branch)}
    /\ UNCHANGED <<role, creds, pc, branch, attempt, asked, result, calm, table, chan, peer, leaked>>

\* A new exchange; the registration loop has slept.
Begin == pc = "idle" /\ (SendRequest(1) \/ SendFails(1))

\* The same request with credentials: a new branch, the next CSeq.
AnswerChallenge == pc = "answering" /\ (SendRequest(attempt + 1) \/ SendFails(attempt + 1))

Read == ReadProvisional \/ ReadFinal

----------------------------------------------------------------------------

Next ==
    \/ Begin \/ AnswerChallenge \/ Read \/ NoSupportedChallenge \/ Timeout \/ CancelInvite
    \/ Weather
    \/ \E b \in Branches :
          \/ Retransmit(b) \/ TimerStops(b) \/ TimerGivesUp(b)
          \/ PeerHears(b) \/ PeerHearsCancel(b)
    \/ \E m \in net : Deliver(m) \/ Lose(m)

Spec == Init /\ [][Next]_vars

\* A final response reaches the transaction it belongs to.
FinalArrives == \E m \in net : m.kind \in Finals /\ Matches(m) /\ Deliver(m)

\* Tasks and timers run, the other side answers, what is not lost arrives.
Fairness ==
    /\ WF_vars(Begin) /\ WF_vars(AnswerChallenge) /\ WF_vars(Read) /\ WF_vars(Timeout)
    /\ \A b \in Branches :
          WF_vars(Retransmit(b)) /\ WF_vars(TimerStops(b)) /\ WF_vars(PeerHears(b))
    /\ WF_vars(FinalArrives)

FairSpec == Spec /\ Fairness

----------------------------------------------------------------------------

(***************************************************************************)
(* What a user takes for the outcome is what the other side has said to    *)
(* this very request: never the answer to a CANCEL that shares the branch  *)
(* ("its 200 OK would otherwise be delivered as if the INVITE had been     *)
(* answered", on_response), nor a late answer to the request before.       *)
(***************************************************************************)
OutcomeIsTrue == result \in Finals => peer[branch] = result

(***************************************************************************)
(* Nothing goes on once an exchange is over: no entry without a user but   *)
(* the ones of failed sends, no request sent again for nobody, and no      *)
(* response kept for a user that has turned away.                          *)
(***************************************************************************)
NothingLeftBehind ==
    LET mine == IF pc = "waiting" THEN {branch} ELSE {}
    IN  /\ txns \cup (timer \ stopped) \subseteq mine
        /\ \A b \in Branches \ mine : chan[b] = <<>>

\* What is checked: the table is well formed and holds what is in use.
ClientInv == TypeOK /\ NothingLeftBehind

\* The inductive strengthening (proved in SipClientProofs): what the user has
\* not read, and what is under way to it, is what the other side has said.
ToldInv ==
    /\ pc = "waiting" \/ result \in Finals => branch \in Branches
    /\ pc = "answering" => attempt = 1
    /\ pc = "waiting" =>
          /\ \A i \in 1..Len(chan[branch]) :
                chan[branch][i] \in Finals => peer[branch] = chan[branch][i]
          /\ \A m \in net :
                m.kind \in Finals /\ m.branch = branch /\ m.method = role => peer[branch] = m.kind

(***************************************************************************)
(* on_response: "a lost final response was never recovered".  A user that  *)
(* waits for an answer the other side has given gets one once datagrams    *)
(* get through again, although a provisional came in between, unless the   *)
(* 32 s of retransmission were over before.                                *)
(***************************************************************************)
LostFinalIsRecovered ==
    <>[](calm /\ pc = "waiting") => role = "invite"

(***************************************************************************)
(* "Keeps retrying forever" (register.rs): once the registrar stays in     *)
(* order the gateway is registered again and again, whatever it was told   *)
(* before and whatever minimum the registrar insists on.                   *)
(***************************************************************************)
RegistersInTheEnd == role = "register" /\ <>[]calm => []<>(result = "ok")
=============================================================================
