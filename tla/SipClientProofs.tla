--------------------------- MODULE SipClientProofs ---------------------------
(***************************************************************************)
(* Proofs about SipClient, for any branches, losses, repetitions and       *)
(* orders of the datagrams: what a user takes for the outcome of its       *)
(* exchange is what the other side has said to that very request, and      *)
(* nothing is left in the table once the exchange is over.                 *)
(***************************************************************************)
EXTENDS SipClient, TLAPS

\* What the steps keep together.
ClientSafe == ClientInv /\ OutcomeIsTrue /\ ToldInv

\* The responses are told apart from the other datagrams.
LEMMA KindFacts ==
    /\ Finals \subseteq Answers /\ "provisional" \in Answers
    /\ "provisional" \notin Finals /\ "request" \notin Answers
    /\ "none" \notin Answers /\ "error" \notin Answers
BY DEF Finals, Refusals, Answers

\* Datagrams are.
LEMMA DgramFacts ==
    ASSUME TypeOK, NEW b \in Branches
    PROVE  /\ Request(b) \in Dgrams /\ Cancel(b) \in Dgrams
           /\ \A r \in Answers : Response(r, b, role) \in Dgrams /\ Response(r, b, "cancel") \in Dgrams
BY DEF TypeOK, Dgrams, Request, Cancel, Response

----------------------------------------------------------------------------
(* The user.                                                               *)

(***************************************************************************)
(* A new exchange starts with an entry, a task and a branch of its own,    *)
(* and nothing said to the one before counts for it (send_request).        *)
(***************************************************************************)
LEMMA SendRequestStep ==
    ASSUME ClientSafe, pc \in {"idle", "answering"}, NEW n \in 1..2, SendRequest(n)
    PROVE  ClientSafe'
<1> USE DEF ClientSafe, ClientInv
<1>1. Fresh \in Branches /\ Unused(Fresh)
  BY DEF SendRequest, Fresh
<1>2. /\ pc' = "waiting" /\ branch' = Fresh /\ attempt' = n /\ result' = "none"
      /\ txns' = txns \cup {Fresh} /\ timer' = timer \cup {Fresh}
      /\ peer' = [b \in Branches |-> "none"]
      /\ net' = {m \in net : m.branch # Fresh /\ m.kind # "request"} \cup {Request(Fresh)}
      /\ UNCHANGED <<role, creds, asked, cancelled, calm, stopped, exhausted, chan, leaked>>
  BY DEF SendRequest
<1>3. TypeOK'
  <2>1. Request(Fresh) \in Dgrams
    BY <1>1, DgramFacts
  <2> QED
    BY <1>1, <1>2, <2>1 DEF TypeOK
<1>4. txns = {} /\ timer \ stopped = {} /\ \A b \in Branches : chan[b] = << >>
  BY DEF NothingLeftBehind
<1>5. NothingLeftBehind'
  BY <1>2, <1>4 DEF NothingLeftBehind
<1>6. \A m \in net' : m.branch = Fresh => m.kind = "request"
  BY <1>2 DEF Request
<1>7. ToldInv'
  BY <1>1, <1>2, <1>4, <1>6, KindFacts DEF ToldInv
<1>8. OutcomeIsTrue'
  BY <1>2, KindFacts DEF OutcomeIsTrue
<1> QED
  BY <1>3, <1>5, <1>7, <1>8

(***************************************************************************)
(* A request that the socket refuses leaves its entry, and no more.        *)
(***************************************************************************)
LEMMA SendFailsStep ==
    ASSUME ClientSafe, pc \in {"idle", "answering"}, NEW n \in 1..2, SendFails(n)
    PROVE  ClientSafe'
<1> USE DEF ClientSafe, ClientInv
<1>1. /\ pc' \in {"idle", "ended"} /\ result' = "error" /\ attempt' = n
      /\ UNCHANGED <<role, creds, branch, asked, cancelled, calm, table, chan, net, peer>>
  BY DEF SendFails, AfterExchange
<1>2. leaked' \in 0..MaxFail
  BY BoundsAssumption DEF SendFails, TypeOK
<1>3. TypeOK'
  BY <1>1, <1>2 DEF TypeOK, table
<1>4. NothingLeftBehind'
  BY <1>1 DEF NothingLeftBehind, table
<1>5. ToldInv' /\ OutcomeIsTrue'
  BY <1>1, KindFacts DEF ToldInv, OutcomeIsTrue
<1> QED
  BY <1>3, <1>4, <1>5

(***************************************************************************)
(* ClientTxn::drop takes everything of the exchange away.                  *)
(***************************************************************************)
LEMMA DropLeavesNothing ==
    ASSUME ClientSafe, pc = "waiting", DropTxn, pc' # "waiting"
    PROVE  /\ NothingLeftBehind'
           /\ txns' \subseteq Branches /\ stopped' \subseteq Branches
           /\ timer' \subseteq Branches /\ exhausted' \subseteq Branches
           /\ chan' \in [Branches -> Seq(Answers)]
<1> USE DEF ClientSafe, ClientInv, DropTxn
<1>1. /\ branch \in Branches
      /\ txns \subseteq {branch} /\ timer \ stopped \subseteq {branch}
      /\ \A b \in Branches \ {branch} : chan[b] = << >>
  BY DEF ToldInv, NothingLeftBehind
<1>2. /\ txns \subseteq Branches /\ stopped \subseteq Branches /\ timer \subseteq Branches
      /\ exhausted \subseteq Branches /\ chan \in [Branches -> Seq(Answers)]
  BY DEF TypeOK
<1>3. \A b \in Branches : chan'[b] = << >>
  BY <1>1, <1>2
<1>4. txns' = {} /\ timer' \ stopped' = {}
  BY <1>1, <1>2
<1> QED
  BY <1>1, <1>2, <1>3, <1>4 DEF NothingLeftBehind

(***************************************************************************)
(* A final response that is read is the outcome (final_response).          *)
(***************************************************************************)
LEMMA ReadFinalStep ==
    ASSUME ClientSafe, ReadFinal
    PROVE  ClientSafe'
<1> USE DEF ClientSafe, ClientInv
<1> DEFINE r == Head(chan[branch])
<1>1. /\ pc = "waiting" /\ chan[branch] # << >> /\ r \in Finals
      /\ result' = r /\ asked' = AskFor(r) /\ DropTxn
      /\ pc' = IF MayAnswer(r) THEN "answering" ELSE AfterExchange
      /\ UNCHANGED <<role, creds, branch, attempt, cancelled, calm, net, peer, leaked>>
  BY DEF ReadFinal
<1>2. branch \in Branches /\ chan[branch] \in Seq(Answers)
  BY <1>1 DEF ToldInv, TypeOK
<1>3. r = chan[branch][1] /\ 1 \in 1..Len(chan[branch])
  BY <1>1, <1>2
<1>4. peer[branch] = r
  BY <1>1, <1>3 DEF ToldInv
<1> HIDE DEF r
<1>5. pc' \in {"answering", "idle", "ended"} /\ (pc' = "answering" => attempt = 1)
  BY <1>1 DEF AfterExchange, MayAnswer
<1>6. /\ NothingLeftBehind'
      /\ txns' \subseteq Branches /\ stopped' \subseteq Branches
      /\ timer' \subseteq Branches /\ exhausted' \subseteq Branches
      /\ chan' \in [Branches -> Seq(Answers)]
  BY <1>1, <1>5, DropLeavesNothing
<1>7. asked' \in {"short", "long"}
  BY <1>1 DEF AskFor, TypeOK
<1>8. TypeOK'
  BY <1>1, <1>5, <1>6, <1>7 DEF TypeOK
<1>9. ToldInv' /\ OutcomeIsTrue'
  BY <1>1, <1>2, <1>4, <1>5 DEF ToldInv, OutcomeIsTrue
<1> QED
  BY <1>6, <1>8, <1>9

(***************************************************************************)
(* Giving up drops the exchange without an outcome (final_response).       *)
(***************************************************************************)
LEMMA TimeoutStep ==
    ASSUME ClientSafe, Timeout
    PROVE  ClientSafe'
<1> USE DEF ClientSafe, ClientInv
<1>1. /\ pc = "waiting" /\ pc' \in {"idle", "ended"} /\ result' = "error" /\ DropTxn
      /\ UNCHANGED <<role, creds, branch, attempt, asked, cancelled, calm, net, peer, leaked>>
  BY DEF Timeout, AfterExchange
<1>2. /\ NothingLeftBehind'
      /\ txns' \subseteq Branches /\ stopped' \subseteq Branches
      /\ timer' \subseteq Branches /\ exhausted' \subseteq Branches
      /\ chan' \in [Branches -> Seq(Answers)]
  BY <1>1, DropLeavesNothing
<1>3. TypeOK'
  BY <1>1, <1>2 DEF TypeOK
<1>4. ToldInv' /\ OutcomeIsTrue'
  BY <1>1, KindFacts DEF ToldInv, OutcomeIsTrue
<1> QED
  BY <1>2, <1>3, <1>4

----------------------------------------------------------------------------
(* The core and the other side.                                            *)

(***************************************************************************)
(* A response is queued for the request it answers and for no other: the   *)
(* answer to a CANCEL has its branch, and not its method (on_response).    *)
(***************************************************************************)
LEMMA DeliverStep ==
    ASSUME ClientSafe, NEW m \in net, Deliver(m)
    PROVE  ClientSafe'
<1> USE DEF ClientSafe, ClientInv
<1>1. /\ m.kind \in Answers /\ net' = net \ {m} /\ m.branch \in Branches
      /\ UNCHANGED <<user, calm, txns, timer, exhausted, peer, leaked>>
  BY DEF Deliver, Take, TypeOK, Dgrams
<1>2. UNCHANGED <<role, creds, pc, branch, attempt, asked, result, cancelled>>
  BY <1>1 DEF user
<1>3. CASE ~Matches(m)
  <2>1. UNCHANGED <<chan, stopped>>
    BY <1>3 DEF Deliver
  <2>2. TypeOK' /\ NothingLeftBehind'
    BY <1>1, <1>2, <2>1 DEF TypeOK, NothingLeftBehind
  <2>3. ToldInv' /\ OutcomeIsTrue'
    BY <1>1, <1>2, <2>1 DEF ToldInv, OutcomeIsTrue
  <2> QED
    BY <2>2, <2>3
<1>4. CASE Matches(m)
  <2>1. pc = "waiting" /\ m.branch = branch /\ m.method = role
    BY <1>4 DEF Matches, NothingLeftBehind
  <2>2. /\ chan' = [chan EXCEPT ![branch] = Append(@, m.kind)]
        /\ stopped' = IF Stops(m) THEN stopped \cup ({m.branch} \cap timer) ELSE stopped
    BY <1>4, <2>1 DEF Deliver
  <2>3. chan \in [Branches -> Seq(Answers)] /\ branch \in Branches
    BY <1>1, <2>1 DEF TypeOK
  <2>4. chan' \in [Branches -> Seq(Answers)] /\ stopped' \subseteq Branches /\ stopped \subseteq stopped'
    BY <1>1, <2>2, <2>3 DEF TypeOK
  <2>5. TypeOK'
    BY <1>1, <1>2, <2>4 DEF TypeOK
  <2>6. NothingLeftBehind'
    <3>1. \A b \in Branches \ {branch} : chan'[b] = << >>
      BY <2>1, <2>2, <2>3 DEF NothingLeftBehind
    <3> QED
      BY <1>1, <1>2, <2>1, <2>4, <3>1 DEF NothingLeftBehind
  <2>7. ASSUME NEW i \in 1..Len(chan'[branch]), chan'[branch][i] \in Finals
        PROVE  peer[branch] = chan'[branch][i]
    <3>1. chan'[branch] = Append(chan[branch], m.kind) /\ chan[branch] \in Seq(Answers)
      BY <2>2, <2>3
    <3>2. CASE i \in 1..Len(chan[branch])
      <4>1. chan'[branch][i] = chan[branch][i]
        BY <3>1, <3>2
      <4> QED
        BY <2>1, <2>7, <3>2, <4>1 DEF ToldInv
    <3>3. CASE i = Len(chan[branch]) + 1
      <4>1. chan'[branch][i] = m.kind
        BY <1>1, <3>1, <3>3
      <4> QED
        BY <2>1, <2>7, <4>1 DEF ToldInv
    <3>4. i \in 1..Len(chan[branch]) \/ i = Len(chan[branch]) + 1
      BY <1>1, <3>1
    <3> QED
      BY <3>2, <3>3, <3>4
  <2>8. ToldInv'
    BY <1>1, <1>2, <2>7 DEF ToldInv
  <2>9. OutcomeIsTrue'
    BY <1>1, <1>2 DEF OutcomeIsTrue
  <2> QED
    BY <2>5, <2>6, <2>8, <2>9
<1> QED
  BY <1>3, <1>4

(***************************************************************************)
(* The other side says nothing new to a request it has answered for good,  *)
(* and whatever it sends is what it says (PeerHears, PeerHearsCancel).     *)
(***************************************************************************)
LEMMA PeerSpeaks ==
    ASSUME ClientSafe, NEW b \in Branches, NEW r \in Answers,
           peer[b] \in Finals => r = peer[b],
           peer' = [peer EXCEPT ![b] = r],
           NEW others \in SUBSET Dgrams,
           \A m \in others : m.method = "cancel",
           net' \subseteq net \cup {Response(r, b, role)} \cup others,
           UNCHANGED <<user, calm, table, chan, leaked>>
    PROVE  ClientSafe'
<1> USE DEF ClientSafe, ClientInv
<1>1. UNCHANGED <<role, creds, pc, branch, attempt, asked, result, cancelled>>
  BY DEF user
<1>2. peer \in [Branches -> {"none"} \cup Answers] /\ role # "cancel"
  BY DEF TypeOK
<1>3. TypeOK'
  <2>1. Response(r, b, role) \in Dgrams
    BY DgramFacts
  <2> QED
    BY <1>1, <1>2, <2>1 DEF TypeOK, table
<1>4. NothingLeftBehind'
  BY <1>1 DEF NothingLeftBehind, table
\* What has been said for good is still said.
<1>5. branch \in Branches /\ peer[branch] \in Finals => peer'[branch] = peer[branch]
  BY <1>2
<1>6. OutcomeIsTrue'
  BY <1>1, <1>5 DEF OutcomeIsTrue, ToldInv
<1>7. ASSUME pc = "waiting", NEW m \in net', m.kind \in Finals, m.branch = branch, m.method = role
      PROVE  peer'[branch] = m.kind
  <2>1. CASE m \in net
    BY <1>5, <1>7, <2>1 DEF ToldInv
  <2>2. CASE m = Response(r, b, role)
    <3>1. b = branch /\ m.kind = r
      BY <1>7, <2>2 DEF Response
    <3> QED
      BY <1>2, <3>1
  <2>3. CASE m \in others
    BY <1>2, <1>7, <2>3
  <2> QED
    BY <1>7, <2>1, <2>2, <2>3
<1>8. ToldInv'
  <2>1. \A i \in 1..Len(chan'[branch']) :
           pc = "waiting" /\ chan'[branch'][i] \in Finals => peer'[branch'] = chan'[branch'][i]
    BY <1>1, <1>5 DEF ToldInv
  <2> QED
    BY <1>1, <1>7, <2>1 DEF ToldInv
<1> QED
  BY <1>3, <1>4, <1>6, <1>8

(***************************************************************************)
(* Steps of the network and the tasks that touch neither the user, nor     *)
(* what it is to read, nor what the other side has said.                   *)
(***************************************************************************)
LEMMA QuietStep ==
    ASSUME ClientSafe, UNCHANGED <<user, txns, chan, peer, leaked>>, calm' \in BOOLEAN,
           timer' \subseteq timer, exhausted' \subseteq Branches, stopped' \subseteq Branches,
           timer' \ stopped' \subseteq timer \ stopped,
           net' \subseteq Dgrams, \A m \in net' \ net : m.kind = "request"
    PROVE  ClientSafe'
<1> USE DEF ClientSafe, ClientInv
<1>1. UNCHANGED <<role, creds, pc, branch, attempt, asked, result, cancelled>>
  BY DEF user
<1>2. TypeOK'
  BY <1>1 DEF TypeOK
<1>3. NothingLeftBehind'
  BY <1>1 DEF NothingLeftBehind
<1>4. \A m \in net' : m.kind \in Finals => m \in net
  BY KindFacts
<1>5. ToldInv' /\ OutcomeIsTrue'
  BY <1>1, <1>4 DEF ToldInv, OutcomeIsTrue
<1> QED
  BY <1>2, <1>3, <1>5

(***************************************************************************)
(* Every step keeps the invariant.                                         *)
(***************************************************************************)
LEMMA ClientStep == ClientSafe /\ [Next]_vars => ClientSafe'
<1> SUFFICES ASSUME ClientSafe, [Next]_vars PROVE ClientSafe'
  OBVIOUS
<1> USE DEF ClientSafe, ClientInv
<1>0. /\ net \subseteq Dgrams /\ exhausted \subseteq Branches /\ stopped \subseteq Branches
      /\ timer \subseteq Branches /\ calm \in BOOLEAN
  BY DEF TypeOK
<1>1. CASE Begin
  BY <1>1, SendRequestStep, SendFailsStep DEF Begin
<1>2. CASE AnswerChallenge
  <2>1. attempt + 1 \in 1..2
    BY <1>2 DEF AnswerChallenge, ToldInv
  <2> QED
    BY <1>2, <2>1, SendRequestStep, SendFailsStep DEF AnswerChallenge
<1>3. CASE ReadProvisional
  <2>1. /\ pc = "waiting" /\ chan[branch] # << >>
        /\ chan' = [chan EXCEPT ![branch] = Tail(@)]
        /\ UNCHANGED <<role, creds, pc, branch, attempt, asked, result, cancelled>>
        /\ UNCHANGED <<calm, table, net, peer, leaked>>
    BY <1>3 DEF ReadProvisional, user
  <2>2. branch \in Branches /\ chan \in [Branches -> Seq(Answers)]
    BY <2>1 DEF ToldInv, TypeOK
  <2>3. /\ chan'[branch] = Tail(chan[branch]) /\ chan[branch] \in Seq(Answers)
        /\ \A b \in Branches \ {branch} : chan'[b] = chan[b]
        /\ chan' \in [Branches -> Seq(Answers)]
    BY <2>1, <2>2
  <2>4. \A i \in 1..Len(chan'[branch]) :
           i + 1 \in 1..Len(chan[branch]) /\ chan'[branch][i] = chan[branch][i + 1]
    BY <2>1, <2>3
  <2>5. TypeOK'
    BY <2>1, <2>3 DEF TypeOK, table
  <2>6. NothingLeftBehind'
    BY <2>1, <2>3 DEF NothingLeftBehind, table
  <2>7. ToldInv' /\ OutcomeIsTrue'
    BY <2>1, <2>4 DEF ToldInv, OutcomeIsTrue
  <2> QED
    BY <2>5, <2>6, <2>7
<1>4. CASE ReadFinal
  BY <1>4, ReadFinalStep
<1>5. CASE NoSupportedChallenge
  <2>1. /\ pc = "answering" /\ pc' \in {"idle", "ended"}
        /\ UNCHANGED <<role, creds, branch, attempt, asked, result, cancelled, calm, table,
                       chan, net, peer, leaked>>
    BY <1>5 DEF NoSupportedChallenge, AfterExchange
  <2>2. TypeOK' /\ NothingLeftBehind'
    BY <2>1 DEF TypeOK, NothingLeftBehind, table
  <2>3. ToldInv' /\ OutcomeIsTrue'
    BY <2>1 DEF ToldInv, OutcomeIsTrue
  <2> QED
    BY <2>2, <2>3
<1>6. CASE Timeout
  BY <1>6, TimeoutStep
<1>7. CASE CancelInvite
  <2>1. /\ role = "invite" /\ pc = "waiting" /\ cancelled' = TRUE
        /\ net' = net \cup {Cancel(branch)}
        /\ UNCHANGED <<role, creds, pc, branch, attempt, asked, result>>
        /\ UNCHANGED <<calm, table, chan, peer, leaked>>
    BY <1>7 DEF CancelInvite
  <2>2. Cancel(branch) \in Dgrams /\ Cancel(branch).kind = "request"
    BY <2>1, DgramFacts DEF ToldInv, Cancel
  <2>3. TypeOK' /\ NothingLeftBehind'
    BY <2>1, <2>2 DEF TypeOK, NothingLeftBehind, table
  <2>4. ToldInv' /\ OutcomeIsTrue'
    BY <2>1, <2>2, KindFacts DEF ToldInv, OutcomeIsTrue
  <2> QED
    BY <2>3, <2>4
<1>8. CASE Weather
  BY <1>0, <1>8, QuietStep DEF Weather, table
<1>9. ASSUME NEW b \in Branches, Retransmit(b) PROVE ClientSafe'
  <2>1. Request(b) \in Dgrams /\ Request(b).kind = "request"
    BY DgramFacts DEF Request
  <2> QED
    BY <1>0, <1>9, <2>1, QuietStep DEF Retransmit, table
<1>10. ASSUME NEW b \in Branches, TimerStops(b) \/ TimerGivesUp(b) PROVE ClientSafe'
  BY <1>0, <1>10, QuietStep DEF TimerStops, TimerGivesUp
<1>11. ASSUME NEW b \in Branches, PeerHears(b) PROVE ClientSafe'
  <2>1. PICK r \in (IF peer[b] \in Finals THEN {peer[b]} ELSE PeerMaySay(b)) :
           /\ TakeAndSend(Request(b), {Response(r, b, role)})
           /\ peer' = [peer EXCEPT ![b] = r]
           /\ UNCHANGED <<user, calm, table, chan, leaked>>
    BY <1>11 DEF PeerHears
  <2>2. PeerMaySay(b) \subseteq Answers
    BY KindFacts DEF PeerMaySay, RegistrarSays, Finals, Refusals
  <2>3. r \in Answers /\ (peer[b] \in Finals => r = peer[b])
    BY <2>1, <2>2, KindFacts
  <2> DEFINE none == {}
  <2>4. /\ net' \subseteq net \cup {Response(r, b, role)} \cup none
        /\ none \subseteq Dgrams /\ \A m \in none : m.method = "cancel"
    BY <2>1 DEF TakeAndSend
  <2> HIDE DEF none
  <2> QED
    BY <2>1, <2>3, <2>4, PeerSpeaks
<1>12. ASSUME NEW b \in Branches, PeerHearsCancel(b) PROVE ClientSafe'
  <2> DEFINE r == IF peer[b] \in Finals THEN peer[b] ELSE "reject"
             ok == {Response("ok", b, "cancel")}
  <2>1. /\ net' \subseteq net \cup {Response(r, b, role)} \cup ok
        /\ peer' = [peer EXCEPT ![b] = r]
        /\ UNCHANGED <<user, calm, table, chan, leaked>>
    BY <1>12 DEF PeerHearsCancel, TakeAndSend
  <2>2. r \in Answers /\ (peer[b] \in Finals => r = peer[b])
    BY DEF Finals, Refusals, Answers
  <2>3. ok \subseteq Dgrams /\ \A m \in ok : m.method = "cancel"
    <3>1. "ok" \in Answers
      BY DEF Answers, Finals
    <3>2. Response("ok", b, "cancel") \in Dgrams
      BY <3>1, DgramFacts
    <3> QED
      BY <3>2 DEF Response
  <2> HIDE DEF r, ok
  <2> QED
    BY <2>1, <2>2, <2>3, PeerSpeaks
<1>13. ASSUME NEW m \in net, Deliver(m) PROVE ClientSafe'
  BY <1>13, DeliverStep
<1>14. ASSUME NEW m \in net, Lose(m) PROVE ClientSafe'
  BY <1>0, <1>14, QuietStep DEF Lose, table
<1>15. CASE UNCHANGED vars
  BY <1>0, <1>15, QuietStep DEF vars, table
<1> QED
  BY <1>1, <1>2, <1>3, <1>4, <1>5, <1>6, <1>7, <1>8, <1>9, <1>10, <1>11, <1>12, <1>13,
     <1>14, <1>15 DEF Next, Read

(***************************************************************************)
(* The inductive invariant holds of every behaviour.                       *)
(***************************************************************************)
THEOREM ClientSafeHolds == Spec => []ClientSafe
<1>1. Init => ClientSafe
  <2> SUFFICES ASSUME Init PROVE ClientSafe
    OBVIOUS
  <2>1. chan \in [Branches -> Seq(Answers)] /\ peer \in [Branches -> {"none"} \cup Answers]
    BY DEF Init
  <2>2. calm \in BOOLEAN /\ cancelled \in BOOLEAN
    BY Zenon DEF Init
  <2>3. creds \in BOOLEAN
    <3>1. CASE role = "register"
      BY <3>1 DEF Init
    <3>2. CASE role # "register"
      BY <3>2, Zenon DEF Init
    <3> QED
      BY <3>1, <3>2
  <2>4. TypeOK
    BY <2>1, <2>2, <2>3, BoundsAssumption DEF Init, TypeOK
  <2>5. NothingLeftBehind
    BY DEF Init, NothingLeftBehind
  <2>6. ToldInv /\ OutcomeIsTrue
    BY KindFacts DEF Init, ToldInv, OutcomeIsTrue
  <2> QED
    BY <2>4, <2>5, <2>6 DEF ClientSafe, ClientInv
<1> QED
  BY <1>1, ClientStep, PTL DEF Spec

(***************************************************************************)
(* A user never takes for the outcome what was said to another request:    *)
(* not to its CANCEL, not to the request before it answered a challenge,   *)
(* and not to an earlier attempt to register (on_response).                *)
(***************************************************************************)
THEOREM OutcomesAreTrue == Spec => []OutcomeIsTrue
BY ClientSafeHolds, PTL DEF ClientSafe

(***************************************************************************)
(* The table is well formed, and no entry, no task and no response of an   *)
(* exchange that is over is kept, but the entries of failed sends          *)
(* (ClientTxn::drop).                                                      *)
(***************************************************************************)
THEOREM NothingIsLeftBehind == Spec => []ClientInv
BY ClientSafeHolds, PTL DEF ClientSafe
=============================================================================
