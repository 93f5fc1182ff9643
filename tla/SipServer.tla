----------------------------- MODULE SipServer -----------------------------
(***************************************************************************)
(* The server side of the SIP core (sip/core.rs) over UDP: datagrams are   *)
(* lost, duplicated and reordered, a task is spawned for every request     *)
(* that arrives, and the core keeps a cache of server transactions so that *)
(* a copy is never executed twice, and a timer that repeats the 2xx of an  *)
(* INVITE until its ACK comes.                                             *)
(*                                                                         *)
(* The requests are those of one dialog: INVITEs, named by their sequence  *)
(* numbers, and Messages, any other method.  The handler behind the        *)
(* channel (gateway.rs) is abstracted to the responses it may produce.     *)
(***************************************************************************)
EXTENDS Naturals, FiniteSets

CONSTANTS
    LastCSeq,   \* bound: the sequence number of the last INVITE
    Messages,   \* requests of other methods
    MaxSent     \* bound: how many of them all are sent in one behaviour

Invites == 1..LastCSeq
Requests == Invites \cup Messages

ASSUME LastCSeqAssumption == LastCSeq \in Nat
ASSUME MessagesAssumption == Messages \cap Nat = {}
ASSUME MaxSentAssumption == MaxSent \in Nat

VARIABLES
    caller,     \* caller[t]: the client transaction of the other side
    net,        \* datagrams in flight
    cache,      \* server_cache
    handled,    \* handled[t]: how often a handler was started for t
    working,    \* requests whose handler has not produced its final response
    unsent,     \* requests whose final is cached but not sent yet
    repeating,  \* pending_ack: INVITEs whose 2xx is being repeated
    exhausted   \* INVITEs whose 2xx was repeated for 32 s without an ACK

vars == <<caller, net, cache, handled, working, unsent, repeating, exhausted>>

CallerStates == {"idle", "calling", "proceeding", "done", "gave_up"}
Finals == {"ok", "fail"}

\* What a handler may answer.  Only for an INVITE does it matter which it is.
Answers(t) == IF t \in Invites THEN Finals ELSE {"ok"}

Dgram(k, t) == [kind |-> k, txn |-> t]
Dgrams == [kind : {"request", "ack", "provisional"} \cup Finals, txn : Requests]

TypeOK ==
    /\ caller \in [Requests -> CallerStates]
    /\ net \in SUBSET Dgrams
    /\ cache \in [Requests -> {"absent", "in_progress", "provisional"} \cup Finals]
    /\ handled \in [Requests -> Nat]
    /\ working \in SUBSET Requests
    /\ unsent \in SUBSET Requests
    /\ repeating \in SUBSET Invites
    /\ exhausted \in SUBSET Invites

Init ==
    /\ caller = [t \in Requests |-> "idle"]
    /\ net = {}
    /\ cache = [t \in Requests |-> "absent"]
    /\ handled = [t \in Requests |-> 0]
    /\ working = {}
    /\ unsent = {}
    /\ repeating = {}
    /\ exhausted = {}

----------------------------------------------------------------------------
(* The network: a datagram that is taken may have been duplicated.         *)

Take(m) == m \in net /\ \E rest \in {net, net \ {m}} : net' = rest
TakeAndSend(m, new) == m \in net /\ \E rest \in {net, net \ {m}} : net' = rest \cup new

Lose ==
    /\ \E m \in net : net' = net \ {m}
    /\ UNCHANGED <<caller, cache, handled, working, unsent, repeating, exhausted>>

----------------------------------------------------------------------------
(* The caller: an RFC 3261 client transaction.                             *)

\* A re-INVITE waits for the end of the INVITE before it.
MaySend(t) == t \in Invites => \A u \in Invites : u < t => caller[u] = "done"

CallerSends(t) ==
    /\ caller[t] = "idle"
    /\ Cardinality({u \in Requests : caller[u] # "idle"}) < MaxSent
    /\ MaySend(t)
    /\ caller' = [caller EXCEPT ![t] = "calling"]
    /\ net' = net \cup {Dgram("request", t)}
    /\ UNCHANGED <<cache, handled, working, unsent, repeating, exhausted>>

CallerResends(t) ==
    /\ caller[t] = "calling"
    /\ net' = net \cup {Dgram("request", t)}
    /\ UNCHANGED <<caller, cache, handled, working, unsent, repeating, exhausted>>

\* Timer B or F.
CallerGivesUp(t) ==
    /\ caller[t] = "calling"
    /\ caller' = [caller EXCEPT ![t] = "gave_up"]
    /\ UNCHANGED <<net, cache, handled, working, unsent, repeating, exhausted>>

CallerHearsProvisional(t) ==
    /\ Take(Dgram("provisional", t))
    /\ caller' = [caller EXCEPT ![t] = IF @ = "calling" THEN "proceeding" ELSE @]
    /\ UNCHANGED <<cache, handled, working, unsent, repeating, exhausted>>

\* Every copy of the final response to an INVITE is acknowledged.
CallerHearsFinal(t, r) ==
    /\ TakeAndSend(Dgram(r, t), IF t \in Invites THEN {Dgram("ack", t)} ELSE {})
    /\ caller' = [caller EXCEPT ![t] = "done"]
    /\ UNCHANGED <<cache, handled, working, unsent, repeating, exhausted>>

----------------------------------------------------------------------------
(* The core.                                                               *)

\* Mutant: a transaction is only known once it has been answered.
ClaimAnsweredOnly(t) == cache[t] \notin Finals

\* claim_txn: the request is new, or its transaction is long forgotten.
Fresh(t) == cache[t] = "absent"

\* on_request, the first copy: claimed before any work starts.
StartHandler(t) ==
    /\ Fresh(t)
    /\ Take(Dgram("request", t))
    /\ cache' = [cache EXCEPT ![t] = "in_progress"]
    /\ handled' = [handled EXCEPT ![t] = @ + 1]
    /\ working' = working \cup {t}
    /\ UNCHANGED <<caller, unsent, repeating, exhausted>>

\* on_request, a retransmission: the cached response, if there is one.
Replay(t) ==
    /\ ~Fresh(t)
    /\ TakeAndSend(Dgram("request", t),
                   IF cache[t] = "in_progress" THEN {} ELSE {Dgram(cache[t], t)})
    /\ UNCHANGED <<caller, cache, handled, working, unsent, repeating, exhausted>>

\* respond with a provisional; only INVITEs get one.
RespondProvisional(t) ==
    /\ t \in working \cap Invites
    /\ cache' = [cache EXCEPT ![t] = IF @ = "in_progress" THEN "provisional" ELSE @]
    /\ net' = net \cup {Dgram("provisional", t)}
    /\ UNCHANGED <<caller, handled, working, unsent, repeating, exhausted>>

\* respond with a final, first half: the cache has it before the wire does.
RespondFinal(t, r) ==
    /\ t \in working
    /\ working' = working \ {t}
    /\ cache' = [cache EXCEPT ![t] = r]
    /\ unsent' = unsent \cup {t}
    /\ UNCHANGED <<caller, net, handled, repeating, exhausted>>

\* Mutant: the 2xx is sent once.
SendFinalOnce(t) ==
    /\ t \in unsent
    /\ unsent' = unsent \ {t}
    /\ net' = net \cup {Dgram(cache[t], t)}
    /\ UNCHANGED <<caller, cache, handled, working, repeating, exhausted>>

\* respond, second half: retransmit_until_acked for a 2xx to an INVITE, then
\* the datagram.
SendFinal(t) ==
    /\ t \in unsent
    /\ unsent' = unsent \ {t}
    /\ repeating' = IF t \in Invites /\ cache[t] = "ok" THEN repeating \cup {t} ELSE repeating
    /\ net' = net \cup {Dgram(cache[t], t)}
    /\ UNCHANGED <<caller, cache, handled, working, exhausted>>

\* The retransmission timer.
Repeat(t) ==
    /\ t \in repeating
    /\ net' = net \cup {Dgram("ok", t)}
    /\ UNCHANGED <<caller, cache, handled, working, unsent, repeating, exhausted>>

GiveUp(t) ==
    /\ t \in repeating
    /\ repeating' = repeating \ {t}
    /\ exhausted' = exhausted \cup {t}
    /\ UNCHANGED <<caller, net, cache, handled, working, unsent>>

\* Mutant: the ACK is matched to its INVITE by the Call-ID alone.
ConfirmedByCallId(t) == Invites

\* dialog_key: the answers an ACK confirms.
Confirmed(t) == {t}

\* Mutant: the ACK is only passed on.
ReceiveAckUnmatched(t) ==
    /\ Take(Dgram("ack", t))
    /\ UNCHANGED <<caller, cache, handled, working, unsent, repeating, exhausted>>

\* on_request for an ACK: it goes on to the gateway, which ignores it.
ReceiveAck(t) ==
    /\ Take(Dgram("ack", t))
    /\ repeating' = repeating \ Confirmed(t)
    /\ UNCHANGED <<caller, cache, handled, working, unsent, exhausted>>

\* A transaction is TXN_LIFETIME (32 s) old.  The network is assumed to hold
\* no copy that long, and a client transaction has stopped sending by then.
Expire(t) ==
    /\ cache[t] # "absent"
    /\ t \notin unsent
    /\ caller[t] # "calling"
    /\ Dgram("request", t) \notin net
    /\ cache' = [cache EXCEPT ![t] = "absent"]
    /\ UNCHANGED <<caller, net, handled, working, unsent, repeating, exhausted>>

----------------------------------------------------------------------------

ReceiveRequest(t) == StartHandler(t) \/ Replay(t)

Step(t) ==
    \/ CallerSends(t) \/ CallerResends(t) \/ CallerGivesUp(t)
    \/ CallerHearsProvisional(t) \/ \E r \in Finals : CallerHearsFinal(t, r)
    \/ ReceiveRequest(t)
    \/ RespondProvisional(t) \/ \E r \in Answers(t) : RespondFinal(t, r)
    \/ SendFinal(t)
    \/ Repeat(t) \/ GiveUp(t)
    \/ ReceiveAck(t)
    \/ Expire(t)

Next == Lose \/ \E t \in Requests : Step(t)

Spec == Init /\ [][Next]_vars

----------------------------------------------------------------------------
(* Safety.                                                                 *)

(***************************************************************************)
(* "a retransmitted request is never executed twice" (ServerTxn): whatever *)
(* copies the network makes, and however long a handler takes, one handler *)
(* runs for a request.  A MESSAGE that runs twice sends its SMS twice.     *)
(***************************************************************************)
HandledOnce == \A t \in Requests : handled[t] <= 1

(***************************************************************************)
(* The 2xx that answers an INVITE is not lost: while its caller waits,     *)
(* somebody still sends - the caller its INVITE, the core its 2xx - until  *)
(* the 32 s are over.  An ACK that is late, or meant for another answer of *)
(* the dialog, does not end that (retransmit_until_acked, dialog_key).     *)
(***************************************************************************)
AnswerIsRepeated ==
    \A t \in Invites :
        cache[t] = "ok" /\ caller[t] \in {"calling", "proceeding"} =>
            caller[t] = "calling" \/ t \in unsent \cup repeating \cup exhausted

(***************************************************************************)
(* The core gives the service of AtMostOnce: seen from the two ends, the   *)
(* cache, the copies on the wire and the forgetting of old transactions do *)
(* not show (claim_txn, on_request, respond).                              *)
(***************************************************************************)
Service == INSTANCE AtMostOnce WITH
    asked <- {t \in Requests : caller[t] # "idle"},
    executions <- handled,
    running <- working,
    learned <- {t \in Requests : caller[t] = "done"}

ImplementsService == Service!Spec

----------------------------------------------------------------------------
(* The inductive strengthening (proved in SipServerProofs).                *)

\* What is about to be sent is a final response.
UnsentInv == \A t \in unsent : cache[t] \in Finals

\* The cache forgets a request only when no copy of it can come any more.
OnceInv ==
    \A t \in Requests :
        /\ handled[t] <= 1
        /\ cache[t] # "absent" \/ t \in working => handled[t] = 1
        /\ caller[t] = "idle" => handled[t] = 0 /\ Dgram("request", t) \notin net
        /\ cache[t] = "absent" /\ handled[t] = 1 =>
             caller[t] \notin {"idle", "calling"} /\ Dgram("request", t) \notin net

\* There is an answer somewhere only once the handler has ended.
Answered(t) ==
    \/ cache[t] \in Finals
    \/ t \in unsent \cup repeating
    \/ \E r \in Finals : Dgram(r, t) \in net
    \/ caller[t] = "done"

EndedInv == \A t \in Requests : Answered(t) => handled[t] = 1 /\ t \notin working

\* An ACK proves that its caller has an answer; until then a 2xx is repeated.
AnswerInv ==
    \A t \in Invites :
        /\ Dgram("ack", t) \in net => caller[t] = "done"
        /\ cache[t] = "ok" /\ caller[t] # "done" => t \in unsent \cup repeating \cup exhausted

----------------------------------------------------------------------------
(* Liveness.                                                               *)

(***************************************************************************)
(* The spawned tasks and the timers run; a datagram that is sent again and *)
(* again arrives in the end.  Nothing makes a handler answer, and nothing  *)
(* makes anyone give up.                                                   *)
(***************************************************************************)
Fairness ==
    /\ \A t \in Requests :
         /\ WF_vars(SendFinal(t))
         /\ WF_vars(CallerResends(t))
         /\ SF_vars(ReceiveRequest(t))
         /\ SF_vars(\E r \in Finals : CallerHearsFinal(t, r))
    /\ \A t \in Invites : WF_vars(Repeat(t)) /\ SF_vars(ReceiveAck(t))

FairSpec == Spec /\ Fairness

\* A caller whose INVITE the gateway has accepted hears of it, or one of the
\* two 32 s timers runs out; then nothing repeats the answer any more, even when
\* the ACK overtook the registration of the answer it confirms (on_request).
AnswerArrives ==
    \A t \in Invites :
        cache[t] = "ok" ~> /\ caller[t] \in {"done", "gave_up"} \/ t \in exhausted
                           /\ t \notin unsent \cup repeating

\* A request of another method that has been answered is answered in the
\* caller's eyes too, as long as it keeps asking.
ReplyArrives ==
    \A t \in Messages : cache[t] \in Finals /\ caller[t] = "calling" ~> caller[t] # "calling"

(***************************************************************************)
(* The answer gets through any finite loss: the 2xx of an INVITE because   *)
(* the core repeats it until it hears the ACK, and no longer               *)
(* (retransmit_until_acked), any answer to another method because the core *)
(* repeats it when asked again (claim_txn).                                *)
(***************************************************************************)
AnswersArrive == AnswerArrives /\ ReplyArrives
=============================================================================
