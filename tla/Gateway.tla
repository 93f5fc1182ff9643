------------------------------ MODULE Gateway ------------------------------
(***************************************************************************)
(* The gateway's event loop (gateway.rs): one modem, one SIP endpoint, one *)
(* call at a time.  Every handler of the loop is one action; it takes the  *)
(* head of one of the three channels the loop selects over, and does       *)
(* everything the handler does before the loop comes round again.          *)
(*                                                                         *)
(* The SIP peers are the environment.  A dialog is named by its Call-ID:   *)
(* SipIds are the ones a SIP caller opens (role FromSip), OutIds the ones  *)
(* the gateway opens for a call from the mobile network (role ToSip).      *)
(* What the gateway sends takes effect on the peer at once; what a peer    *)
(* sends waits in a channel, so the two directions still cross.  Loss and  *)
(* retransmission are SipServer's subject.                                  *)
(***************************************************************************)
EXTENDS ModemLink

CONSTANTS
    SipIds,     \* Call-IDs of INVITEs from SIP callers
    OutIds,     \* Call-IDs of INVITEs the gateway sends
    NoCall,     \* the gateway's `call` when it is None
    EarlyMedia, \* cfg.sip.early_media
    Credentials,\* cfg.sip.register is set
    Env         \* which rarer events of the environment may happen:
                \* "reuse": ModemManager gives a new call the path of one
                \*   the gateway still has events of;
                \* "stop": the process is asked to shut down;
                \* "crash": the process dies and is started again;
                \* "copies": a second copy of an INVITE gets past the
                \*   transaction layer (a fork, or a very late duplicate)

Dialogs == SipIds \cup OutIds

ActiveCall ==
    [role : {"FromSip", "ToSip"}, leg : Legs, id : Dialogs,
     answered : BOOLEAN, ringing_sent : BOOLEAN, early_media : BOOLEAN,
     media : BOOLEAN, listening : BOOLEAN, auth_retried : BOOLEAN]

ASSUME DialogsAssumption == SipIds \cap OutIds = {}
ASSUME NoCallAssumption == NoCall \notin ActiveCall
ASSUME SwitchAssumption ==
    /\ EarlyMedia \in BOOLEAN
    /\ Credentials \in BOOLEAN
    /\ Env \subseteq {"reuse", "stop", "crash", "copies"}

VARIABLES
    running,    \* the process is up
    modem,      \* Gateway.modem is Some
    call,       \* Gateway.call
    tasks,      \* dialogs whose invite_response_task is running
    cdr,        \* cdr[d]: the row of the calls table for d
    peer,       \* peer[d]: the dialog as the SIP peer sees it
    spurious,   \* callers sent a response after their final one
    sipQ,       \* the SipEvent channel
    internalQ   \* the Internal channel

gwVars == <<running, modem, call, tasks, cdr, peer, spurious, sipQ, internalQ>>
vars == <<linkVars, gwVars>>

\* A caller is inviting, has had a provisional (proceeding), has sent a BYE
\* before any final response (leaving) and had an answer to that BYE but none to
\* its INVITE (unanswered), or has its final response.  A callee has been
\* invited, has sent a 2xx (answered), a non-2xx (refused) or a digest challenge
\* (challenged), and learns of the ACK (connected, rejected).
PeerStates == {"idle", "inviting", "proceeding", "leaving", "unanswered",
               "invited", "answered", "refused", "challenged", "rejected",
               "connected", "ended"}

SipRequests == [m : {"INVITE", "CANCEL", "BYE"}, id : Dialogs]
Internals == [ev : {"SipAnswered", "SipFailed", "RingTimeout", "EarlyMediaAudio"},
              id : Dialogs]

TypeOK ==
    /\ LinkTypeOK
    /\ running \in BOOLEAN
    /\ modem \in BOOLEAN
    /\ call \in ActiveCall \cup {NoCall}
    /\ tasks \in SUBSET Dialogs
    /\ cdr \in [Dialogs -> {"none", "open", "answered", "missed", "completed"}]
    /\ peer \in [Dialogs -> PeerStates]
    /\ spurious \in SUBSET Dialogs
    /\ sipQ \in Seq(SipRequests)
    /\ internalQ \in Seq(Internals)

Init ==
    /\ LinkInit
    /\ running = TRUE
    /\ modem = FALSE
    /\ call = NoCall
    /\ tasks = {}
    /\ cdr = [d \in Dialogs |-> "none"]
    /\ peer = [d \in Dialogs |-> "idle"]
    /\ spurious = {}
    /\ sipQ = << >>
    /\ internalQ = << >>

----------------------------------------------------------------------------
(* Helpers of the handlers.                                                *)

Busy == call # NoCall

\* Mutant: every event of the modem is taken for one of the call.
OnPathAny(l) == Busy

OnPath(l) == Busy /\ call.leg = l
call_id_matches(d) == Busy /\ call.id = d

\* Is event e waiting in queue q?
In(e, q) == \E i \in 1..Len(q) : q[i] = e

NewCall(role, l, d) ==
    [role |-> role, leg |-> l, id |-> d, answered |-> FALSE,
     ringing_sent |-> FALSE, early_media |-> FALSE, media |-> FALSE,
     listening |-> FALSE, auth_retried |-> FALSE]

Pop(q) == q' = Tail(q)
NextRequest(m, d) == running /\ sipQ # << >> /\ Head(sipQ) = [m |-> m, id |-> d]
NextInternal(e, d) == running /\ internalQ # << >> /\ Head(internalQ) = [ev |-> e, id |-> d]
NextModem(e) == running /\ modemQ # << >> /\ Head(modemQ) = e

SetPeer(d, s) == peer' = [peer EXCEPT ![d] = s] /\ UNCHANGED spurious

\* A caller that still waits for the final response to its INVITE.
Waiting(d) == peer[d] \in {"inviting", "proceeding", "leaving"}

\* A final response to caller d's INVITE, and a provisional one.
Final(d, s) ==
    /\ peer' = IF Waiting(d) THEN [peer EXCEPT ![d] = s] ELSE peer
    /\ spurious' = IF Waiting(d) THEN spurious ELSE spurious \cup {d}

Provisional(d) ==
    /\ spurious' = IF Waiting(d) THEN spurious ELSE spurious \cup {d}
    /\ UNCHANGED peer

\* The gateway's BYE ends a dialog that exists.
Ends(d) == SetPeer(d, IF peer[d] = "connected" THEN "ended" ELSE peer[d])

\* The answer to a peer's BYE.  It is all that a caller which leaves an early
\* dialog is sent: nothing answers the INVITE.
AnswerBye(d) ==
    SetPeer(d, CASE peer[d] = "connected" -> "ended"
                 [] peer[d] = "leaving" -> "unanswered"
                 [] OTHER -> peer[d])

\* A path ModemManager may give a new call.
Unused(l) ==
    /\ leg[l] = "none"
    /\ \/ "reuse" \in Env
       \/ /\ ~OnPath(l)
          /\ l \notin announced
          /\ sub[l] = "off"
          /\ \A i \in 1..Len(modemQ) : modemQ[i].leg # l

\* Mutant: the call is taken but its CDR stays open.
finish_callCdrLeftOpen ==
    /\ call' = NoCall
    /\ tasks' = tasks \ {call.id}
    /\ UNCHANGED cdr

(***************************************************************************)
(* finish_call: the call is taken, its media stopped, its tasks aborted    *)
(* and its CDR closed.                                                     *)
(***************************************************************************)
finish_call ==
    /\ call' = NoCall
    /\ tasks' = tasks \ {call.id}
    /\ cdr' = [cdr EXCEPT ![call.id] = IF @ = "answered" THEN "completed" ELSE "missed"]

\* Mutant: the INVITE is abandoned without a CANCEL.
cancel_outgoing_inviteDropped(d) == UNCHANGED <<peer, spurious>>

\* What a CANCEL does to the peer: nothing once it has sent its final
\* response.  The 487 it provokes answers the INVITE and wants an ACK.
cancel_outgoing_invite(d) ==
    SetPeer(d, IF peer[d] = "invited" /\ call.role = "ToSip" /\ ~call.answered
                 THEN "refused" ELSE peer[d])

\* The BYE of an answered call, the failure code an unanswered caller is
\* still owed, or the CANCEL of our own INVITE.
EndSipSide ==
    IF call.answered THEN Ends(call.id)
    ELSE IF call.role = "FromSip" THEN Final(call.id, "rejected")
    ELSE cancel_outgoing_invite(call.id)

\* hangup, skipped when the gateway has no modem handle.
HangupLeg(l, q) ==
    IF modem THEN Hangup(l, q)
             ELSE modemQ' = q /\ UNCHANGED <<leg, dir, present, session, announced, sub>>

teardown_call(q) ==
    /\ EndSipSide
    /\ HangupLeg(call.leg, q)
    /\ finish_call

----------------------------------------------------------------------------
(* Modem events.                                                           *)

OnUp ==
    /\ NextModem(Up)
    /\ Pop(modemQ)
    /\ modem' = TRUE
    /\ UNCHANGED <<leg, dir, present, session, announced, sub, running, call,
                   tasks, cdr, peer, spurious, sipQ, internalQ>>

\* The handle goes first, so the teardown cannot hang the leg up.
OnDown ==
    /\ NextModem(Down)
    /\ Pop(modemQ)
    /\ modem' = FALSE
    /\ IF Busy THEN EndSipSide /\ finish_call ELSE UNCHANGED <<call, tasks, cdr, peer, spurious>>
    /\ UNCHANGED <<leg, dir, present, session, announced, sub, running, sipQ, internalQ>>

\* on_mm_call_added, the paths that do nothing: no modem, our own call, or
\* an object that cannot be read.
CallAddedIgnored(l) ==
    /\ ~modem \/ OnPath(l) \/ leg[l] = "none" \/ ~present
    /\ Pop(modemQ)
    /\ UNCHANGED <<leg, dir, present, session, announced, sub, running, modem, call,
                   tasks, cdr, peer, spurious, sipQ, internalQ>>

CallAddedReadable(l) == modem /\ ~OnPath(l) /\ leg[l] # "none" /\ present

\* A call that has already ended.
CallAddedEnded(l) ==
    /\ CallAddedReadable(l)
    /\ leg[l] = "terminated"
    /\ DeleteCall(l, Tail(modemQ))
    /\ UNCHANGED gwVars

\* Mutant: the call is refused by ignoring it.
CallAddedNotHungUp(l) ==
    /\ CallAddedReadable(l)
    /\ Pop(modemQ)
    /\ UNCHANGED <<leg, dir, present, session, announced, sub, gwVars>>

\* A call left over from an earlier run, one that finds the gateway busy, or
\* one that cannot be offered to SIP: no target, no RTP port, no socket.
CallAddedHungUp(l) ==
    /\ CallAddedReadable(l)
    /\ leg[l] # "terminated"
    /\ Hangup(l, Tail(modemQ))
    /\ UNCHANGED gwVars

\* start_sip_call: INVITE sent, CDR opened, response task running.
CallAddedOffered(l) ==
    /\ CallAddedReadable(l)
    /\ leg[l] # "terminated"
    /\ dir[l] = "in"
    /\ ~Busy
    /\ \E d \in OutIds :
         /\ peer[d] = "idle"
         /\ SetPeer(d, "invited")
         /\ call' = NewCall("ToSip", l, d)
         /\ tasks' = tasks \cup {d}
         /\ cdr' = [cdr EXCEPT ![d] = "open"]
    /\ Pop(modemQ)
    /\ UNCHANGED <<leg, dir, present, session, announced, sub, running, modem,
                   sipQ, internalQ>>

OnCallAdded(l) ==
    /\ NextModem(CallAdded(l))
    /\ \/ CallAddedIgnored(l)
       \/ CallAddedEnded(l)
       \/ CallAddedHungUp(l)
       \/ CallAddedOffered(l)

\* Events of a path that is not the call's are dropped.
ForeignEvent(l) ==
    /\ ~OnPath(l)
    /\ Pop(modemQ)
    /\ UNCHANGED <<leg, dir, present, session, announced, sub, gwVars>>

OnCallDeleted(l) ==
    /\ NextModem(CallDeleted(l))
    /\ \/ ForeignEvent(l)
       \/ /\ OnPath(l)
          /\ teardown_call(Tail(modemQ))
          /\ UNCHANGED <<running, modem, sipQ, internalQ>>

\* CallState RINGING_OUT or DIALING: tell the caller, opening the audio path
\* first when early media is wanted; a path that will not open means a 180.
Alerting(l) ==
    /\ IF call.role = "FromSip" /\ ~call.ringing_sent
         THEN /\ Provisional(call.id)
              /\ \/ call' = [call EXCEPT !.ringing_sent = TRUE]
                 \/ /\ EarlyMedia /\ modem
                    /\ call' = [call EXCEPT !.ringing_sent = TRUE, !.media = TRUE,
                                           !.listening = TRUE]
         ELSE UNCHANGED <<call, peer, spurious>>
    /\ Pop(modemQ)
    /\ UNCHANGED <<leg, dir, present, session, announced, sub, running, modem,
                   tasks, cdr, sipQ, internalQ>>

\* CallState ACTIVE: on_modem_answered.  A caller is answered with a 200 once
\* the media is up; for a call we offered only the flag and the CDR change.
ModemAnswered(l) ==
    /\ ~call.answered
    /\ \/ /\ call.role = "FromSip"
          /\ call.media \/ modem
          /\ Final(call.id, "connected")
          /\ call' = [call EXCEPT !.answered = TRUE, !.media = TRUE]
       \/ /\ call.role = "ToSip"
          /\ call' = [call EXCEPT !.answered = TRUE]
          /\ UNCHANGED <<peer, spurious>>
    /\ cdr' = [cdr EXCEPT ![call.id] = "answered"]
    /\ Pop(modemQ)
    /\ UNCHANGED <<leg, dir, present, session, announced, sub, running, modem,
                   tasks, sipQ, internalQ>>

\* Mutant: the error is only logged by the loop; the caller hears nothing.
ModemAnswerFailsSilently(l) ==
    /\ ~call.answered
    /\ call.role = "FromSip"
    /\ ~call.media
    /\ HangupLeg(call.leg, Tail(modemQ))
    /\ finish_call
    /\ UNCHANGED <<running, modem, peer, spurious, sipQ, internalQ>>

\* CallState ACTIVE, but the sound card will not open.
ModemAnswerFails(l) ==
    /\ ~call.answered
    /\ call.role = "FromSip"
    /\ ~call.media
    /\ teardown_call(Tail(modemQ))
    /\ UNCHANGED <<running, modem, sipQ, internalQ>>

ModemAnsweredAlready(l) ==
    /\ call.answered
    /\ Pop(modemQ)
    /\ UNCHANGED <<leg, dir, present, session, announced, sub, gwVars>>

on_mm_call_state(l, s) ==
    /\ NextModem(CallState(l, s))
    /\ \/ ForeignEvent(l)
       \/ /\ OnPath(l)
          /\ \/ s \in {"dialing", "ringing_out"} /\ Alerting(l)
             \/ /\ s = "active"
                /\ ModemAnswered(l) \/ ModemAnswerFails(l) \/ ModemAnsweredAlready(l)
             \/ /\ s = "terminated"
                /\ teardown_call(Tail(modemQ))
                /\ UNCHANGED <<running, modem, sipQ, internalQ>>

----------------------------------------------------------------------------
(* SIP requests.                                                           *)

\* on_sip_invite, another copy of the INVITE of the call: before the answer
\* the provisional is repeated (a 180 counts as sent), afterwards it is 491.
InviteAgain(d) ==
    /\ call_id_matches(d)
    /\ IF call.answered
         THEN Final(d, "rejected") /\ UNCHANGED call
         ELSE /\ Provisional(d)
              /\ call' = [call EXCEPT !.ringing_sent = @ \/ ~call.early_media]
    /\ UNCHANGED <<linkVars, running, modem, tasks, cdr, internalQ>>

\* 486, 503, 484, 488 or 400 before anything is set up, 500 when no RTP port
\* is free.
InviteRefused(d) ==
    /\ ~call_id_matches(d)
    /\ Final(d, "rejected")
    /\ UNCHANGED <<linkVars, running, modem, call, tasks, cdr, internalQ>>

\* 100 Trying, an RTP port, and a modem that will not dial: 503.
InviteDialFails(d) ==
    /\ ~Busy
    /\ modem
    /\ \E l \in Legs : DialErr(l)
    /\ Final(d, "rejected")
    /\ UNCHANGED <<running, modem, call, tasks, cdr, internalQ>>

\* 100 Trying, an RTP port, and the call is on its way.
InviteDials(d) ==
    /\ ~Busy
    /\ modem
    /\ \E l \in Legs :
         /\ Unused(l)
         /\ DialOk(l)
         /\ call' = NewCall("FromSip", l, d)
    /\ IF peer[d] = "inviting" THEN SetPeer(d, "proceeding") ELSE Provisional(d)
    /\ cdr' = [cdr EXCEPT ![d] = "open"]
    /\ UNCHANGED <<running, modem, tasks, internalQ>>

on_sip_invite(d) ==
    /\ NextRequest("INVITE", d)
    /\ Pop(sipQ)
    /\ \/ InviteAgain(d)
       \/ InviteRefused(d)
       \/ InviteDials(d)
       \/ InviteDialFails(d)

\* on_sip_bye: 200 and the end of the call, or 481.
on_sip_bye(d) ==
    /\ NextRequest("BYE", d)
    /\ Pop(sipQ)
    /\ AnswerBye(d)
    /\ IF call_id_matches(d)
         THEN HangupLeg(call.leg, modemQ) /\ finish_call
         ELSE UNCHANGED <<linkVars, call, tasks, cdr>>
    /\ UNCHANGED <<running, modem, internalQ>>

\* Mutant: a late CANCEL ends a connected call.
CancelMatchesLate(d) == call_id_matches(d) /\ call.role = "FromSip"

\* on_sip_cancel: it ends the call only while our caller's INVITE is pending.
CancelMatches(d) == call_id_matches(d) /\ call.role = "FromSip" /\ ~call.answered

on_sip_cancel(d) ==
    /\ NextRequest("CANCEL", d)
    /\ Pop(sipQ)
    /\ IF CancelMatches(d)
         THEN /\ Final(d, "rejected")
              /\ HangupLeg(call.leg, modemQ)
              /\ finish_call
         ELSE UNCHANGED <<linkVars, call, tasks, cdr, peer, spurious>>
    /\ UNCHANGED <<running, modem, internalQ>>

----------------------------------------------------------------------------
(* Internal events.                                                        *)

\* An event that names a call the gateway no longer has.
StaleInternal(d) ==
    /\ ~call_id_matches(d)
    /\ Pop(internalQ)
    /\ UNCHANGED <<linkVars, running, modem, call, tasks, cdr, peer, spurious, sipQ>>

\* on_sip_answered: ACK, then `answered`, then media, then Accept.
SipAnswerConnects(d) ==
    /\ modem
    /\ AcceptOk(call.leg, modemQ)
    /\ SetPeer(d, "connected")
    /\ call' = [call EXCEPT !.answered = TRUE, !.media = TRUE]
    /\ cdr' = [cdr EXCEPT ![d] = "answered"]
    /\ UNCHANGED <<running, modem, tasks, sipQ>>

\* Mutant: `answered` is still false, so the teardown sends a useless CANCEL
\* to a peer that is connected.
SipAnswerFailsWithCancel(d) ==
    /\ SetPeer(d, "connected")
    /\ HangupLeg(call.leg, modemQ)
    /\ finish_call
    /\ UNCHANGED <<running, modem, sipQ>>

\* After the ACK: no SDP in the answer, no media, or Accept is refused.  The
\* dialog exists, so it is ended with a BYE.
SipAnswerFails(d) ==
    /\ SetPeer(d, "ended")
    /\ HangupLeg(call.leg, modemQ)
    /\ finish_call
    /\ UNCHANGED <<running, modem, sipQ>>

OnSipAnswered(d) ==
    /\ NextInternal("SipAnswered", d)
    /\ \/ StaleInternal(d)
       \/ /\ call_id_matches(d)
          /\ Pop(internalQ)
          /\ SipAnswerConnects(d) \/ SipAnswerFails(d)

\* retry_invite_with_auth: once, with credentials, in a new transaction.
CanRetry(d) ==
    /\ peer[d] = "challenged"
    /\ Credentials
    /\ ~call.answered
    /\ ~call.auth_retried

RetryWithAuth(d) ==
    /\ CanRetry(d)
    /\ SetPeer(d, "invited")
    /\ call' = [call EXCEPT !.auth_retried = TRUE]
    /\ tasks' = tasks \cup {d}
    /\ UNCHANGED <<linkVars, running, modem, cdr, sipQ>>

\* ack_failure and the end of the call; a challenge that cannot be parsed or
\* a socket error on the retry comes here too.
SipRejected(d) ==
    /\ SetPeer(d, "rejected")
    /\ HangupLeg(call.leg, modemQ)
    /\ finish_call
    /\ UNCHANGED <<running, modem, sipQ>>

OnSipFailed(d) ==
    /\ NextInternal("SipFailed", d)
    /\ \/ StaleInternal(d)
       \/ /\ call_id_matches(d)
          /\ Pop(internalQ)
          /\ RetryWithAuth(d) \/ SipRejected(d)

\* Mutant: the timeout is only logged.
OnRingTimeoutLogged(d) ==
    /\ NextInternal("RingTimeout", d)
    /\ Pop(internalQ)
    /\ UNCHANGED <<linkVars, running, modem, call, tasks, cdr, peer, spurious, sipQ>>

OnRingTimeout(d) ==
    /\ NextInternal("RingTimeout", d)
    /\ \/ StaleInternal(d)
       \/ /\ call_id_matches(d)
          /\ Pop(internalQ)
          /\ cancel_outgoing_invite(d)
          /\ HangupLeg(call.leg, modemQ)
          /\ finish_call
          /\ UNCHANGED <<running, modem, sipQ>>

\* upgrade_to_early_media: the 183 goes out once, and never after an answer.
OnEarlyMediaAudio(d) ==
    /\ NextInternal("EarlyMediaAudio", d)
    /\ Pop(internalQ)
    /\ IF call_id_matches(d) /\ ~call.early_media /\ ~call.answered
         THEN Provisional(d) /\ call' = [call EXCEPT !.early_media = TRUE]
         ELSE UNCHANGED <<call, peer, spurious>>
    /\ UNCHANGED <<linkVars, running, modem, tasks, cdr, sipQ>>

----------------------------------------------------------------------------
(* Timers, tasks, shutdown and restart.                                    *)

\* check_media: the audio threads have given up, or the peer is silent.
check_media ==
    /\ running
    /\ Busy
    /\ call.media
    /\ teardown_call(modemQ)
    /\ UNCHANGED <<running, modem, sipQ, internalQ>>

\* watch_for_early_media hears the network, reports it and ends.
HearAudio ==
    /\ running
    /\ Busy
    /\ call.listening
    /\ call' = [call EXCEPT !.listening = FALSE]
    /\ internalQ' = Append(internalQ, [ev |-> "EarlyMediaAudio", id |-> call.id])
    /\ UNCHANGED <<linkVars, running, modem, tasks, cdr, peer, spurious, sipQ>>

\* invite_response_task gives up on the peer; its transaction goes with it.
RingTimeout(d) ==
    /\ running
    /\ d \in tasks
    /\ tasks' = tasks \ {d}
    /\ internalQ' = Append(internalQ, [ev |-> "RingTimeout", id |-> d])
    /\ UNCHANGED <<linkVars, running, modem, call, cdr, peer, spurious, sipQ>>

Shutdown ==
    /\ running
    /\ "stop" \in Env
    /\ running' = FALSE
    /\ IF Busy THEN teardown_call(modemQ)
               ELSE UNCHANGED <<linkVars, call, tasks, cdr, peer, spurious>>
    /\ UNCHANGED <<modem, sipQ, internalQ>>

\* A new process, after a shutdown or a crash: nothing is carried over.
Restart ==
    /\ ~running \/ "crash" \in Env
    /\ running' = TRUE
    /\ modem' = FALSE
    /\ call' = NoCall
    /\ tasks' = {}
    /\ sipQ' = << >>
    /\ internalQ' = << >>
    /\ LinkRestart
    /\ UNCHANGED <<cdr, peer, spurious>>

----------------------------------------------------------------------------
(* The SIP peers.                                                          *)

Send(m, d) == sipQ' = Append(sipQ, [m |-> m, id |-> d])
Sending(d) == \E i \in 1..Len(sipQ) : sipQ[i].id = d
Quiet == <<linkVars, running, modem, call, tasks, cdr, internalQ>>

CallerInvites(d) ==
    /\ running
    /\ peer[d] = "idle"
    /\ d \in SipIds
    /\ SetPeer(d, "inviting")
    /\ Send("INVITE", d)
    /\ UNCHANGED Quiet

CallerCopy(d) ==
    /\ "copies" \in Env
    /\ d \in SipIds
    /\ peer[d] = "proceeding"
    /\ ~Sending(d)
    /\ Send("INVITE", d)
    /\ UNCHANGED <<Quiet, peer, spurious>>

CallerCancels(d) ==
    /\ d \in SipIds
    /\ peer[d] = "proceeding"
    /\ ~Sending(d)
    /\ Send("CANCEL", d)
    /\ UNCHANGED <<Quiet, peer, spurious>>

\* A caller that has seen a tagged provisional may leave with a BYE.
CallerLeaves(d) ==
    /\ d \in SipIds
    /\ peer[d] = "proceeding"
    /\ call_id_matches(d) /\ call.ringing_sent
    /\ ~Sending(d)
    /\ SetPeer(d, "leaving")
    /\ Send("BYE", d)
    /\ UNCHANGED Quiet

PeerHangsUp(d) ==
    /\ peer[d] = "connected"
    /\ ~Sending(d)
    /\ Send("BYE", d)
    /\ UNCHANGED <<Quiet, peer, spurious>>

\* A callee's final response reaches the gateway through the response task,
\* or nobody when the task is gone.
CalleeResponds(d, s, e) ==
    /\ peer[d] = "invited"
    /\ SetPeer(d, s)
    /\ IF d \in tasks
         THEN /\ tasks' = tasks \ {d}
              /\ internalQ' = Append(internalQ, [ev |-> e, id |-> d])
         ELSE UNCHANGED <<tasks, internalQ>>
    /\ UNCHANGED <<linkVars, running, modem, call, cdr, sipQ>>

CalleeAnswers(d) == CalleeResponds(d, "answered", "SipAnswered")
CalleeRefuses(d) == CalleeResponds(d, "refused", "SipFailed")
CalleeChallenges(d) == CalleeResponds(d, "challenged", "SipFailed")

----------------------------------------------------------------------------

Network(l) ==
    /\ running
    /\ \/ Unused(l) /\ NetIncoming(l)
       \/ LinkStep(l)
    /\ UNCHANGED gwVars

Watcher == running /\ LinkSession /\ UNCHANGED gwVars

ModemEvent ==
    \/ OnUp
    \/ OnDown
    \/ \E l \in Legs : OnCallAdded(l) \/ OnCallDeleted(l)
                       \/ \E s \in LegStates : on_mm_call_state(l, s)

SipRequest == \E d \in Dialogs : on_sip_invite(d) \/ on_sip_bye(d) \/ on_sip_cancel(d)

InternalEvent ==
    \E d \in Dialogs : OnSipAnswered(d) \/ OnSipFailed(d) \/ OnRingTimeout(d)
                       \/ OnEarlyMediaAudio(d)

Peer(d) ==
    \/ CallerInvites(d) \/ CallerCopy(d) \/ CallerCancels(d) \/ CallerLeaves(d)
    \/ PeerHangsUp(d)
    \/ CalleeAnswers(d) \/ CalleeRefuses(d) \/ CalleeChallenges(d)
    \/ RingTimeout(d)

Next ==
    \/ ModemEvent
    \/ SipRequest
    \/ InternalEvent
    \/ check_media
    \/ HearAudio
    \/ Shutdown
    \/ Restart
    \/ Watcher
    \/ \E l \in Legs : Network(l)
    \/ \E d \in Dialogs : Peer(d)

Spec == Init /\ [][Next]_vars

----------------------------------------------------------------------------
(* Safety.                                                                 *)

\* The gateway will be told of leg l, again or for the first time.
WillBeTold(l) ==
    \/ session # "supervising"
    \/ l \in announced
    \/ In(CallAdded(l), modemQ)

(***************************************************************************)
(* No mobile leg is stranded: every call alive on the mobile network is    *)
(* the one the gateway bridges, or one it is still going to be told of (by *)
(* a signal, a queued CallAdded or the listing of the next session) and    *)
(* will then hang up or offer.  This is what run's shutdown arm, the       *)
(* hangups of every early return and the adoption in supervise are for.    *)
(***************************************************************************)
NoStrandedLeg == \A l \in Legs : Live(l) => OnPath(l) \/ WillBeTold(l)

(***************************************************************************)
(* No SIP dialog is forgotten: a peer that is in a confirmed dialog is the *)
(* one of the answered call in progress, so a BYE is still owed to it and  *)
(* its own BYE would still find the call (teardown_call, on_sip_answered). *)
(***************************************************************************)
NoForgottenDialog ==
    \A d \in Dialogs : peer[d] = "connected" => call_id_matches(d) /\ call.answered

(***************************************************************************)
(* "from the 100 Trying on, the caller [...] waits for us, so every path   *)
(* out of here owes it a final response" (on_sip_invite): a caller that    *)
(* had its 100 Trying and no final response has a call in the gateway      *)
(* whose INVITE is still unanswered.  The one path that breaks the promise *)
(* is on_sip_bye: a caller that ends its early dialog with a BYE gets the  *)
(* 200 to that, the call is finished, and its INVITE stays unanswered for  *)
(* ever (unanswered).  Nobody else loses the final response (on_sip_invite,*)
(* teardown_call, on_sip_cancel), not even while such a BYE is on its way. *)
(***************************************************************************)
TryingIsPending ==
    \A d \in SipIds : peer[d] \in {"proceeding", "leaving"} =>
        call_id_matches(d) /\ call.role = "FromSip" /\ ~call.answered

(***************************************************************************)
(* No caller gets a response to its INVITE after the final one: no 180 or  *)
(* 183 after the 200, no 487 from a CANCEL that crossed the answer, no     *)
(* second final (on_sip_cancel, upgrade_to_early_media).                   *)
(***************************************************************************)
NoResponseAfterFinal == spurious = {}

(***************************************************************************)
(* A SIP side that believes in a connected call is never bridged to a leg  *)
(* that is still being set up: no event of another leg, queued before this *)
(* call began, answers its caller, and no callee is connected before the   *)
(* leg is accepted (on_mm_call_state, on_modem_answered, on_sip_answered). *)
(***************************************************************************)
AnsweredMeansConnected ==
    Busy /\ call.answered => leg[call.leg] \notin {"ringing_in", "dialing", "ringing_out"}

(***************************************************************************)
(* The calls table tells the truth: exactly the call in progress has an    *)
(* open row, and a finished SIP-to-modem row says it was answered exactly  *)
(* when the caller had its 200; else the caller was refused, or left and   *)
(* was told nothing (start_call, call_answered, call_ended).               *)
(***************************************************************************)
CdrTellsTheTruth ==
    /\ \A d \in Dialogs : cdr[d] \in {"open", "answered"} <=> call_id_matches(d)
    /\ \A d \in SipIds :
         /\ cdr[d] = "completed" => peer[d] = "ended"
         /\ cdr[d] = "missed" => peer[d] \in {"rejected", "unanswered"}

(***************************************************************************)
(* No callee is left ringing by a call the gateway has given up: whatever  *)
(* ends the call before the answer - the ring timeout, the mobile caller,  *)
(* a lost modem, a shutdown - sends the CANCEL (cancel_outgoing_invite).   *)
(* The one exception is a call the gateway took for answered, which it     *)
(* gets a BYE for: on_mm_call_state sets `answered` on any CallState       *)
(* Active, and one that was queued before a lost modem came back can reach *)
(* the leg's next offer.  The calls table then has it as answered.         *)
(***************************************************************************)
NoAbandonedCallee ==
    \A d \in OutIds : peer[d] = "invited" => call_id_matches(d) \/ cdr[d] = "completed"

(***************************************************************************)
(* "the peer would sit on a call the gateway has forgotten"                *)
(* (on_sip_answered): a callee that has sent its 2xx belongs to the call   *)
(* in progress, which will ACK it.                                         *)
(***************************************************************************)
AnswerIsNotForgotten ==
    \A d \in OutIds : peer[d] = "answered" => call_id_matches(d)

----------------------------------------------------------------------------
(* The inductive strengthening of NoStrandedLeg (proved in GatewayProofs). *)

\* No Down is waiting in q.
NoDown(q) == \A i \in 1..Len(q) : q[i] # Down

\* l is announced in q, and no Down that would undo it follows.
ToldAfterDown(l, q) ==
    \E i \in 1..Len(q) :
        /\ q[i] = CallAdded(l)
        /\ \A j \in 1..Len(q) : j > i => q[j] # Down

\* The gateway has a handle when it gets to a CallAdded in q: it has one now
\* (m) or an Up comes first, and an Up follows any Down before it.
HandleForCalls(q, m) ==
    \A i \in 1..Len(q) : q[i].ev = "CallAdded" =>
        /\ m \/ \E k \in 1..Len(q) : k < i /\ q[k] = Up
        /\ \A j \in 1..Len(q) : j < i /\ q[j] = Down =>
             \E k \in 1..Len(q) : j < k /\ k < i /\ q[k] = Up

\* The same for a CallAdded that would be sent next.
HandleForSession(q, m) ==
    /\ m \/ \E k \in 1..Len(q) : q[k] = Up
    /\ \A j \in 1..Len(q) : q[j] = Down => \E k \in 1..Len(q) : j < k /\ q[k] = Up

\* What keeps leg l from being stranded: a session that has yet to list it,
\* a signal, a CallAdded no Down follows, or a call that no Down threatens.
Covered(l) ==
    \/ session # "supervising"
    \/ l \in announced
    \/ ToldAfterDown(l, modemQ)
    \/ OnPath(l) /\ NoDown(modemQ)

(***************************************************************************)
(* The gateway holds a handle whenever it bridges a call and whenever it   *)
(* will look at a CallAdded, a watcher that believes in its session has a  *)
(* modem, and every live leg is covered.  on_mm_call_added's early return  *)
(* for a missing handle and OnDown's missing hangup are safe because of it.*)
(***************************************************************************)
LegInv ==
    /\ \A l \in Legs : Live(l) => Covered(l)
    /\ Busy => modem
    /\ ~present => session \in {"waiting", "losing"}
    /\ HandleForCalls(modemQ, modem)
    /\ session # "waiting" => HandleForSession(modemQ, modem)

----------------------------------------------------------------------------
(* The inductive strengthening of the properties about dialogs (proved in  *)
(* GatewayProofs).  SetupInv needs paths that are not given away while     *)
(* events of them wait; DialogInv, besides, a process that does not crash  *)
(* and INVITEs without stray copies.                                       *)

CallerStates == {"inviting", "proceeding", "leaving"}
CalleeStates == {"invited", "answered", "refused", "challenged"}
PastTheFinal == {"leaving", "unanswered", "connected", "rejected", "ended"}

\* Where the SIP peer of the call is.
PeerOfCall ==
    IF call.role = "FromSip"
      THEN call.id \in SipIds /\ peer[call.id] \in IF call.answered THEN {"connected"}
                                                   ELSE {"proceeding", "leaving"}
      ELSE /\ call.id \in OutIds /\ ~call.listening
           /\ peer[call.id] \in CalleeStates \cup IF call.answered THEN {"connected"} ELSE {}

\* The call, its peer and its row belong together, and nobody else has a part.
BridgeInv ==
    /\ Busy => /\ running /\ PeerOfCall
               /\ cdr[call.id] = IF call.answered THEN "answered" ELSE "open"
    /\ \A d \in Dialogs :
         /\ cdr[d] \in {"open", "answered"} => call_id_matches(d)
         /\ peer[d] \in {"proceeding", "leaving", "connected"} => call_id_matches(d)
         /\ peer[d] = "invited" => call_id_matches(d) \/ cdr[d] = "completed"
         /\ peer[d] \in CallerStates => d \in SipIds
         /\ peer[d] \in CalleeStates => d \in OutIds
    /\ \A d \in SipIds :
         /\ cdr[d] = "completed" => peer[d] = "ended"
         /\ cdr[d] = "missed" => peer[d] \in {"rejected", "unanswered"}
    /\ spurious = {}

\* A peer has one request under way, which says where it is.
RequestInv ==
    /\ \A i, j \in 1..Len(sipQ) : sipQ[i].id = sipQ[j].id => i = j
    /\ \A i \in 1..Len(sipQ) :
         /\ sipQ[i].m = "INVITE" => peer[sipQ[i].id] = "inviting"
         /\ sipQ[i].m # "INVITE" => peer[sipQ[i].id] \notin {"idle", "inviting"}
         /\ sipQ[i].m = "BYE" => peer[sipQ[i].id] \in PastTheFinal

\* The outcome of an INVITE is awaited or reported, once, and before the ACK.
OutcomeInv ==
    /\ tasks \subseteq OutIds
    /\ \A d \in tasks : peer[d] \notin {"idle", "connected"}
    /\ \A i \in 1..Len(internalQ) :
         /\ internalQ[i].ev = "EarlyMediaAudio" <=> internalQ[i].id \in SipIds
         /\ internalQ[i].id \in OutIds =>
              /\ peer[internalQ[i].id] \notin {"idle", "connected"}
              /\ internalQ[i].id \notin tasks
              /\ \A j \in 1..Len(internalQ) : internalQ[j].id = internalQ[i].id => j = i

DialogInv == BridgeInv /\ RequestInv /\ OutcomeInv

Setup == {"ringing_in", "dialing", "ringing_out"}
Alerts(l) == {CallState(l, "dialing"), CallState(l, "ringing_out")}

\* A leg that is, or is reported, active has left its setup behind, and a leg
\* that rings for us was never dialled.
SetupInv ==
    /\ \A l \in Legs : \A i \in 1..Len(modemQ) : modemQ[i] = CallState(l, "active") =>
         /\ leg[l] \notin Setup
         /\ \A j \in 1..Len(modemQ) : j > i => modemQ[j] \notin Alerts(l)
    /\ \A l \in Legs : leg[l] = "ringing_in" =>
         \A i \in 1..Len(modemQ) : modemQ[i] \notin Alerts(l)
    /\ Busy /\ call.answered =>
         /\ leg[call.leg] \notin Setup
         /\ \A i \in 1..Len(modemQ) : modemQ[i] \notin Alerts(call.leg)

----------------------------------------------------------------------------
(* Liveness.                                                               *)

(***************************************************************************)
(* select! picks among the ready branches at random, so a channel that     *)
(* stays non-empty is read; the watcher's tasks and the ring timer are     *)
(* tokio tasks that run when they can.  A call HangupAll has hung up ends. *)
(* Nothing is assumed of the SIP peers, the modem or the mobile network.   *)
(***************************************************************************)
Fairness ==
    /\ WF_vars(ModemEvent)
    /\ WF_vars(SipRequest)
    /\ WF_vars(InternalEvent)
    /\ \A l \in Legs :
         /\ WF_vars(running /\ HandleCallAdded(l) /\ UNCHANGED gwVars)
         /\ WF_vars(running /\ Subscribed(l) /\ UNCHANGED gwVars)
         /\ WF_vars(running /\ NetEnded(l) /\ UNCHANGED gwVars)
    /\ WF_vars(running /\ (SessionUp \/ Adopt \/ SessionDown) /\ UNCHANGED gwVars)
    /\ \A d \in OutIds : WF_vars(RingTimeout(d))

FairSpec == Spec /\ Fairness

(***************************************************************************)
(* Once the process and the modem stay up, a call on the mobile network    *)
(* that the gateway does not bridge - dropped by a Down that could not     *)
(* hang it up, left by an earlier run, or arriving while busy - is ended   *)
(* or bridged (on_mm_call_added, supervise's adoption).                    *)
(***************************************************************************)
OrphanIsDealtWith ==
    <>[](running /\ present) /\ <>[][~Restart]_vars =>
        \A l \in Legs : (Live(l) /\ ~OnPath(l)) ~> (~Live(l) \/ OnPath(l))

\* A call from the mobile network is being offered to callee d.
Offering(d) == call_id_matches(d) /\ call.role = "ToSip" /\ ~call.answered

(***************************************************************************)
(* A caller on the mobile network does not ring for ever: the callee       *)
(* answers or refuses, the caller goes away, or the ring timeout ends the  *)
(* call, a digest challenge in between or not (invite_response_task,       *)
(* retry_invite_with_auth).                                                *)
(***************************************************************************)
OfferEnds ==
    <>[]running /\ <>[][~Restart]_vars => \A d \in OutIds : Offering(d) ~> ~Offering(d)
=============================================================================
