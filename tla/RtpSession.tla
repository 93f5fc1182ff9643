----------------------------- MODULE RtpSession -----------------------------
(***************************************************************************)
(* The RTP side of one call (media.rs): the receiver task with symmetric   *)
(* RTP and RFC 2833 digits, the address the sender task sends to, the      *)
(* silence watchdog (check_media of gateway.rs) and the re-INVITEs that    *)
(* renegotiate the stream (on_sip_reinvite, sip/sdp.rs).                   *)
(*                                                                         *)
(* The receiver runs beside the event loop: it looks at the signalled      *)
(* address, lets the lock go, and takes it again to latch.  Packets get    *)
(* lost but keep their order.  All of them come from the peer: from the    *)
(* host it says it is on, through a port that is another one behind NAT.   *)
(***************************************************************************)
EXTENDS Naturals, Sequences

CONSTANTS
    Hosts,      \* where the peer may take its media
    BehindNat,  \* whether the peer's packets come from another port than it says
    Symmetric,  \* cfg.rtp.symmetric
    Timeout,    \* cfg.rtp.timeout_secs, in ticks; 0 turns the watchdog off
    MaxOffers,  \* bound: re-INVITEs of the peer
    MaxEvents,  \* bound: digits the peer sends
    MaxNet,     \* bound: packets in flight
    None        \* what there is nothing of

ASSUME RtpAssumption ==
    /\ Timeout \in Nat /\ MaxOffers \in Nat /\ MaxEvents \in Nat /\ MaxNet \in Nat \ {0}
    /\ BehindNat \in BOOLEAN /\ Symmetric \in BOOLEAN

VARIABLES
    peer,       \* the SIP peer: where it is, whether it sends, lives, ...
    invite,     \* the re-INVITE on its way, or the response to it
    net,        \* RTP packets in flight
    call,       \* the parts of ActiveCall the media depends on
    signalled,  \* Signalled: where signalling says the peer is, and the latch
    remote,     \* where the sender task sends
    rx,         \* what the receiver has passed the host test with, if anything
    silence,    \* ticks since last_rtp_ms
    last_ts,    \* last_dtmf_ts
    reported,   \* digits sent to the event loop
    taken       \* history: the events of which a packet was taken, what the offer
                \* accepted last said of the direction, whether that was thrown away
                \* (held), and the time since the last one that named an address

vars == <<peer, invite, net, call, signalled, remote, rx, silence, last_ts, reported, taken>>

Ports == {"said", "mapped"}
Addresses == [host : Hosts, port : Ports]
At(h) == [host |-> h, port |-> "said"]

\* Payload types of telephone-event; 0 stands for none.
Events == 0..2
Offered == 1..2

\* What an SDP says: where, unless its address is null, whether its sender sends,
\* whether the codec in use is listed, and the number of telephone-event.
Offers == [host : Hosts, null : BOOLEAN, sends : BOOLEAN, codec : BOOLEAN, event : Offered]
Packets == [src : Addresses, ts : 0..MaxEvents, event : Events]
Codes == {200, 488, 491}
Invites == [kind : {"offer"}, sdp : Offers \cup {None}]
             \cup [kind : {"answer"}, code : Codes, event : Events]

ASSUME NoneAssumption == None \notin Offers \cup Invites

Peers == [at : Hosts, sends : BOOLEAN, alive : BOOLEAN, event : Events,
          offers : 0..MaxOffers, events : 0..MaxEvents,
          before : [host : Hosts, sends : BOOLEAN, event : Events]]

TypeOK ==
    /\ peer \in Peers
    /\ invite \in {None} \cup Invites
    /\ net \in Seq(Packets) /\ Len(net) <= MaxNet
    /\ call \in [state : {"early", "answered", "failed", "silent"},
                 sends : BOOLEAN, event : Events, listens : Events]
    /\ signalled \in [host : Hosts, latched : BOOLEAN]
    /\ remote \in Addresses
    /\ rx \in {None} \cup Packets
    /\ silence \in 0..(Timeout + 1)
    /\ last_ts \in 0..MaxEvents
    /\ reported \in Seq(1..MaxEvents)
    /\ taken \in [events : SUBSET (1..MaxEvents), sends : BOOLEAN, held : BOOLEAN,
                  ticks : 0..(Timeout + 1)]

\* MediaSession::start, with what the first offer and answer have settled.
Init ==
    \E h \in Hosts, event \in {0, 1} :
        /\ peer = [at |-> h, sends |-> TRUE, alive |-> TRUE, event |-> event,
                   offers |-> 0, events |-> 0,
                   before |-> [host |-> h, sends |-> TRUE, event |-> event]]
        /\ call = [state |-> "early", sends |-> TRUE, event |-> event, listens |-> event]
        /\ signalled = [host |-> h, latched |-> FALSE]
        /\ remote = At(h)
        /\ invite = None /\ net = <<>> /\ rx = None
        /\ silence = 0 /\ last_ts = 0 /\ reported = <<>>
        /\ taken = [events |-> {}, sends |-> TRUE, held |-> FALSE, ticks |-> 0]

Up == call.state \in {"early", "answered"}
media == <<signalled, remote, rx, silence, last_ts, reported>>

----------------------------------------------------------------------------
(* The peer and the network.                                               *)

Source == [host |-> peer.at, port |-> IF BehindNat THEN "mapped" ELSE "said"]

PeerSends(ts, event) ==
    /\ Up /\ peer.alive /\ peer.sends
    /\ Len(net) < MaxNet
    /\ net' = Append(net, [src |-> Source, ts |-> ts, event |-> event])

PeerSendsAudio ==
    /\ PeerSends(0, 0)
    /\ UNCHANGED <<peer, invite, call, media, taken>>

\* A digit, with the payload type the gateway has agreed to.
PeerPresses ==
    /\ peer.events < MaxEvents /\ peer.event # 0
    /\ PeerSends(peer.events + 1, peer.event)
    /\ peer' = [peer EXCEPT !.events = @ + 1]
    /\ UNCHANGED <<invite, call, media, taken>>

\* Another packet of the same event.
PeerHolds ==
    /\ peer.events > 0 /\ peer.event # 0
    /\ PeerSends(peer.events, peer.event)
    /\ UNCHANGED <<peer, invite, call, media, taken>>

\* A re-INVITE: a new place, a hold with or without an address, a resumption, or
\* a refresh without a body.
PeerOffers ==
    /\ peer.alive /\ Up /\ invite = None /\ peer.offers < MaxOffers
    /\ \/ /\ invite' = [kind |-> "offer", sdp |-> None]
          /\ peer' = [peer EXCEPT !.offers = @ + 1]
       \/ \E o \in Offers :
             /\ o.null => o.host = peer.at
             /\ ~o.codec => o.sends /\ ~o.null /\ o.event = 1
             /\ invite' = [kind |-> "offer", sdp |-> o]
             /\ peer' = [peer EXCEPT !.offers = @ + 1, !.at = o.host, !.sends = o.sends,
                                     !.event = 0]
    /\ UNCHANGED <<net, call, media, taken>>

\* The answer: the peer goes by it, or back to what was agreed before.
PeerHears ==
    /\ Up /\ invite # None /\ invite.kind = "answer"
    /\ peer' = IF invite.code = 200
               THEN [peer EXCEPT !.event = invite.event,
                                 !.before = [@ EXCEPT !.host = peer.at, !.sends = peer.sends,
                                                      !.event = invite.event]]
               ELSE [peer EXCEPT !.at = peer.before.host, !.sends = peer.before.sends,
                                 !.event = peer.before.event]
    /\ invite' = None
    /\ UNCHANGED <<net, call, media, taken>>

PeerVanishes ==
    /\ Up /\ peer.alive
    /\ peer' = [peer EXCEPT !.alive = FALSE]
    /\ UNCHANGED <<invite, net, call, media, taken>>

Lose ==
    /\ Up /\ net # <<>>
    /\ net' = Tail(net)
    /\ UNCHANGED <<peer, invite, call, media, taken>>

----------------------------------------------------------------------------
(* The event loop.                                                         *)

\* The call is answered; an early stream is running by then.
Answered ==
    /\ call.state = "early"
    /\ call' = [call EXCEPT !.state = "answered"]
    /\ UNCHANGED <<peer, invite, net, media, taken>>

\* Mutant: only the sender is pointed at the new place.
set_remoteOnly(h) ==
    /\ remote' = At(h)
    /\ UNCHANGED signalled

\* set_remote, atomic under the lock of signalled.
set_remote(h) ==
    /\ signalled' = [host |-> h, latched |-> signalled.latched /\ signalled.host = h]
    /\ remote' = At(h)

\* has_media: an offer with a null address counts as none.
Offer == IF invite.sdp = None \/ invite.sdp.null THEN None ELSE invite.sdp

\* Sdp::answer with the filter before it: the event payload type of the answer.
AnswerEvent(event) == IF event = call.listens THEN event ELSE 0

Reply(code, event) == invite' = [kind |-> "answer", code |-> code, event |-> event]

\* on_sip_reinvite: an INVITE is outstanding, or the codec in use is not offered.
ReinviteRefused ==
    /\ Up /\ invite # None /\ invite.kind = "offer"
    /\ \/ call.state = "early" /\ Reply(491, 0)
       \/ call.state = "answered" /\ Offer # None /\ ~Offer.codec /\ Reply(488, 0)
    /\ UNCHANGED <<peer, net, call, media, taken>>

\* Mutant: the silence goes on through a renegotiation.
ResetNothing == silence

\* reset_silence.
reset_silence == 0

\* The offer names another direction than the one in force, and no address.
DirectionLost == invite.sdp.null /\ invite.sdp.sends # call.sends

\* on_sip_reinvite: the stream is renegotiated.  The direction of a hold that
\* has_media throws away is known to the peer only.
ReinviteAccepted ==
    /\ call.state = "answered" /\ invite # None /\ invite.kind = "offer"
    /\ IF Offer = None
       THEN /\ Reply(200, AnswerEvent(call.event))
            /\ UNCHANGED <<call, signalled, remote, silence>>
       ELSE /\ Offer.codec
            /\ Reply(200, AnswerEvent(Offer.event))
            /\ set_remote(Offer.host)
            /\ silence' = reset_silence
            /\ call' = [call EXCEPT !.sends = Offer.sends, !.event = Offer.event]
    /\ taken' = IF invite.sdp = None THEN taken
                ELSE [taken EXCEPT !.sends = invite.sdp.sends,
                                   !.held = DirectionLost,
                                   !.ticks = IF invite.sdp.null THEN @ ELSE 0]
    /\ UNCHANGED <<peer, net, rx, last_ts, reported>>

Tick ==
    /\ Up /\ silence <= Timeout
    /\ silence' = silence + 1
    /\ taken' = [taken EXCEPT !.ticks = IF @ > Timeout THEN @ ELSE @ + 1]
    /\ UNCHANGED <<peer, invite, net, call, signalled, remote, rx, last_ts, reported>>

\* Mutant: only the sound card is watched.
PeerIsGoneNever == FALSE

\* check_media: the peer has said it sends, and does not.
PeerIsGone == call.sends /\ Timeout # 0 /\ silence > Timeout

\* check_media: the sound card or the peer is gone; the call and its media end.
check_media(end) ==
    /\ Up
    /\ end = "silent" => PeerIsGone
    /\ call' = [call EXCEPT !.state = end]
    /\ invite' = None /\ net' = <<>> /\ rx' = None
    /\ UNCHANGED <<peer, signalled, remote, silence, last_ts, reported, taken>>

----------------------------------------------------------------------------
(* The receiver task.                                                      *)

\* The host is compared with the one signalled; the lock is let go again.
Receive ==
    /\ Up /\ rx = None /\ net # <<>>
    /\ rx' = IF Head(net).src.host = signalled.host THEN Head(net) ELSE None
    /\ net' = Tail(net)
    /\ UNCHANGED <<peer, invite, call, signalled, remote, silence, last_ts, reported, taken>>

\* The first packet says where the peer really sends from.
Latch ==
    IF Symmetric /\ ~signalled.latched
    THEN /\ remote' = IF rx.src # At(signalled.host) THEN rx.src ELSE remote
         /\ signalled' = [signalled EXCEPT !.latched = TRUE]
    ELSE UNCHANGED <<remote, signalled>>

\* Mutant: every packet of an event is a digit.
IsNewEventAlways == rx.event # 0 /\ rx.event = call.listens

\* An event the session listens to, with another timestamp than the one before.
IsNewEvent == rx.event # 0 /\ rx.event = call.listens /\ rx.ts # last_ts

\* clock.stamp, the latch, then the payload.
Process ==
    /\ Up /\ rx # None
    /\ silence' = 0
    /\ Latch
    /\ IF IsNewEvent
       THEN last_ts' = rx.ts /\ reported' = Append(reported, rx.ts)
       ELSE UNCHANGED <<last_ts, reported>>
    /\ taken' = IF rx.event = 0 THEN taken ELSE [taken EXCEPT !.events = @ \cup {rx.ts}]
    /\ rx' = None
    /\ UNCHANGED <<peer, invite, net, call>>

----------------------------------------------------------------------------

Next ==
    \/ PeerSendsAudio \/ PeerPresses \/ PeerHolds \/ PeerOffers \/ PeerHears \/ PeerVanishes
    \/ Lose
    \/ Answered \/ ReinviteRefused \/ ReinviteAccepted \/ Tick
    \/ check_media("failed") \/ check_media("silent")
    \/ Receive \/ Process

Spec == Init /\ [][Next]_vars

\* The watchdog's timer runs.
Fairness == WF_vars(Tick) /\ WF_vars(check_media("silent"))

FairSpec == Spec /\ Fairness

----------------------------------------------------------------------------

(***************************************************************************)
(* The digits that reach the event loop are the events the receiver has    *)
(* had a packet of, in their order and once each, whichever packets of an  *)
(* event are lost ("losing it used to mean losing the digit entirely") and *)
(* whatever payload types later offers name: the gateway promises none     *)
(* that it does not listen to.                                             *)
(***************************************************************************)
DigitsAreTrue ==
    /\ \A i, j \in 1..Len(reported) : i < j => reported[i] < reported[j]
    /\ taken.events = {reported[i] : i \in 1..Len(reported)}

(***************************************************************************)
(* check_media ends a call for silence only when the offer accepted last   *)
(* says that the peer sends: "a peer that offered a=recvonly or a=inactive *)
(* has told us it will send nothing".  One peer is hung up on all the      *)
(* same: the one whose a=inactive came with a null address, a hold that    *)
(* has_media knows of and on_sip_reinvite answers 200, but whose direction *)
(* it throws away (held).  No peer is hung up on before the whole time has *)
(* gone by since it last said where it is: a call that has only just       *)
(* resumed is not over (reset_silence).                                    *)
(***************************************************************************)
WatchdogIsFair ==
    call.state = "silent" => taken.ticks > Timeout /\ (taken.sends \/ taken.held)

(***************************************************************************)
(* Between two re-INVITEs both ends have the same idea of where the peer   *)
(* is heard (set_remote: "every packet from the new one was dropped for    *)
(* the rest of the call") and under which number its digits come, whatever *)
(* was offered, refused or answered.  They disagree on whether the peer    *)
(* sends in one case only, and until the next offer with an address: the   *)
(* offer accepted last had a null one, so on_sip_reinvite answered 200 and *)
(* kept the direction it had before (held).                                *)
(***************************************************************************)
EndsAgree ==
    Up /\ invite = None =>
        /\ signalled.host = peer.at
        /\ call.sends # peer.sends <=> taken.held
        /\ peer.event \in {0, call.listens}

\* What is checked: the session is well formed and agrees with its peer.
SessionInv == TypeOK /\ EndsAgree

----------------------------------------------------------------------------
(* The inductive strengthening (proved in MediaProofs).                    *)

\* A packet of a digit the peer has pressed, under the number listened to.
IsDigit(p) == p.event = call.listens /\ p.ts \in 1..peer.events

\* Packets of digits reach the receiver in the order of the digits, which is
\* that of the ones reported.
FlowInv ==
    /\ last_ts = IF reported = <<>> THEN 0 ELSE reported[Len(reported)]
    /\ last_ts <= peer.events
    /\ rx # None /\ rx.event # 0 => IsDigit(rx) /\ last_ts <= rx.ts
    /\ \A i \in 1..Len(net) : net[i].event # 0 =>
          /\ IsDigit(net[i]) /\ last_ts <= net[i].ts
          /\ rx # None /\ rx.event # 0 => rx.ts <= net[i].ts
          /\ \A j \in 1..Len(net) : i < j /\ net[j].event # 0 => net[i].ts <= net[j].ts

\* No number is promised but the one listened to.
PromiseInv ==
    LET kept == {0, call.listens} IN
    /\ peer.event \in kept /\ peer.before.event \in kept
    /\ invite # None /\ invite.kind = "answer" => invite.event \in kept

\* What peer and gateway go by: what was agreed last, or what is being agreed.
AgreeInv ==
    LET here == peer.at = signalled.host /\ (peer.sends # call.sends <=> taken.held)
        before == /\ peer.before.host = signalled.host
                  /\ peer.before.sends # call.sends <=> taken.held
    IN  Up =>
        /\ invite = None => here /\ before
        /\ invite # None /\ invite.kind = "offer" =>
              /\ before
              /\ IF invite.sdp = None THEN here
                 ELSE /\ peer.at = invite.sdp.host /\ peer.sends = invite.sdp.sends
                      /\ invite.sdp.null => peer.at = signalled.host
        /\ invite # None /\ invite.kind = "answer" => IF invite.code = 200 THEN here ELSE before

\* The direction in force is the one announced last, or the opposite of one that
\* was thrown away, and the silence is no older than the last address.
SilenceInv == Up => (taken.sends # call.sends <=> taken.held) /\ silence <= taken.ticks

----------------------------------------------------------------------------

(***************************************************************************)
(* check_media: "nothing else would ever end this call".  A call whose     *)
(* peer has vanished is ended, if the offer in force - the last one with   *)
(* an address - has the peer sending.                                      *)
(***************************************************************************)
VanishedPeerIsNoticed ==
    Timeout # 0 /\ ~peer.alive ~> ~Up \/ ~call.sends
=============================================================================
