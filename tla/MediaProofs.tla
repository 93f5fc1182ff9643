---------------------------- MODULE MediaProofs ----------------------------
(***************************************************************************)
(* Proofs about the media of a call: RtpSession, its end towards the peer, *)
(* and AudioStream, its end towards the modem.  The two share no state.    *)
(*                                                                         *)
(* RtpSession, for any hosts, bounds, timeouts and losses: the digits that *)
(* are reported are those the receiver has had packets of, and - as long   *)
(* as no peer holds the call with a null address - the watchdog and the    *)
(* sender go by what both ends have agreed.                                *)
(*                                                                         *)
(* AudioStream, for any number of calls, any depth of the jitter buffer    *)
(* and any lengths of tones, whatever blocks or fails: the card is only    *)
(* held by a thread that is known, the ring keeps its depth and the digits *)
(* that are queued are whole.  The threads and the card never look at the  *)
(* ring, and the ring looks at the event loop only, so that the invariant  *)
(* has two halves: CardSafe, which is inductive on its own, and RingSafe.  *)
(***************************************************************************)
EXTENDS RtpSession, AudioStream, TLAPS

----------------------------------------------------------------------------
(* The RTP session: digits.                                                *)

\* What the steps keep together, whatever the peer offers.
DigitsSafe == TypeOK /\ FlowInv /\ PromiseInv /\ DigitsAreTrue

\* Where the packets of a longer or shorter queue are.
LEMMA QueueFacts ==
    ASSUME NEW q \in Seq(Packets)
    PROVE  /\ Len(q) \in Nat
           /\ \A p \in Packets : /\ Append(q, p) \in Seq(Packets)
                                 /\ Len(Append(q, p)) = Len(q) + 1
                                 /\ \A i \in 1..Len(q) : Append(q, p)[i] = q[i]
                                 /\ Append(q, p)[Len(q) + 1] = p
           /\ q # << >> => /\ Head(q) = q[1] /\ 1 \in 1..Len(q) /\ Head(q) \in Packets
                           /\ Tail(q) \in Seq(Packets)
                           /\ Len(Tail(q)) = Len(q) - 1
                           /\ \A i \in 1..Len(Tail(q)) :
                                 i + 1 \in 1..Len(q) /\ Tail(q)[i] = q[i + 1]
OBVIOUS

\* Only what is not empty has elements, and they are of its kind.
LEMMA IndexFacts ==
    ASSUME NEW S, NEW s \in Seq(S), NEW i \in 1..Len(s)
    PROVE  s # << >> /\ s[i] \in S
OBVIOUS

(***************************************************************************)
(* The peer numbers its digits as it goes, and sends them under the number *)
(* it was promised (PeerSendsAudio, PeerPresses, PeerHolds).               *)
(***************************************************************************)
LEMMA SendKeepsFlow ==
    ASSUME TypeOK, FlowInv, NEW p \in Packets, net' = Append(net, p),
           peer'.events \in Nat, peer.events <= peer'.events,
           p.event # 0 => p.event = call.listens /\ p.ts = peer'.events /\ p.ts >= 1,
           UNCHANGED <<call, rx, last_ts, reported>>
    PROVE  FlowInv'
<1>1. /\ net \in Seq(Packets) /\ peer.events \in Nat /\ last_ts \in Nat
      /\ rx # None => rx.ts \in Nat
  BY DEF TypeOK, Packets, Peers
<1>2. /\ Len(net) \in Nat /\ Len(net') = Len(net) + 1 /\ net'[Len(net) + 1] = p
      /\ \A i \in 1..Len(net) : net'[i] = net[i]
  BY <1>1, QueueFacts
<1>3. \A i \in 1..Len(net') : i \in 1..Len(net) \/ i = Len(net) + 1
  BY <1>2
<1>4. \A i \in 1..Len(net) : net[i].event # 0 => net[i].ts \in 1..peer.events
  BY DEF FlowInv, IsDigit
<1>5. rx # None /\ rx.event # 0 => IsDigit(rx)' /\ rx.ts <= peer.events
  BY <1>1 DEF FlowInv, IsDigit
<1>6. ASSUME NEW i \in 1..Len(net'), net'[i].event # 0
      PROVE  /\ IsDigit(net[i])' /\ last_ts <= net'[i].ts
             /\ rx # None /\ rx.event # 0 => rx.ts <= net'[i].ts
             /\ \A j \in 1..Len(net') : i < j /\ net'[j].event # 0 => net'[i].ts <= net'[j].ts
  <2>1. CASE i \in 1..Len(net)
    <3>1. /\ net[i].event # 0 /\ net'[i] = net[i] /\ net[i].ts \in 1..peer.events
          /\ net[i].event = call.listens
      BY <1>2, <1>4, <1>6, <2>1 DEF FlowInv, IsDigit
    <3>2. IsDigit(net[i])'
      BY <1>1, <3>1 DEF IsDigit
    <3>3. last_ts <= net'[i].ts /\ (rx # None /\ rx.event # 0 => rx.ts <= net'[i].ts)
      BY <2>1, <3>1 DEF FlowInv
    <3>4. ASSUME NEW j \in 1..Len(net'), i < j, net'[j].event # 0
          PROVE  net'[i].ts <= net'[j].ts
      <4>1. CASE j \in 1..Len(net)
        BY <1>2, <2>1, <3>1, <3>4, <4>1 DEF FlowInv
      <4>2. CASE j = Len(net) + 1
        BY <1>1, <1>2, <3>1, <3>4, <4>2
      <4> QED
        BY <1>3, <4>1, <4>2
    <3> QED
      BY <3>2, <3>3, <3>4
  <2>2. CASE i = Len(net) + 1
    <3>1. net'[i] = p /\ \A j \in 1..Len(net') : ~(i < j)
      BY <1>2, <1>3, <2>2
    <3>2. last_ts <= p.ts /\ (rx # None /\ rx.event # 0 => rx.ts <= p.ts)
      BY <1>1, <1>5, <1>6, <3>1 DEF FlowInv
    <3>3. IsDigit(net[i])'
      BY <1>6, <3>1 DEF IsDigit
    <3> QED
      BY <3>1, <3>2, <3>3
  <2> QED
    BY <1>3, <2>1, <2>2
<1>7. last_ts' <= peer'.events
  BY <1>1 DEF FlowInv
<1>8. last_ts' = IF reported' = << >> THEN 0 ELSE reported'[Len(reported')]
  BY DEF FlowInv
<1>9. rx' # None /\ rx'.event # 0 => IsDigit(rx)' /\ last_ts' <= rx'.ts
  BY <1>5 DEF FlowInv
<1> QED
  BY <1>6, <1>7, <1>8, <1>9 DEF FlowInv

(***************************************************************************)
(* A packet that is lost, or taken by the receiver, was the first one; the *)
(* test of its host may drop it (Lose, Receive).                           *)
(***************************************************************************)
LEMMA TakeKeepsFlow ==
    ASSUME TypeOK, FlowInv, net # << >>, net' = Tail(net),
           rx' = rx \/ rx' = None \/ rx' = Head(net),
           UNCHANGED <<peer, call, last_ts, reported>>
    PROVE  FlowInv'
<1>1. /\ Head(net) = net[1] /\ 1 \in 1..Len(net)
      /\ \A i \in 1..Len(net') : i + 1 \in 1..Len(net) /\ net'[i] = net[i + 1] /\ 1 < i + 1
  BY QueueFacts DEF TypeOK
<1>2. rx' # None /\ rx'.event # 0 => IsDigit(rx)' /\ last_ts <= rx'.ts
  <2>1. CASE rx' = rx
    BY <2>1 DEF FlowInv, IsDigit
  <2>2. CASE rx' = Head(net)
    BY <1>1, <2>2 DEF FlowInv, IsDigit
  <2> QED
    BY <2>1, <2>2
<1>3. ASSUME NEW i \in 1..Len(net'), net'[i].event # 0
      PROVE  /\ IsDigit(net[i])' /\ last_ts <= net'[i].ts
             /\ rx' # None /\ rx'.event # 0 => rx'.ts <= net'[i].ts
             /\ \A j \in 1..Len(net') : i < j /\ net'[j].event # 0 => net'[i].ts <= net'[j].ts
  <2>1. net[i + 1].event # 0 /\ i + 1 \in 1..Len(net) /\ net'[i] = net[i + 1]
    BY <1>1, <1>3
  <2>2. IsDigit(net[i])' /\ last_ts <= net'[i].ts
    BY <2>1 DEF FlowInv, IsDigit
  <2>3. rx' # None /\ rx'.event # 0 => rx'.ts <= net'[i].ts
    <3>1. CASE rx' = rx
      BY <2>1, <3>1 DEF FlowInv
    <3>2. CASE rx' = Head(net)
      BY <1>1, <2>1, <3>2 DEF FlowInv
    <3> QED
      BY <3>1, <3>2
  <2>4. ASSUME NEW j \in 1..Len(net'), i < j, net'[j].event # 0
        PROVE  net'[i].ts <= net'[j].ts
    <3>1. j + 1 \in 1..Len(net) /\ net'[j] = net[j + 1] /\ i + 1 < j + 1
      BY <1>1, <2>4
    <3> QED
      BY <2>1, <2>4, <3>1 DEF FlowInv
  <2> QED
    BY <2>2, <2>3, <2>4
<1> QED
  BY <1>2, <1>3 DEF FlowInv

\* What the receiver takes and reports is a digit of the peer.
LEMMA TakenIsPressed ==
    ASSUME DigitsSafe, rx # None
    PROVE  /\ rx \in Packets /\ rx.ts \in Nat /\ last_ts \in Nat /\ Len(reported) \in Nat
           /\ reported \in Seq(1..MaxEvents)
           /\ \A i \in 1..Len(reported) : reported[i] \in Nat /\ reported[i] <= last_ts
           /\ rx.event # 0 => /\ rx.event = call.listens /\ rx.ts \in 1..MaxEvents
                              /\ rx.ts <= peer.events /\ last_ts <= rx.ts
<1> USE DEF DigitsSafe
<1>1. /\ rx \in Packets /\ rx.ts \in Nat /\ last_ts \in Nat /\ Len(reported) \in Nat
      /\ reported \in Seq(1..MaxEvents) /\ peer.events \in 0..MaxEvents
  BY DEF TypeOK, Packets, Peers
<1>2. ASSUME NEW i \in 1..Len(reported)
      PROVE  reported[i] \in Nat /\ reported[i] <= last_ts
  <2>1. last_ts = reported[Len(reported)] /\ reported[i] \in 1..MaxEvents
    <3>1. reported # << >> /\ reported[i] \in 1..MaxEvents
      BY <1>1, IndexFacts
    <3> QED
      BY <3>1 DEF FlowInv
  <2>2. CASE i = Len(reported)
    BY <1>1, <2>1, <2>2
  <2>3. CASE i < Len(reported)
    <3>1. reported[i] < reported[Len(reported)]
      BY <1>1, <2>3 DEF DigitsAreTrue
    <3> QED
      BY <1>1, <2>1, <3>1
  <2> QED
    BY <1>1, <2>2, <2>3
<1>3. rx.event # 0 => /\ rx.event = call.listens /\ rx.ts \in 1..MaxEvents
                      /\ rx.ts <= peer.events /\ last_ts <= rx.ts
  BY <1>1, RtpAssumption DEF FlowInv, IsDigit
<1> QED
  BY <1>1, <1>2, <1>3

(***************************************************************************)
(* A packet of a digit reports it if it is the first, and is one of the    *)
(* last digit reported otherwise (the receiver's last_dtmf_ts).            *)
(***************************************************************************)
LEMMA ProcessKeepsDigits ==
    ASSUME DigitsSafe, Process
    PROVE  FlowInv' /\ DigitsAreTrue' /\ reported' \in Seq(1..MaxEvents)
           /\ last_ts' \in 0..MaxEvents /\ taken'.events \in SUBSET (1..MaxEvents)
<1> USE DEF DigitsSafe
<1>1. /\ rx # None /\ rx' = None /\ UNCHANGED <<peer, invite, net, call>>
  BY DEF Process
<1>2. /\ rx \in Packets /\ rx.ts \in Nat /\ last_ts \in Nat /\ Len(reported) \in Nat
      /\ reported \in Seq(1..MaxEvents)
      /\ \A i \in 1..Len(reported) : reported[i] \in Nat /\ reported[i] <= last_ts
      /\ rx.event # 0 => /\ rx.event = call.listens /\ rx.ts \in 1..MaxEvents
                         /\ rx.ts <= peer.events /\ last_ts <= rx.ts
  BY <1>1, TakenIsPressed
<1>3. taken'.events = IF rx.event = 0 THEN taken.events ELSE taken.events \cup {rx.ts}
  BY DEF Process, TypeOK
<1>4. /\ taken.events = {reported[i] : i \in 1..Len(reported)}
      /\ taken.events \in SUBSET (1..MaxEvents)
      /\ \A i, j \in 1..Len(reported) : i < j => reported[i] < reported[j]
  BY DEF DigitsAreTrue, TypeOK
<1>5. CASE IsNewEvent
  <2>1. /\ rx.event # 0 /\ rx.ts # last_ts
        /\ last_ts' = rx.ts /\ reported' = Append(reported, rx.ts)
    BY <1>5 DEF IsNewEvent, Process
  <2>2. /\ Len(reported') = Len(reported) + 1 /\ reported'[Len(reported) + 1] = rx.ts
        /\ reported' \in Seq(1..MaxEvents)
        /\ \A i \in 1..Len(reported) : reported'[i] = reported[i]
    BY <1>2, <2>1
  <2>3. \A i \in 1..Len(reported') : i \in 1..Len(reported) \/ i = Len(reported) + 1
    BY <1>2, <2>2
  <2>4. \A i, j \in 1..Len(reported') : i < j => reported'[i] < reported'[j]
    <3> SUFFICES ASSUME NEW i \in 1..Len(reported'), NEW j \in 1..Len(reported'), i < j
                 PROVE  reported'[i] < reported'[j]
      OBVIOUS
    <3>1. i \in 1..Len(reported) /\ reported'[i] = reported[i]
      BY <1>2, <2>2, <2>3
    <3>2. CASE j \in 1..Len(reported)
      BY <1>4, <2>2, <3>1, <3>2
    <3>3. CASE j = Len(reported) + 1
      BY <1>2, <2>1, <2>2, <3>1, <3>3
    <3> QED
      BY <2>3, <3>2, <3>3
  <2>5. taken'.events = {reported'[i] : i \in 1..Len(reported')}
    <3>1. \A x \in taken'.events : \E i \in 1..Len(reported') : x = reported'[i]
      <4> SUFFICES ASSUME NEW x \in taken.events \cup {rx.ts}
                   PROVE  \E i \in 1..Len(reported') : x = reported'[i]
        BY <1>3, <2>1
      <4>1. CASE x \in taken.events
        <5>1. PICK i \in 1..Len(reported) : x = reported[i]
          BY <1>4, <4>1
        <5>2. i \in 1..Len(reported') /\ reported'[i] = x
          BY <1>2, <2>2, <5>1
        <5> QED
          BY <5>2
      <4>2. CASE x = rx.ts
        <5>1. Len(reported) + 1 \in 1..Len(reported')
          BY <1>2, <2>2
        <5> QED
          BY <2>2, <4>2, <5>1
      <4> QED
        BY <4>1, <4>2
    <3>2. \A i \in 1..Len(reported') : reported'[i] \in taken'.events
      BY <1>3, <1>4, <2>1, <2>2, <2>3
    <3> QED
      BY <3>1, <3>2
  <2>6. FlowInv'
    <3>1. reported' # << >> /\ last_ts' = reported'[Len(reported')]
      BY <1>2, <2>1, <2>2
    <3>2. last_ts' <= peer'.events
      BY <1>1, <1>2, <2>1
    <3>3. \A i \in 1..Len(net) : net[i].event # 0 => rx.ts <= net[i].ts
      BY <1>1, <2>1 DEF FlowInv
    <3> QED
      BY <1>1, <2>1, <3>1, <3>2, <3>3 DEF FlowInv, IsDigit
  <2>7. DigitsAreTrue'
    BY <2>4, <2>5 DEF DigitsAreTrue
  <2>8. taken'.events \in SUBSET (1..MaxEvents) /\ last_ts' \in 0..MaxEvents
    BY <1>2, <1>3, <1>4, <2>1
  <2> QED
    BY <2>2, <2>6, <2>7, <2>8
<1>6. CASE ~IsNewEvent
  <2>1. UNCHANGED <<last_ts, reported>>
    BY <1>6 DEF Process
  <2>2. rx.event # 0 => rx.ts = last_ts /\ last_ts >= 1
    BY <1>2, <1>6 DEF IsNewEvent
  <2>3. rx.event # 0 => rx.ts \in taken.events
    <3> SUFFICES ASSUME rx.event # 0 PROVE rx.ts \in taken.events
      OBVIOUS
    <3>1. reported # << >> /\ rx.ts = reported[Len(reported)]
      BY <1>2, <2>2 DEF FlowInv
    <3>2. Len(reported) \in 1..Len(reported)
      BY <1>2, <3>1
    <3> QED
      BY <1>4, <3>1, <3>2
  <2>4. taken'.events = taken.events
    BY <1>3, <2>3
  <2>5. FlowInv'
    BY <1>1, <2>1 DEF FlowInv, IsDigit
  <2>6. DigitsAreTrue'
    BY <2>1, <2>4 DEF DigitsAreTrue
  <2> QED
    BY <1>2, <1>4, <2>1, <2>4, <2>5, <2>6 DEF TypeOK
<1> QED
  BY <1>5, <1>6

(***************************************************************************)
(* Steps that leave the packets and the digits alone.                      *)
(***************************************************************************)
LEMMA FlowFrame ==
    ASSUME FlowInv, DigitsAreTrue, UNCHANGED <<net, rx, last_ts, reported>>,
           peer'.events = peer.events, call'.listens = call.listens,
           taken'.events = taken.events
    PROVE  FlowInv' /\ DigitsAreTrue'
BY DEF FlowInv, DigitsAreTrue, IsDigit

(***************************************************************************)
(* The peer's steps: what it sends, and what it offers and hears.          *)
(***************************************************************************)
LEMMA PeerKeepsDigits ==
    ASSUME DigitsSafe,
           PeerSendsAudio \/ PeerPresses \/ PeerHolds \/ PeerOffers \/ PeerHears \/ PeerVanishes
    PROVE  DigitsSafe'
<1> USE DEF DigitsSafe, Peers
<1>0. /\ net \in Seq(Packets) /\ Len(net) \in Nat /\ MaxNet \in Nat
      /\ peer \in Peers
  BY RtpAssumption DEF TypeOK
<1>1. ASSUME NEW ts \in 0..MaxEvents, NEW event \in Events, PeerSends(ts, event),
             peer'.events \in Nat, peer.events <= peer'.events,
             event # 0 => event = call.listens /\ ts = peer'.events /\ ts >= 1,
             UNCHANGED <<call, rx, last_ts, reported, taken>>
      PROVE  FlowInv' /\ DigitsAreTrue' /\ net' \in Seq(Packets) /\ Len(net') <= MaxNet
  <2> DEFINE p == [src |-> Source, ts |-> ts, event |-> event]
  <2>1. Source \in Addresses
    BY <1>0 DEF Source, Addresses, Ports
  <2>2. p \in Packets /\ p.ts = ts /\ p.event = event
    BY <2>1 DEF Packets
  <2>3. net' = Append(net, p) /\ Len(net) < MaxNet
    BY <1>1 DEF PeerSends
  <2> HIDE DEF p
  <2>4. FlowInv'
    BY <1>1, <2>2, <2>3, SendKeepsFlow
  <2>5. net' \in Seq(Packets) /\ Len(net') <= MaxNet
    BY <1>0, <2>2, <2>3, QueueFacts
  <2>6. DigitsAreTrue'
    BY <1>1 DEF DigitsAreTrue
  <2> QED
    BY <2>4, <2>5, <2>6
<1>2. CASE PeerSendsAudio
  <2>1. /\ PeerSends(0, 0)
        /\ UNCHANGED <<peer, invite, call, signalled, remote, rx, silence, last_ts, reported, taken>>
    BY <1>2 DEF PeerSendsAudio, media
  <2>2. 0 \in 0..MaxEvents /\ 0 \in Events
    BY RtpAssumption DEF Events
  <2>3. FlowInv' /\ DigitsAreTrue' /\ net' \in Seq(Packets) /\ Len(net') <= MaxNet
    BY <1>0, <1>1, <2>1, <2>2
  <2> QED
    BY <2>1, <2>3 DEF TypeOK, PromiseInv
<1>3. CASE PeerPresses
  <2>1. /\ peer.events < MaxEvents /\ peer.event # 0
        /\ PeerSends(peer.events + 1, peer.event)
        /\ peer' = [peer EXCEPT !.events = @ + 1]
        /\ UNCHANGED <<invite, call, signalled, remote, rx, silence, last_ts, reported, taken>>
    BY <1>3 DEF PeerPresses, media
  <2>2. /\ peer.events + 1 \in 0..MaxEvents /\ peer.event \in Events
        /\ peer'.events = peer.events + 1 /\ peer.events \in Nat
        /\ peer.event = call.listens
    BY <1>0, <2>1, RtpAssumption DEF PromiseInv
  <2>3. FlowInv' /\ DigitsAreTrue' /\ net' \in Seq(Packets) /\ Len(net') <= MaxNet
    BY <1>1, <2>1, <2>2
  <2>4. peer' \in Peers
    BY <1>0, <2>1, <2>2
  <2>5. TypeOK'
    BY <2>1, <2>3, <2>4 DEF TypeOK
  <2>6. PromiseInv'
    BY <1>0, <2>1 DEF PromiseInv
  <2> QED
    BY <2>3, <2>5, <2>6
<1>4. CASE PeerHolds
  <2>1. /\ peer.events > 0 /\ peer.event # 0 /\ PeerSends(peer.events, peer.event)
        /\ UNCHANGED <<peer, invite, call, signalled, remote, rx, silence, last_ts, reported, taken>>
    BY <1>4 DEF PeerHolds, media
  <2>2. /\ peer.events \in 0..MaxEvents /\ peer.event \in Events
        /\ peer.events \in Nat /\ peer.events >= 1 /\ peer.event = call.listens
    BY <1>0, <2>1, RtpAssumption DEF PromiseInv
  <2>3. FlowInv' /\ DigitsAreTrue' /\ net' \in Seq(Packets) /\ Len(net') <= MaxNet
    BY <1>1, <2>1, <2>2
  <2> QED
    BY <2>1, <2>3 DEF TypeOK, PromiseInv
<1>5. CASE PeerOffers
  <2>1. /\ peer.offers < MaxOffers
        /\ UNCHANGED <<net, call, signalled, remote, rx, silence, last_ts, reported, taken>>
        /\ \/ /\ invite' = [kind |-> "offer", sdp |-> None]
              /\ peer' = [peer EXCEPT !.offers = @ + 1]
           \/ \E o \in Offers :
                 /\ invite' = [kind |-> "offer", sdp |-> o]
                 /\ peer' = [peer EXCEPT !.offers = @ + 1, !.at = o.host, !.sends = o.sends,
                                         !.event = 0]
    BY <1>5 DEF PeerOffers, media
  <2>2. /\ invite' \in Invites /\ invite'.kind = "offer"
        /\ peer'.events = peer.events /\ peer'.event \in {0, peer.event}
        /\ peer'.before = peer.before /\ peer' \in Peers
    <3>1. peer.offers + 1 \in 0..MaxOffers
      <4>1. peer.offers \in 0..MaxOffers /\ peer.offers < MaxOffers
        BY <1>0, <2>1
      <4> QED
        BY <4>1, RtpAssumption
    <3>2. CASE invite' = [kind |-> "offer", sdp |-> None] /\ peer' = [peer EXCEPT !.offers = @ + 1]
      BY <1>0, <3>1, <3>2 DEF Invites
    <3>3. ASSUME NEW o \in Offers, invite' = [kind |-> "offer", sdp |-> o],
                 peer' = [peer EXCEPT !.offers = @ + 1, !.at = o.host, !.sends = o.sends, !.event = 0]
          PROVE  /\ invite' \in Invites /\ invite'.kind = "offer"
                 /\ peer'.events = peer.events /\ peer'.event \in {0, peer.event}
                 /\ peer'.before = peer.before /\ peer' \in Peers
      <4>1. o.host \in Hosts /\ o.sends \in BOOLEAN /\ 0 \in Events
        BY DEF Offers, Events
      <4> QED
        BY <1>0, <3>1, <3>3, <4>1 DEF Invites
    <3> QED
      BY <2>1, <3>2, <3>3
  <2>3. FlowInv' /\ DigitsAreTrue'
    BY <2>1, <2>2, FlowFrame
  <2>4. TypeOK' /\ PromiseInv'
    BY <2>1, <2>2 DEF TypeOK, PromiseInv
  <2> QED
    BY <2>3, <2>4
<1>6. CASE PeerHears
  <2>1. /\ invite # None /\ invite.kind = "answer" /\ invite' = None
        /\ UNCHANGED <<net, call, signalled, remote, rx, silence, last_ts, reported, taken>>
        /\ peer' = IF invite.code = 200
                   THEN [peer EXCEPT !.event = invite.event,
                                     !.before = [@ EXCEPT !.host = peer.at, !.sends = peer.sends,
                                                          !.event = invite.event]]
                   ELSE [peer EXCEPT !.at = peer.before.host, !.sends = peer.before.sends,
                                     !.event = peer.before.event]
    BY <1>6 DEF PeerHears, media
  <2>2. invite.event \in Events /\ invite.event \in {0, call.listens}
    BY <2>1 DEF TypeOK, Invites, PromiseInv
  <2>3. /\ peer' \in Peers
        /\ peer'.events = peer.events
        /\ peer'.event \in {peer.before.event, invite.event}
        /\ peer'.before.event \in {peer.before.event, invite.event}
    <3>1. /\ peer \in Peers /\ peer.at \in Hosts /\ peer.sends \in BOOLEAN
          /\ peer.before \in [host : Hosts, sends : BOOLEAN, event : Events]
      BY <1>0
    <3>2. CASE invite.code = 200
      <4> DEFINE agreed == [peer.before EXCEPT !.host = peer.at, !.sends = peer.sends,
                                               !.event = invite.event]
      <4>1. /\ agreed \in [host : Hosts, sends : BOOLEAN, event : Events]
            /\ agreed.event = invite.event
        BY <2>2, <3>1
      <4>2. peer' = [peer EXCEPT !.event = invite.event, !.before = agreed]
        BY <2>1, <3>2
      <4> HIDE DEF agreed
      <4> QED
        BY <2>2, <3>1, <4>1, <4>2
    <3>3. CASE invite.code # 200
      <4>1. peer' = [peer EXCEPT !.at = peer.before.host, !.sends = peer.before.sends,
                                 !.event = peer.before.event]
        BY <2>1, <3>3
      <4> QED
        BY <3>1, <4>1
    <3> QED
      BY <3>2, <3>3
  <2>4. FlowInv' /\ DigitsAreTrue'
    BY <2>1, <2>3, FlowFrame
  <2>5. TypeOK' /\ PromiseInv'
    BY <2>1, <2>2, <2>3 DEF TypeOK, PromiseInv
  <2> QED
    BY <2>4, <2>5
<1>7. CASE PeerVanishes
  <2>1. /\ peer' = [peer EXCEPT !.alive = FALSE]
        /\ UNCHANGED <<invite, net, call, signalled, remote, rx, silence, last_ts, reported, taken>>
    BY <1>7 DEF PeerVanishes, media
  <2>2. /\ peer' \in Peers
        /\ peer'.events = peer.events /\ peer'.event = peer.event /\ peer'.before = peer.before
    BY <1>0, <2>1
  <2>3. FlowInv' /\ DigitsAreTrue'
    BY <2>1, <2>2, FlowFrame
  <2> QED
    BY <2>1, <2>2, <2>3 DEF TypeOK, PromiseInv
<1> QED
  BY <1>2, <1>3, <1>4, <1>5, <1>6, <1>7

\* The parts of a call, of an offer and of its answer.
LEMMA CallFacts ==
    ASSUME TypeOK
    PROVE  /\ call.event \in Events /\ call.listens \in Events /\ call.sends \in BOOLEAN
           /\ call.state \in {"early", "answered", "failed", "silent"}
           /\ call \in [state : {"early", "answered", "failed", "silent"},
                        sends : BOOLEAN, event : Events, listens : Events]
           /\ \A e \in Events : AnswerEvent(e) \in Events /\ AnswerEvent(e) \in {0, call.listens}
           /\ \A c \in Codes, e \in Events : [kind |-> "answer", code |-> c, event |-> e] \in Invites
BY DEF TypeOK, AnswerEvent, Events, Invites

\* The type of the history.
TakenType ==
    [events : SUBSET (1..MaxEvents), sends : BOOLEAN, held : BOOLEAN, ticks : 0..(Timeout + 1)]

\* What counts as an offer is one, and is what the peer has sent.
LEMMA OfferFacts ==
    ASSUME TypeOK, invite # None, invite.kind = "offer"
    PROVE  /\ invite.sdp \in Offers \cup {None}
           /\ Offer # None => /\ Offer \in Offers /\ Offer = invite.sdp
                              /\ Offer.host \in Hosts /\ Offer.sends \in BOOLEAN
                              /\ Offer.event \in Events
           /\ Offer = None => invite.sdp = None \/ invite.sdp.null
           /\ invite.sdp # None => invite.sdp.sends \in BOOLEAN
<1>1. invite \in Invites
  BY DEF TypeOK
<1>2. invite.sdp \in Offers \cup {None}
  BY <1>1 DEF Invites
<1>3. \A o \in Offers : o.host \in Hosts /\ o.sends \in BOOLEAN /\ o.event \in Events
  BY DEF Offers, Offered, Events
<1> QED
  BY <1>2, <1>3, NoneAssumption DEF Offer

(***************************************************************************)
(* The event loop's steps: the renegotiations, the watchdog's ticks and    *)
(* the end of the call.                                                    *)
(***************************************************************************)
LEMMA LoopKeepsDigits ==
    ASSUME DigitsSafe,
           \/ Answered \/ ReinviteRefused \/ ReinviteAccepted \/ Tick
           \/ \E end \in {"failed", "silent"} : check_media(end)
    PROVE  DigitsSafe'
<1> USE DEF DigitsSafe
<1>1. CASE Answered
  <2>1. /\ call' = [call EXCEPT !.state = "answered"]
        /\ UNCHANGED <<peer, invite, net, signalled, remote, rx, silence, last_ts, reported, taken>>
    BY <1>1 DEF Answered, media
  <2>2. /\ call' \in [state : {"early", "answered", "failed", "silent"},
                      sends : BOOLEAN, event : Events, listens : Events]
        /\ call'.listens = call.listens
    BY <2>1, CallFacts
  <2>3. FlowInv' /\ DigitsAreTrue'
    BY <2>1, <2>2, FlowFrame
  <2> QED
    BY <2>1, <2>2, <2>3 DEF TypeOK, PromiseInv
<1>2. CASE ReinviteRefused
  <2>1. /\ UNCHANGED <<peer, net, call, signalled, remote, rx, silence, last_ts, reported, taken>>
        /\ \E c \in {488, 491} : invite' = [kind |-> "answer", code |-> c, event |-> 0]
    BY <1>2 DEF ReinviteRefused, Reply, media
  <2>2. invite' \in Invites /\ invite'.event = 0
    BY <2>1, CallFacts DEF Codes, Events
  <2>3. FlowInv' /\ DigitsAreTrue'
    BY <2>1, FlowFrame
  <2> QED
    BY <2>1, <2>2, <2>3 DEF TypeOK, PromiseInv
<1>3. CASE ReinviteAccepted
  <2>1. /\ invite # None /\ invite.kind = "offer"
        /\ UNCHANGED <<peer, net, rx, last_ts, reported>>
        /\ taken' = IF invite.sdp = None THEN taken
                    ELSE [taken EXCEPT !.sends = invite.sdp.sends,
                                       !.held = DirectionLost,
                                       !.ticks = IF invite.sdp.null THEN @ ELSE 0]
    BY <1>3 DEF ReinviteAccepted
  <2>2. /\ taken'.events = taken.events
        /\ taken' \in TakenType
    <3>1. /\ 0 \in 0..(Timeout + 1) /\ DirectionLost \in BOOLEAN
          /\ taken \in TakenType
      BY RtpAssumption DEF DirectionLost, TypeOK, TakenType
    <3> DEFINE n == IF invite.sdp.null THEN taken.ticks ELSE 0
    <3>2. n \in 0..(Timeout + 1)
      BY <3>1 DEF TakenType
    <3>3. CASE invite.sdp # None
      <4>1. taken' = [taken EXCEPT !.sends = invite.sdp.sends, !.held = DirectionLost, !.ticks = n]
        BY <2>1, <3>3
      <4>2. invite.sdp.sends \in BOOLEAN
        BY <2>1, <3>3, OfferFacts
      <4> HIDE DEF n
      <4> QED
        BY <3>1, <3>2, <4>1, <4>2 DEF TakenType
    <3> QED
      BY <2>1, <3>1, <3>3
  <2>3. /\ invite' \in Invites /\ invite'.kind = "answer" /\ invite'.event \in {0, call.listens}
        /\ call' \in [state : {"early", "answered", "failed", "silent"},
                      sends : BOOLEAN, event : Events, listens : Events]
        /\ call'.listens = call.listens
        /\ signalled' \in [host : Hosts, latched : BOOLEAN] /\ remote' \in Addresses
        /\ silence' \in 0..(Timeout + 1)
    <3>1. CASE Offer = None
      <4>1. /\ invite' = [kind |-> "answer", code |-> 200, event |-> AnswerEvent(call.event)]
            /\ UNCHANGED <<call, signalled, remote, silence>>
        BY <1>3, <3>1 DEF ReinviteAccepted, Reply
      <4> QED
        BY <4>1, CallFacts DEF Codes, TypeOK
    <3>2. CASE Offer # None
      <4>1. /\ invite' = [kind |-> "answer", code |-> 200, event |-> AnswerEvent(Offer.event)]
            /\ call' = [call EXCEPT !.sends = Offer.sends, !.event = Offer.event]
            /\ signalled' = [host |-> Offer.host,
                             latched |-> signalled.latched /\ signalled.host = Offer.host]
            /\ remote' = At(Offer.host)
            /\ silence' = 0
        BY <1>3, <3>2 DEF ReinviteAccepted, Reply, set_remote, reset_silence
      <4>2. Offer.host \in Hosts /\ Offer.sends \in BOOLEAN /\ Offer.event \in Events
        BY <2>1, <3>2, OfferFacts
      <4>3. (signalled.latched /\ signalled.host = Offer.host) \in BOOLEAN
        BY DEF TypeOK
      <4>4. remote' \in Addresses /\ 0 \in 0..(Timeout + 1)
        BY <4>1, <4>2, RtpAssumption DEF At, Addresses, Ports
      <4>5. invite' \in Invites /\ invite'.kind = "answer" /\ invite'.event \in {0, call.listens}
        BY <4>1, <4>2, CallFacts DEF Codes
      <4>6. /\ call' \in [state : {"early", "answered", "failed", "silent"},
                          sends : BOOLEAN, event : Events, listens : Events]
            /\ call'.listens = call.listens
        BY <4>1, <4>2, CallFacts
      <4> QED
        BY <4>1, <4>2, <4>3, <4>4, <4>5, <4>6 DEF TypeOK
    <3> QED
      BY <3>1, <3>2
  <2>4. FlowInv' /\ DigitsAreTrue'
    BY <2>1, <2>2, <2>3, FlowFrame
  <2> QED
    BY <2>1, <2>2, <2>3, <2>4 DEF TypeOK, TakenType, PromiseInv
<1>4. CASE Tick
  <2>1. /\ silence <= Timeout /\ silence' = silence + 1
        /\ taken' = [taken EXCEPT !.ticks = IF @ > Timeout THEN @ ELSE @ + 1]
        /\ UNCHANGED <<peer, invite, net, call, signalled, remote, rx, last_ts, reported>>
    BY <1>4 DEF Tick
  <2>2. /\ silence' \in 0..(Timeout + 1) /\ taken'.events = taken.events
        /\ taken' \in TakenType
    <3>1. /\ silence \in 0..(Timeout + 1) /\ Timeout \in Nat
          /\ taken \in TakenType
      BY RtpAssumption DEF TypeOK, TakenType
    <3> DEFINE n == IF taken.ticks > Timeout THEN taken.ticks ELSE taken.ticks + 1
    <3>2. n \in 0..(Timeout + 1) /\ silence' \in 0..(Timeout + 1)
      BY <2>1, <3>1 DEF TakenType
    <3>3. taken' = [taken EXCEPT !.ticks = n]
      BY <2>1
    <3> HIDE DEF n
    <3> QED
      BY <3>1, <3>2, <3>3 DEF TakenType
  <2>3. FlowInv' /\ DigitsAreTrue'
    BY <2>1, <2>2, FlowFrame
  <2> QED
    BY <2>1, <2>2, <2>3 DEF TypeOK, TakenType, PromiseInv
<1>5. ASSUME NEW end \in {"failed", "silent"}, check_media(end) PROVE DigitsSafe'
  <2>1. /\ call' = [call EXCEPT !.state = end]
        /\ invite' = None /\ net' = << >> /\ rx' = None
        /\ UNCHANGED <<peer, signalled, remote, silence, last_ts, reported, taken>>
    BY <1>5 DEF check_media
  <2>2. /\ call' \in [state : {"early", "answered", "failed", "silent"},
                      sends : BOOLEAN, event : Events, listens : Events]
        /\ call'.listens = call.listens
    BY <2>1, CallFacts
  <2>3. FlowInv' /\ DigitsAreTrue'
    BY <2>1 DEF FlowInv, DigitsAreTrue
  <2>4. net' \in Seq(Packets) /\ Len(net') <= MaxNet
    BY <2>1, RtpAssumption
  <2> QED
    BY <2>1, <2>2, <2>3, <2>4 DEF TypeOK, PromiseInv
<1> QED
  BY <1>1, <1>2, <1>3, <1>4, <1>5

(***************************************************************************)
(* The network's loss, and the receiver's steps.                           *)
(***************************************************************************)
LEMMA ReceiverKeepsDigits ==
    ASSUME DigitsSafe, Lose \/ Receive \/ Process
    PROVE  DigitsSafe'
<1> USE DEF DigitsSafe
<1>0. net \in Seq(Packets) /\ Len(net) \in Nat /\ Len(net) <= MaxNet /\ MaxNet \in Nat
  BY RtpAssumption DEF TypeOK
<1>1. CASE Lose
  <2>1. /\ net # << >> /\ net' = Tail(net)
        /\ UNCHANGED <<peer, invite, call, signalled, remote, rx, silence, last_ts, reported, taken>>
    BY <1>1 DEF Lose, media
  <2>2. net' \in Seq(Packets) /\ Len(net') <= MaxNet
    BY <1>0, <2>1, QueueFacts
  <2>3. FlowInv' /\ DigitsAreTrue'
    BY <2>1, TakeKeepsFlow DEF DigitsAreTrue
  <2> QED
    BY <2>1, <2>2, <2>3 DEF TypeOK, PromiseInv
<1>2. CASE Receive
  <2>1. /\ net # << >> /\ net' = Tail(net) /\ (rx' = Head(net) \/ rx' = None)
        /\ UNCHANGED <<peer, invite, call, signalled, remote, silence, last_ts, reported, taken>>
    BY <1>2 DEF Receive
  <2>2. net' \in Seq(Packets) /\ Len(net') <= MaxNet /\ rx' \in {None} \cup Packets
    BY <1>0, <2>1, QueueFacts
  <2>3. FlowInv' /\ DigitsAreTrue'
    BY <2>1, TakeKeepsFlow DEF DigitsAreTrue
  <2> QED
    BY <2>1, <2>2, <2>3 DEF TypeOK, PromiseInv
<1>3. CASE Process
  <2>1. /\ rx \in Packets /\ rx' = None /\ silence' = 0 /\ Latch
        /\ UNCHANGED <<peer, invite, net, call>>
    BY <1>3 DEF Process, TypeOK
  <2>2. /\ FlowInv' /\ DigitsAreTrue' /\ reported' \in Seq(1..MaxEvents)
        /\ last_ts' \in 0..MaxEvents /\ taken'.events \in SUBSET (1..MaxEvents)
    BY <1>3, ProcessKeepsDigits
  <2>3. signalled' \in [host : Hosts, latched : BOOLEAN] /\ remote' \in Addresses
    BY <2>1 DEF Latch, TypeOK, Packets
  <2>4. taken' \in TakenType
    <3>1. taken' = taken \/ taken' = [taken EXCEPT !.events = @ \cup {rx.ts}]
      BY <1>3 DEF Process
    <3> QED
      BY <2>2, <3>1 DEF TypeOK, TakenType
  <2>5. silence' \in 0..(Timeout + 1)
    BY <2>1, RtpAssumption
  <2> QED
    BY <2>1, <2>2, <2>3, <2>4, <2>5 DEF TypeOK, TakenType, PromiseInv
<1> QED
  BY <1>1, <1>2, <1>3

(***************************************************************************)
(* The invariant of the digits holds of every behaviour.                   *)
(***************************************************************************)
THEOREM DigitsSafeHolds == Spec => []DigitsSafe
<1>1. Init => DigitsSafe
  <2> SUFFICES ASSUME Init PROVE DigitsSafe
    OBVIOUS
  <2>1. PICK h \in Hosts, event \in {0, 1} :
          /\ peer = [at |-> h, sends |-> TRUE, alive |-> TRUE, event |-> event,
                     offers |-> 0, events |-> 0,
                     before |-> [host |-> h, sends |-> TRUE, event |-> event]]
          /\ call = [state |-> "early", sends |-> TRUE, event |-> event, listens |-> event]
          /\ signalled = [host |-> h, latched |-> FALSE]
          /\ remote = At(h)
          /\ invite = None /\ net = <<>> /\ rx = None
          /\ silence = 0 /\ last_ts = 0 /\ reported = <<>>
          /\ taken = [events |-> {}, sends |-> TRUE, held |-> FALSE, ticks |-> 0]
    BY DEF Init
  <2>2. event \in Events /\ 0 \in 0..MaxOffers /\ 0 \in 0..MaxEvents /\ 0 \in 0..(Timeout + 1)
    BY RtpAssumption DEF Events
  <2>3. peer \in Peers /\ remote \in Addresses
    BY <2>1, <2>2 DEF Peers, At, Addresses, Ports
  <2>4. TypeOK
    BY <2>1, <2>2, <2>3, RtpAssumption DEF TypeOK
  <2>5. FlowInv /\ PromiseInv /\ DigitsAreTrue
    BY <2>1 DEF FlowInv, PromiseInv, DigitsAreTrue
  <2> QED
    BY <2>4, <2>5 DEF DigitsSafe
<1>2. DigitsSafe /\ [Next]_vars => DigitsSafe'
  <2> SUFFICES ASSUME DigitsSafe, [Next]_vars PROVE DigitsSafe'
    OBVIOUS
  <2>1. CASE UNCHANGED vars
    <3>1. UNCHANGED <<peer, invite, net, call, signalled, remote, rx, silence, last_ts,
                      reported, taken>>
      BY <2>1 DEF vars
    <3>2. FlowInv' /\ DigitsAreTrue'
      BY <3>1, FlowFrame DEF DigitsSafe
    <3> QED
      BY <3>1, <3>2 DEF DigitsSafe, TypeOK, PromiseInv
  <2>2. CASE PeerSendsAudio \/ PeerPresses \/ PeerHolds \/ PeerOffers \/ PeerHears \/ PeerVanishes
    BY <2>2, PeerKeepsDigits
  <2>3. CASE \/ Answered \/ ReinviteRefused \/ ReinviteAccepted \/ Tick
             \/ \E end \in {"failed", "silent"} : check_media(end)
    BY <2>3, LoopKeepsDigits
  <2>4. CASE Lose \/ Receive \/ Process
    BY <2>4, ReceiverKeepsDigits
  <2> QED
    BY <2>1, <2>2, <2>3, <2>4 DEF Next
<1> QED
  BY <1>1, <1>2, PTL DEF Spec

(***************************************************************************)
(* Every variable keeps its type.                                          *)
(***************************************************************************)
THEOREM RtpTypeCorrect == Spec => []TypeOK
BY DigitsSafeHolds, PTL DEF DigitsSafe

(***************************************************************************)
(* The digits the event loop gets are those the peer has pressed and the   *)
(* receiver had a packet of, in order and once each, whatever is lost and  *)
(* whatever payload types are offered ("losing it used to mean losing the  *)
(* digit entirely").                                                       *)
(***************************************************************************)
THEOREM DigitsAreReported == Spec => []DigitsAreTrue
BY DigitsSafeHolds, PTL DEF DigitsSafe

----------------------------------------------------------------------------
(* What both ends go by.                                                   *)

\* What the steps keep together.
AgreeSafe == AgreeInv /\ SilenceInv /\ WatchdogIsFair

\* Steps that only let packets through, or mark their passing.
LEMMA AgreeFrame ==
    ASSUME DigitsSafe, AgreeSafe, UNCHANGED <<invite, call>>,
           peer'.at = peer.at, peer'.sends = peer.sends, peer'.before = peer.before,
           signalled'.host = signalled.host,
           taken'.sends = taken.sends, taken'.held = taken.held, taken'.ticks = taken.ticks,
           silence' = silence \/ silence' = 0
    PROVE  AgreeSafe'
<1>1. taken.ticks \in Nat
  BY RtpAssumption DEF DigitsSafe, TypeOK
<1> QED
  BY <1>1 DEF AgreeSafe, AgreeInv, SilenceInv, WatchdogIsFair, Up

(***************************************************************************)
(* A call ends for silence when the offer in force has the peer sending,   *)
(* and the silence is no older than that (check_media).                    *)
(***************************************************************************)
LEMMA EndKeepsAgreement ==
    ASSUME DigitsSafe, AgreeSafe, NEW end \in {"failed", "silent"}, check_media(end)
    PROVE  AgreeSafe'
<1>1. /\ Up /\ (end = "silent" => PeerIsGone)
      /\ call' = [call EXCEPT !.state = end]
      /\ UNCHANGED <<silence, taken>>
  BY DEF check_media
<1>2. call'.state = end /\ ~Up'
  BY <1>1, CallFacts DEF DigitsSafe, Up
<1>3. end = "silent" => taken.ticks > Timeout /\ (taken.sends \/ taken.held)
  <2>1. /\ taken.sends # call.sends <=> taken.held
        /\ silence <= taken.ticks
        /\ silence \in Nat /\ taken.ticks \in Nat /\ Timeout \in Nat
    BY <1>1, RtpAssumption DEF AgreeSafe, SilenceInv, DigitsSafe, TypeOK
  <2> QED
    BY <1>1, <2>1 DEF PeerIsGone
<1> QED
  BY <1>1, <1>2, <1>3 DEF AgreeSafe, AgreeInv, SilenceInv, WatchdogIsFair

(***************************************************************************)
(* An offer of the peer, and the answer it hears: it goes by what it has   *)
(* offered, and back to what was agreed when that is refused.              *)
(***************************************************************************)
LEMMA PeerKeepsAgreement ==
    ASSUME DigitsSafe, AgreeSafe, PeerOffers \/ PeerHears
    PROVE  AgreeSafe'
<1> USE DEF AgreeSafe
<1>0. peer \in Peers
  BY DEF DigitsSafe, TypeOK
<1>1. CASE PeerOffers
  <2>1. /\ Up /\ invite = None
        /\ UNCHANGED <<call, signalled, silence, taken>>
    BY <1>1 DEF PeerOffers, media
  <2>2. /\ peer.at = signalled.host /\ (peer.sends # call.sends <=> taken.held)
        /\ peer.before.host = signalled.host /\ (peer.before.sends # call.sends <=> taken.held)
    BY <2>1 DEF AgreeInv
  <2>3. CASE invite' = [kind |-> "offer", sdp |-> None] /\ peer' = [peer EXCEPT !.offers = @ + 1]
    <3>1. peer'.at = peer.at /\ peer'.sends = peer.sends /\ peer'.before = peer.before
      BY <1>0, <2>3 DEF Peers
    <3>2. invite'.kind = "offer" /\ invite'.sdp = None
      BY <2>3
    <3>3. AgreeInv'
      BY <2>1, <2>2, <3>1, <3>2 DEF AgreeInv, Up
    <3> QED
      BY <2>1, <3>3 DEF SilenceInv, WatchdogIsFair, Up
  <2>4. ASSUME NEW o \in Offers, o.null => o.host = peer.at,
               invite' = [kind |-> "offer", sdp |-> o],
               peer' = [peer EXCEPT !.offers = @ + 1, !.at = o.host, !.sends = o.sends, !.event = 0]
        PROVE  AgreeSafe'
    <3>1. peer'.at = o.host /\ peer'.sends = o.sends /\ peer'.before = peer.before
      BY <1>0, <2>4 DEF Peers
    <3>2. invite'.kind = "offer" /\ invite'.sdp = o /\ o # None /\ invite' # None
      BY <2>4, NoneAssumption DEF Invites
    <3>3. AgreeInv'
      BY <2>1, <2>2, <2>4, <3>1, <3>2 DEF AgreeInv, Up
    <3> QED
      BY <2>1, <3>3 DEF SilenceInv, WatchdogIsFair, Up
  <2> QED
    BY <1>1, <2>3, <2>4 DEF PeerOffers
<1>2. CASE PeerHears
  <2>1. /\ Up /\ invite # None /\ invite.kind = "answer" /\ invite' = None
        /\ UNCHANGED <<call, signalled, silence, taken>>
    BY <1>2 DEF PeerHears, media
  <2>2. /\ peer'.at = signalled.host /\ (peer'.sends # call.sends <=> taken.held)
        /\ peer'.before.host = signalled.host /\ (peer'.before.sends # call.sends <=> taken.held)
    <3>1. CASE invite.code = 200
      <4>1. peer' = [peer EXCEPT !.event = invite.event,
                                 !.before = [@ EXCEPT !.host = peer.at, !.sends = peer.sends,
                                                      !.event = invite.event]]
        BY <1>2, <3>1 DEF PeerHears
      <4>2. peer.at = signalled.host /\ (peer.sends # call.sends <=> taken.held)
        BY <2>1, <3>1 DEF AgreeInv
      <4>3. peer'.at = peer.at /\ peer'.sends = peer.sends
        BY <1>0, <4>1 DEF Peers
      <4>4. peer'.before.host = peer.at /\ peer'.before.sends = peer.sends
        BY <1>0, <4>1 DEF Peers
      <4> QED
        BY <4>2, <4>3, <4>4
    <3>2. CASE invite.code # 200
      <4>1. peer' = [peer EXCEPT !.at = peer.before.host, !.sends = peer.before.sends,
                                 !.event = peer.before.event]
        BY <1>2, <3>2 DEF PeerHears
      <4>2. peer.before.host = signalled.host /\ (peer.before.sends # call.sends <=> taken.held)
        BY <2>1, <3>2 DEF AgreeInv
      <4>3. /\ peer'.at = peer.before.host /\ peer'.sends = peer.before.sends
            /\ peer'.before = peer.before
        BY <1>0, <4>1 DEF Peers
      <4> QED
        BY <4>2, <4>3
    <3> QED
      BY <3>1, <3>2
  <2>3. AgreeInv'
    BY <2>1, <2>2 DEF AgreeInv, Up
  <2> QED
    BY <2>1, <2>3 DEF SilenceInv, WatchdogIsFair, Up
<1> QED
  BY <1>1, <1>2

(***************************************************************************)
(* A re-INVITE that is refused changes nothing; one that is accepted takes *)
(* the gateway to where the peer already is (on_sip_reinvite).             *)
(***************************************************************************)
LEMMA AnswerKeepsAgreement ==
    ASSUME DigitsSafe, AgreeSafe, ReinviteRefused \/ ReinviteAccepted
    PROVE  AgreeSafe'
<1> USE DEF AgreeSafe
<1>1. CASE ReinviteRefused
  <2>1. /\ Up /\ invite # None /\ invite.kind = "offer"
        /\ UNCHANGED <<peer, call, signalled, silence, taken>>
        /\ \E c \in {488, 491} : invite' = [kind |-> "answer", code |-> c, event |-> 0]
    BY <1>1 DEF ReinviteRefused, Reply, media
  <2>2. invite' \in Invites /\ invite' # None /\ invite'.kind = "answer" /\ invite'.code # 200
    BY <2>1, CallFacts, NoneAssumption DEF Codes, Events, DigitsSafe
  <2>3. AgreeInv'
    BY <2>1, <2>2 DEF AgreeInv, Up
  <2> QED
    BY <2>1, <2>3 DEF SilenceInv, WatchdogIsFair, Up
<1>2. CASE ReinviteAccepted
  <2>1. /\ Up /\ call.state = "answered" /\ invite # None /\ invite.kind = "offer"
        /\ UNCHANGED peer
        /\ taken' = IF invite.sdp = None THEN taken
                    ELSE [taken EXCEPT !.sends = invite.sdp.sends,
                                       !.held = DirectionLost,
                                       !.ticks = IF invite.sdp.null THEN @ ELSE 0]
        /\ \E e : invite' = [kind |-> "answer", code |-> 200, event |-> e]
    BY <1>2 DEF ReinviteAccepted, Reply, Up
  <2>2. invite'.kind = "answer" /\ invite'.code = 200
    BY <2>1
  <2>3. CASE Offer = None
    <3>1. UNCHANGED <<call, signalled, silence>>
      BY <1>2, <2>3 DEF ReinviteAccepted
    <3>2. invite' # None
      <4>1. \E c \in Codes, e \in Events : invite' = [kind |-> "answer", code |-> c, event |-> e]
        BY <1>2, <2>1, <2>3, CallFacts DEF ReinviteAccepted, Reply, Codes, DigitsSafe
      <4> QED
        BY <4>1, CallFacts, NoneAssumption DEF DigitsSafe
    <3>3. CASE invite.sdp = None
      <4>1. peer.at = signalled.host /\ (peer.sends # call.sends <=> taken.held)
        BY <2>1, <3>3 DEF AgreeInv
      <4>2. UNCHANGED taken
        BY <2>1, <3>3
      <4>3. AgreeInv'
        BY <2>1, <2>2, <3>1, <3>2, <4>1, <4>2 DEF AgreeInv, Up
      <4> QED
        BY <2>1, <3>1, <4>2, <4>3 DEF SilenceInv, WatchdogIsFair, Up
    <3>4. CASE invite.sdp # None
      <4>1. invite.sdp.null
        BY <2>1, <2>3, <3>4, OfferFacts DEF DigitsSafe
      <4>2. peer.at = signalled.host /\ peer.sends = invite.sdp.sends
        BY <2>1, <3>4, <4>1 DEF AgreeInv
      <4>3. /\ taken'.sends = invite.sdp.sends /\ taken'.ticks = taken.ticks
            /\ taken'.held <=> invite.sdp.sends # call.sends
        BY <2>1, <3>4, <4>1 DEF DirectionLost, DigitsSafe, TypeOK
      <4>4. AgreeInv'
        BY <2>1, <2>2, <3>1, <3>2, <4>2, <4>3 DEF AgreeInv, Up
      <4> QED
        BY <2>1, <3>1, <4>3, <4>4 DEF SilenceInv, WatchdogIsFair, Up
    <3> QED
      BY <3>3, <3>4
  <2>4. CASE Offer # None
    <3>1. Offer = invite.sdp /\ invite.sdp # None
      BY <2>1, <2>4, OfferFacts, NoneAssumption DEF DigitsSafe
    <3>2. /\ call' = [call EXCEPT !.sends = Offer.sends, !.event = Offer.event]
          /\ signalled'.host = Offer.host /\ silence' = 0
      BY <1>2, <2>4 DEF ReinviteAccepted, set_remote, reset_silence
    <3>3. peer.at = Offer.host /\ peer.sends = Offer.sends
      BY <2>1, <3>1 DEF AgreeInv
    <3>4. call'.sends = Offer.sends /\ call'.state = "answered"
      BY <2>1, <3>2, CallFacts DEF DigitsSafe
    <3>5. taken'.sends = Offer.sends /\ taken'.ticks = 0 /\ ~taken'.held
      <4>1. ~invite.sdp.null
        BY <2>4, <3>1 DEF Offer
      <4> QED
        BY <2>1, <3>1, <4>1 DEF DirectionLost, DigitsSafe, TypeOK
    <3>6. invite' # None
      <4>1. \E c \in Codes, e \in Events : invite' = [kind |-> "answer", code |-> c, event |-> e]
        BY <1>2, <2>1, <2>4, CallFacts, OfferFacts DEF ReinviteAccepted, Reply, Codes, DigitsSafe
      <4> QED
        BY <4>1, CallFacts, NoneAssumption DEF DigitsSafe
    <3>7. AgreeInv'
      BY <2>1, <2>2, <3>2, <3>3, <3>4, <3>5, <3>6 DEF AgreeInv, Up
    <3> QED
      BY <3>2, <3>4, <3>5, <3>7 DEF SilenceInv, WatchdogIsFair, Up
  <2> QED
    BY <2>3, <2>4
<1> QED
  BY <1>1, <1>2

(***************************************************************************)
(* Every step keeps the two ends in agreement.                             *)
(***************************************************************************)
LEMMA AgreeStep ==
    ASSUME DigitsSafe, AgreeSafe, [Next]_vars
    PROVE  AgreeSafe'
<1>0. peer \in Peers
  BY DEF DigitsSafe, TypeOK
<1>1. CASE PeerSendsAudio \/ PeerHolds \/ Lose \/ Receive \/ UNCHANGED vars
  <2>1. UNCHANGED <<peer, invite, call, signalled, silence, taken>>
    BY <1>1 DEF PeerSendsAudio, PeerHolds, Lose, Receive, vars, media
  <2> QED
    BY <2>1, AgreeFrame
<1>2. CASE PeerPresses \/ PeerVanishes
  <2>1. /\ UNCHANGED <<invite, call, signalled, silence, taken>>
        /\ \/ peer' = [peer EXCEPT !.events = @ + 1]
           \/ peer' = [peer EXCEPT !.alive = FALSE]
    BY <1>2 DEF PeerPresses, PeerVanishes, media
  <2>2. peer'.at = peer.at /\ peer'.sends = peer.sends /\ peer'.before = peer.before
    BY <1>0, <2>1 DEF Peers
  <2> QED
    BY <2>1, <2>2, AgreeFrame
<1>3. CASE Process
  <2>1. UNCHANGED <<peer, invite, call>> /\ silence' = 0
    BY <1>3 DEF Process
  <2>2. signalled'.host = signalled.host
    BY <1>3 DEF Process, Latch, DigitsSafe, TypeOK
  <2>3. taken'.sends = taken.sends /\ taken'.held = taken.held /\ taken'.ticks = taken.ticks
    BY <1>3 DEF Process, DigitsSafe, TypeOK
  <2> QED
    BY <2>1, <2>2, <2>3, AgreeFrame
<1>4. CASE PeerOffers \/ PeerHears
  BY <1>4, PeerKeepsAgreement
<1>5. CASE ReinviteRefused \/ ReinviteAccepted
  BY <1>5, AnswerKeepsAgreement
<1>6. CASE Answered
  <2>1. /\ call.state = "early" /\ call' = [call EXCEPT !.state = "answered"]
        /\ UNCHANGED <<peer, invite, signalled, silence, taken>>
    BY <1>6 DEF Answered, media
  <2>2. call'.sends = call.sends /\ call'.state = "answered" /\ Up
    BY <2>1, CallFacts DEF DigitsSafe, Up
  <2> QED
    BY <2>1, <2>2 DEF AgreeSafe, AgreeInv, SilenceInv, WatchdogIsFair, Up
<1>7. CASE Tick
  <2>1. /\ Up /\ silence <= Timeout /\ silence' = silence + 1
        /\ taken' = [taken EXCEPT !.ticks = IF @ > Timeout THEN @ ELSE @ + 1]
        /\ UNCHANGED <<peer, invite, call, signalled>>
    BY <1>7 DEF Tick
  <2>2. /\ taken'.sends = taken.sends /\ taken'.held = taken.held
        /\ taken'.ticks = IF taken.ticks > Timeout THEN taken.ticks ELSE taken.ticks + 1
        /\ silence \in Nat /\ taken.ticks \in Nat /\ Timeout \in Nat
    BY <2>1, RtpAssumption DEF DigitsSafe, TypeOK
  <2>3. SilenceInv'
    BY <2>1, <2>2 DEF AgreeSafe, SilenceInv, Up
  <2> QED
    BY <2>1, <2>3 DEF AgreeSafe, AgreeInv, WatchdogIsFair, Up
<1>8. ASSUME NEW end \in {"failed", "silent"}, check_media(end) PROVE AgreeSafe'
  BY <1>8, EndKeepsAgreement
<1> QED
  BY <1>1, <1>2, <1>3, <1>4, <1>5, <1>6, <1>7, <1>8 DEF Next

(***************************************************************************)
(* The invariant of the agreement holds of every behaviour.                *)
(***************************************************************************)
THEOREM AgreeSafeHolds == Spec => []AgreeSafe
<1>1. ASSUME Init PROVE AgreeSafe
  <2>1. PICK h \in Hosts :
              /\ peer.at = h /\ peer.sends = TRUE
              /\ peer.before.host = h /\ peer.before.sends = TRUE
              /\ signalled.host = h
    BY <1>1 DEF Init
  <2>2. /\ call.state = "early" /\ call.sends = TRUE /\ invite = None
        /\ silence = 0 /\ taken.sends = TRUE /\ taken.held = FALSE /\ taken.ticks = 0
    BY <1>1 DEF Init
  <2>3. /\ peer.at = signalled.host /\ peer.before.host = signalled.host
        /\ peer.sends # call.sends <=> taken.held
        /\ peer.before.sends # call.sends <=> taken.held
    BY <2>1, <2>2, Zenon
  <2>4. AgreeInv
    BY <2>2, <2>3 DEF AgreeInv
  <2>5. taken.sends # call.sends <=> taken.held
    BY <2>2, Zenon
  <2>6. SilenceInv
    BY <2>2, <2>5 DEF SilenceInv
  <2>7. WatchdogIsFair
    BY <2>2 DEF WatchdogIsFair
  <2> QED
    BY <2>4, <2>6, <2>7 DEF AgreeSafe
<1>2. DigitsSafe /\ AgreeSafe /\ [Next]_vars => AgreeSafe'
  BY AgreeStep
<1> QED
  BY <1>1, <1>2, DigitsSafeHolds, PTL DEF Spec

(***************************************************************************)
(* The watchdog only ends calls whose peer has last offered to send ("a    *)
(* peer that offered a=recvonly or a=inactive has told us it will send     *)
(* nothing"), or told so in a hold with a null address, which has_media    *)
(* throws away; and never before the whole timeout has gone by since the   *)
(* last offer with an address (reset_silence).                             *)
(***************************************************************************)
THEOREM WatchdogWaits == Spec => []WatchdogIsFair
BY AgreeSafeHolds, PTL DEF AgreeSafe

(***************************************************************************)
(* Between re-INVITEs both ends have the same idea of where the peer is    *)
(* heard and of its digits (set_remote, on_sip_reinvite), for any offers,  *)
(* refusals and answers, and of whether it sends exactly when no other     *)
(* direction came with a null address in the offer accepted last.          *)
(***************************************************************************)
THEOREM EndsStayAgreed == Spec => []SessionInv
<1>1. DigitsSafe /\ AgreeSafe => SessionInv
  BY DEF DigitsSafe, AgreeSafe, AgreeInv, PromiseInv, SessionInv, EndsAgree
<1> QED
  BY <1>1, DigitsSafeHolds, AgreeSafeHolds, PTL

----------------------------------------------------------------------------
(* The sound card: the invariant.                                          *)

\* AudioTypeOK of the threads and the card, and of the ring and the tones.
StreamTypeOK ==
    /\ loop \in [pc : {"idle", "opening", "half", "joining", "up"}, s : Streams \cup {NoStream}]
    /\ threads \in [Streams -> [Dirs -> {"none", "opening", "running", "ended"}]]
    /\ ready \in [Streams -> Seq(BOOLEAN)]
    /\ stop \subseteq Streams /\ failed \subseteq Streams
    /\ card \in [Dirs -> Streams \cup {NoStream}]
    /\ wedged \subseteq Dirs

RingTypeOK ==
    /\ ring \in Nat
    /\ tone \in Seq(Frames) /\ Len(tone) <= MaxTone
    /\ traffic \in [late : 0..MaxLate, lost : 0..MaxLost, digits : 0..MaxDigits]

CardSafe == StreamTypeOK /\ StreamInv /\ HoldersAreKnown

RingSafe == RingTypeOK /\ DepthIsKept /\ DigitsAreWhole

----------------------------------------------------------------------------
(* The ring and the tones.                                                *)

\* The depths of the ring towards the modem.
LEMMA Depths ==
    /\ Jitter \in Nat /\ Target \in Nat /\ HighWater \in Nat
    /\ Target >= Jitter /\ Target >= 1 /\ HighWater = 3 * Target
BY AudioAssumption DEF Target, HighWater

\* An operation on a tone's queue keeps its type and its bound.
LEMMA QueueType ==
    ASSUME NEW q \in Seq(Frames), Len(q) <= MaxTone, NEW f \in Seq(Frames)
    PROVE  queue_tone(q, f) \in Seq(Frames) /\ Len(queue_tone(q, f)) <= MaxTone
BY AudioAssumption DEF queue_tone

\* The frames of a digit and of the gap after it.
LEMMA FrameTypes ==
    /\ Silence \in Frames
    /\ [i \in 1..Gap |-> Silence] \in Seq(Frames)
    /\ \A n \in 0..MaxDigits : [i \in 1..Tone |-> [digit |-> n, part |-> i]] \in Seq(Frames)
<1>1. Silence \in Frames
  BY AudioAssumption DEF Silence, Frames
<1>2. [i \in 1..Gap |-> Silence] \in Seq(Frames)
  BY <1>1, AudioAssumption
<1>3. ASSUME NEW n \in 0..MaxDigits
      PROVE  [i \in 1..Tone |-> [digit |-> n, part |-> i]] \in Seq(Frames)
  <2>1. \A i \in 1..Tone : [digit |-> n, part |-> i] \in Frames
    BY DEF Frames
  <2> QED
    BY <2>1, AudioAssumption
<1> QED
  BY <1>1, <1>2, <1>3

\* A ring that is given up is empty.
LEMMA CalmRing ==
    ASSUME RingTypeOK, loop'.pc # "up", ring' = 0, tone' = <<>>, traffic' = Calm
    PROVE  RingSafe'
BY AudioAssumption DEF RingSafe, RingTypeOK, DepthIsKept, DigitsAreWhole, Calm

\* The card takes the front of the ring and of the tones.
LEMMA TakeKeeps ==
    ASSUME RingSafe, TakeForCard
    PROVE  /\ ring' \in Nat /\ ring' <= ring /\ ring' + 1 >= ring
           /\ tone' \in Seq(Frames) /\ Len(tone') <= MaxTone
           /\ DigitsAreWhole'
<1>1. /\ ring' \in Nat /\ ring' <= ring /\ ring' + 1 >= ring
  BY DEF TakeForCard, RingSafe, RingTypeOK
<1>2. CASE tone = <<>>
  BY <1>1, <1>2 DEF TakeForCard, RingSafe, RingTypeOK, DigitsAreWhole
<1>3. CASE tone # <<>>
  <2>1. /\ tone' = Tail(tone) /\ tone \in Seq(Frames) /\ Len(tone) <= MaxTone
    BY <1>3 DEF TakeForCard, RingSafe, RingTypeOK
  <2>2. /\ tone' \in Seq(Frames) /\ Len(tone') = Len(tone) - 1
        /\ \A i \in 1..Len(tone') : tone'[i] = tone[i + 1] /\ i + 1 \in 1..Len(tone)
    BY <1>3, <2>1
  <2>3. DigitsAreWhole'
    <3> SUFFICES ASSUME NEW i \in 1..Len(tone'), tone'[i].digit # 0, tone'[i].part < Tone
                 PROVE  /\ i < Len(tone')
                        /\ tone'[i + 1] = [tone'[i] EXCEPT !.part = @ + 1]
      BY DEF DigitsAreWhole
    <3>1. /\ tone'[i] = tone[i + 1] /\ i + 1 \in 1..Len(tone)
          /\ Len(tone') \in Nat /\ Len(tone) \in Nat /\ i \in Nat
      BY <2>1, <2>2
    <3>2. i + 1 < Len(tone) /\ tone[i + 1 + 1] = [tone[i + 1] EXCEPT !.part = @ + 1]
      BY <3>1 DEF RingSafe, DigitsAreWhole
    <3>3. i < Len(tone') /\ i + 1 \in 1..Len(tone')
      BY <2>2, <3>1, <3>2
    <3> QED
      BY <2>2, <3>1, <3>2, <3>3
  <2> QED
    BY <1>1, <2>1, <2>2, <2>3, AudioAssumption
<1> QED
  BY <1>2, <1>3

\* The numbers of the ring.
LEMMA RingNumbers ==
    ASSUME RingTypeOK
    PROVE  /\ ring \in Nat /\ traffic.late \in Nat /\ traffic.lost \in Nat
           /\ MaxLate \in Nat /\ MaxLost \in Nat /\ traffic.late <= MaxLate /\ traffic.lost <= MaxLost
BY AudioAssumption DEF RingTypeOK

\* The depth is kept by a step that takes no more from the ring than is lost
\* or comes to be under way, or that fills it.
LEMMA DepthStep ==
    ASSUME RingTypeOK, RingTypeOK', DepthIsKept, UNCHANGED loop,
           ring' <= ring \/ ring' <= HighWater,
           \/ ring' + traffic'.late + traffic'.lost >= ring + traffic.late + traffic.lost
           \/ ring' >= Jitter
    PROVE  DepthIsKept'
<1>1. /\ ring' \in Nat /\ traffic'.late \in Nat /\ traffic'.lost \in Nat
      /\ ring \in Nat /\ traffic.late \in Nat /\ traffic.lost \in Nat
  BY AudioAssumption DEF RingTypeOK
<1>2. HighWater' = HighWater
  BY DEF HighWater, Target
<1> QED
  BY <1>1, <1>2, Depths DEF DepthIsKept

\* Every digit in q is there to its end.
Whole(q) ==
    \A i \in 1..Len(q) :
        q[i].digit # 0 /\ q[i].part < Tone =>
            i < Len(q) /\ q[i + 1] = [q[i] EXCEPT !.part = @ + 1]

\* What is whole stays whole when whole tones are queued.
LEMMA WholeTogether ==
    ASSUME NEW q \in Seq(Frames), NEW f \in Seq(Frames), Whole(q), Whole(f)
    PROVE  Whole(queue_tone(q, f))
<1>1. Whole(q \o f)
  <2> SUFFICES ASSUME NEW i \in 1..Len(q \o f), (q \o f)[i].digit # 0, (q \o f)[i].part < Tone
               PROVE  /\ i < Len(q \o f)
                      /\ (q \o f)[i + 1] = [(q \o f)[i] EXCEPT !.part = @ + 1]
    BY DEF Whole
  <2>1. Len(q \o f) = Len(q) + Len(f) /\ Len(q) \in Nat /\ Len(f) \in Nat /\ i \in Nat
    OBVIOUS
  <2>2. CASE i <= Len(q)
    <3>1. (q \o f)[i] = q[i] /\ i \in 1..Len(q)
      BY <2>1, <2>2
    <3>2. i < Len(q) /\ q[i + 1] = [q[i] EXCEPT !.part = @ + 1]
      BY <3>1 DEF Whole
    <3>3. (q \o f)[i + 1] = q[i + 1]
      BY <2>1, <3>2
    <3> QED
      BY <2>1, <3>1, <3>2, <3>3
  <2>3. CASE i > Len(q)
    <3>1. (q \o f)[i] = f[i - Len(q)] /\ i - Len(q) \in 1..Len(f)
      BY <2>1, <2>3
    <3>2. i - Len(q) < Len(f) /\ f[i - Len(q) + 1] = [f[i - Len(q)] EXCEPT !.part = @ + 1]
      BY <3>1 DEF Whole
    <3>3. (q \o f)[i + 1] = f[i - Len(q) + 1]
      BY <2>1, <2>3, <3>2
    <3> QED
      BY <2>1, <3>1, <3>2, <3>3
  <2>4. i <= Len(q) \/ i > Len(q)
    BY <2>1
  <2> QED
    BY <2>2, <2>3, <2>4, Zenon
<1> QED
  BY <1>1 DEF queue_tone

\* A digit of its own is whole.
LEMMA DigitIsWhole ==
    /\ Whole([i \in 1..Gap |-> Silence])
    /\ \A n \in 0..MaxDigits : Whole([i \in 1..Tone |-> [digit |-> n, part |-> i]])
<1>1. Whole([i \in 1..Gap |-> Silence])
  <2>1. \A i \in 1..Len([j \in 1..Gap |-> Silence]) : [j \in 1..Gap |-> Silence][i].digit = 0
    BY AudioAssumption DEF Silence
  <2> QED
    BY <2>1 DEF Whole
<1>2. ASSUME NEW n \in 0..MaxDigits
      PROVE  Whole([i \in 1..Tone |-> [digit |-> n, part |-> i]])
  <2> DEFINE d == [i \in 1..Tone |-> [digit |-> n, part |-> i]]
  <2>1. Len(d) = Tone /\ Tone \in Nat
    BY AudioAssumption
  <2>2. \A i \in 1..Tone : d[i] = [digit |-> n, part |-> i]
    OBVIOUS
  <2> HIDE DEF d
  <2>3. Whole(d)
    BY <2>1, <2>2 DEF Whole
  <2> QED
    BY <2>3 DEF d
<1> QED
  BY <1>1, <1>2

\* Every step keeps the ring and the tones right.
LEMMA RingStep == CardSafe /\ RingSafe /\ [AudioNext]_audioVars => RingSafe'
<1> SUFFICES ASSUME CardSafe, RingSafe, [AudioNext]_audioVars PROVE RingSafe'
  OBVIOUS
<1> USE DEF RingSafe, RingTypeOK
<1>1. ASSUME UNCHANGED <<tone, traffic>>, ring' \in {ring, Jitter},
             loop'.pc = "up" => \/ loop.pc = "up" /\ ring' = ring
                                \/ ring' = Jitter
      PROVE  RingSafe'
  BY <1>1, Depths DEF DepthIsKept, DigitsAreWhole
<1>2. ASSUME UNCHANGED audio, loop'.pc = "up" => loop.pc = "up" PROVE RingSafe'
  BY <1>1, <1>2 DEF audio
<1>3. CASE UNCHANGED audioVars
  BY <1>2, <1>3 DEF audioVars, stream
<1>4. CASE Start
  BY <1>2, <1>4 DEF Start
<1>5. CASE HearReady
  <2>1. \/ loop' = [loop EXCEPT !.pc = "half"] /\ UNCHANGED ring
        \/ ring' = Jitter
    BY <1>5 DEF HearReady
  <2>2. loop'.pc = "up" => ring' = Jitter
    BY <2>1 DEF CardSafe, StreamTypeOK
  <2> QED
    BY <1>1, <1>5, <2>1, <2>2 DEF HearReady
<1>6. CASE HearFailure
  BY <1>2, <1>6 DEF HearFailure, CardSafe, StreamTypeOK
<1>7. CASE Joined \/ OpenTimeout
  BY <1>2, <1>7 DEF Joined, OpenTimeout, Idle
<1>8. CASE StopMedia \/ CheckMedia
  BY <1>8, CalmRing DEF StopMedia, CheckMedia, Idle
<1>9. CASE PushFromNetwork
  <2>1. /\ traffic' = [traffic EXCEPT !.late = traffic.late - 1] /\ traffic.late > 0
        /\ ring' = Trim(ring + 1) /\ UNCHANGED <<loop, tone>>
    BY <1>9 DEF PushFromNetwork, stream
  <2>2. /\ ring' \in Nat /\ ring' <= HighWater
        /\ ring' = ring + 1 \/ ring' >= Jitter
    BY <2>1, RingNumbers, Depths DEF Trim
  <2>3. traffic.late - 1 \in 0..MaxLate /\ traffic.late - 1 + 1 = traffic.late
    BY <2>1, RingNumbers
  <2>4. /\ traffic' \in [late : 0..MaxLate, lost : 0..MaxLost, digits : 0..MaxDigits]
        /\ traffic'.late = traffic.late - 1 /\ traffic'.lost = traffic.lost
    BY <2>1, <2>3
  <2>5. RingTypeOK'
    BY <2>1, <2>2, <2>4
  <2>6. \/ ring' + traffic'.late + traffic'.lost >= ring + traffic.late + traffic.lost
        \/ ring' >= Jitter
    BY <2>2, <2>4, RingNumbers
  <2>7. DepthIsKept'
    BY <2>1, <2>2, <2>5, <2>6, DepthStep
  <2> QED
    BY <2>1, <2>5, <2>7 DEF DigitsAreWhole
<1>10. CASE PacketLost
  <2>1. /\ traffic' = [traffic EXCEPT !.late = traffic.late - 1, !.lost = traffic.lost + 1]
        /\ traffic.late > 0 /\ traffic.lost < MaxLost /\ UNCHANGED <<loop, ring, tone>>
    BY <1>10 DEF PacketLost, stream
  <2>2. traffic.late - 1 \in 0..MaxLate /\ traffic.lost + 1 \in 0..MaxLost
    BY <2>1, RingNumbers
  <2>3. /\ traffic' \in [late : 0..MaxLate, lost : 0..MaxLost, digits : 0..MaxDigits]
        /\ traffic'.late = traffic.late - 1 /\ traffic'.lost = traffic.lost + 1
    BY <2>1, <2>2
  <2>4. RingTypeOK' /\ ring' <= ring
    BY <2>1, <2>3, RingNumbers
  <2>5. ring' + traffic'.late + traffic'.lost >= ring + traffic.late + traffic.lost
    BY <2>1, <2>3, RingNumbers
  <2>6. DepthIsKept'
    BY <2>1, <2>4, <2>5, DepthStep
  <2> QED
    BY <2>1, <2>4, <2>6 DEF DigitsAreWhole
<1>11. CASE Period \/ CardIsLate \/ CardIsEarly
  <2> DEFINE OneMore == /\ UNCHANGED loop
                        /\ traffic' \in [late : 0..MaxLate, lost : 0..MaxLost, digits : 0..MaxDigits]
                        /\ traffic'.late + traffic'.lost = traffic.late + traffic.lost + 1
  <2>1. ASSUME Period \/ CardIsLate PROVE OneMore
    <3>1. /\ traffic' = [traffic EXCEPT !.late = traffic.late + 1]
          /\ traffic.late < MaxLate /\ UNCHANGED loop
      BY <2>1 DEF Period, CardIsLate, stream
    <3>2. traffic.late + 1 \in 0..MaxLate /\ traffic.lost \in 0..MaxLost
      BY <3>1, RingNumbers
    <3>3. traffic' \in [late : 0..MaxLate, lost : 0..MaxLost, digits : 0..MaxDigits]
      BY <3>1, <3>2
    <3>4. traffic'.late = traffic.late + 1 /\ traffic'.lost = traffic.lost
      BY <3>1
    <3>5. traffic'.late + traffic'.lost = traffic.late + traffic.lost + 1
      BY <3>4, RingNumbers
    <3> QED
      BY <3>1, <3>3, <3>5
  <2>2. ASSUME CardIsEarly PROVE OneMore
    <3>1. /\ traffic' = [traffic EXCEPT !.lost = traffic.lost + 1]
          /\ traffic.lost < MaxLost /\ UNCHANGED loop
      BY <2>2 DEF CardIsEarly, stream
    <3>2. traffic.lost + 1 \in 0..MaxLost /\ traffic.late \in 0..MaxLate
      BY <3>1, RingNumbers
    <3>3. traffic' \in [late : 0..MaxLate, lost : 0..MaxLost, digits : 0..MaxDigits]
      BY <3>1, <3>2
    <3>4. traffic'.late = traffic.late /\ traffic'.lost = traffic.lost + 1
      BY <3>1
    <3>5. traffic'.late + traffic'.lost = traffic.late + traffic.lost + 1
      BY <3>4, RingNumbers
    <3> QED
      BY <3>1, <3>3, <3>5
  <2>3. OneMore
    BY <1>11, <2>1, <2>2
  <2>4. ring' \in Nat /\ ring' <= ring /\ ring' + 1 >= ring
    BY <1>11, TakeKeeps, RingNumbers DEF Period, CardIsLate, CardIsEarly
  <2>5. tone' \in Seq(Frames) /\ Len(tone') <= MaxTone /\ DigitsAreWhole'
    BY <1>11, TakeKeeps DEF Period, CardIsLate, CardIsEarly, DigitsAreWhole
  <2>6. RingTypeOK'
    BY <2>3, <2>4, <2>5
  <2>7. traffic'.late \in Nat /\ traffic'.lost \in Nat
    BY <2>3
  <2>8. ring' + traffic'.late + traffic'.lost >= ring + traffic.late + traffic.lost
    <3>1. \A r, l, k, rr, ll, kk \in Nat :
             rr + 1 >= r /\ ll + kk = l + k + 1 => rr + ll + kk >= r + l + k
      OBVIOUS
    <3>2. ring \in Nat /\ traffic.late \in Nat /\ traffic.lost \in Nat
      BY RingNumbers
    <3>3. traffic'.late + traffic'.lost = traffic.late + traffic.lost + 1
      BY <2>3
    <3> QED
      BY <2>4, <2>7, <3>1, <3>2, <3>3
  <2>9. DepthIsKept'
    BY <2>3, <2>4, <2>6, <2>8, DepthStep
  <2> QED
    BY <2>5, <2>6, <2>9
<1>12. CASE SendDtmfInband
  <2> DEFINE digit == [i \in 1..Tone |-> [digit |-> traffic.digits + 1, part |-> i]]
             gap == [i \in 1..Gap |-> Silence]
             queued == queue_tone(tone, digit)
  <2>1. /\ traffic.digits + 1 \in 0..MaxDigits
        /\ traffic' = [traffic EXCEPT !.digits = traffic.digits + 1]
        /\ UNCHANGED <<loop, ring>>
        /\ tone' = IF queued = tone THEN tone ELSE queue_tone(queued, gap)
    BY <1>12, AudioAssumption DEF SendDtmfInband, stream
  <2>2. digit \in Seq(Frames) /\ gap \in Seq(Frames) /\ Whole(digit) /\ Whole(gap)
    BY <2>1, FrameTypes, DigitIsWhole
  <2> HIDE DEF digit, gap
  <2>3. Whole(tone)
    BY DEF Whole, DigitsAreWhole
  <2>4. queued \in Seq(Frames) /\ Len(queued) <= MaxTone /\ Whole(queued)
    BY <2>2, <2>3, QueueType, WholeTogether
  <2> HIDE DEF queued
  <2>5. tone' \in Seq(Frames) /\ Len(tone') <= MaxTone /\ Whole(tone')
    BY <2>1, <2>2, <2>3, <2>4, QueueType, WholeTogether
  <2>6. DigitsAreWhole'
    BY <2>5 DEF Whole, DigitsAreWhole
  <2>7. traffic' \in [late : 0..MaxLate, lost : 0..MaxLost, digits : 0..MaxDigits]
    BY <2>1
  <2>8. DepthIsKept'
    BY <2>1 DEF DepthIsKept
  <2> QED
    BY <2>1, <2>5, <2>6, <2>7, <2>8
<1>13. ASSUME NEW d \in Dirs, Unwedge(d) PROVE RingSafe'
  BY <1>2, <1>13 DEF Unwedge
<1>14. ASSUME NEW s \in Streams, NEW d \in Dirs,
              OpenSucceeds(s, d) \/ OpenFails(s, d) \/ ThreadStops(s, d) \/ ThreadFails(s, d)
       PROVE  RingSafe'
  BY <1>2, <1>14 DEF OpenSucceeds, OpenFails, ThreadStops, ThreadFails
<1> QED
  BY <1>3, <1>4, <1>5, <1>6, <1>7, <1>8, <1>9, <1>10, <1>11, <1>12, <1>13, <1>14 DEF AudioNext

----------------------------------------------------------------------------
(* The threads and the card.                                               *)

\* A thread that was opening and says how that went leaves room for the other.
LEMMA ReportKeepsRoom ==
    ASSUME CardSafe, NEW s \in Streams, NEW d \in Dirs, threads[s][d] = "opening",
           NEW st \in {"running", "ended"}, NEW ok \in BOOLEAN, Report(s, ok),
           threads' = [threads EXCEPT ![s][d] = st], UNCHANGED <<loop, stop>>
    PROVE  StreamInv' /\ ready' \in [Streams -> Seq(BOOLEAN)]
<1> USE DEF CardSafe, StreamTypeOK
<1>1. /\ ready' \in [Streams -> Seq(BOOLEAN)]
      /\ Len(ready'[s]) = Len(ready[s]) + 1
      /\ \A t \in Streams : t # s => ready'[t] = ready[t]
      /\ Len(ready[s]) \in Nat
  BY DEF Report
<1>2. /\ threads'[s][d] = st
      /\ \A e \in Dirs : e # d => threads'[s][e] = threads[s][e]
      /\ \A t \in Streams : t # s => threads'[t] = threads[t]
  OBVIOUS
<1>3. d \in Unheard(s)
  BY DEF Unheard
<1>4. Len(ready[s]) <= 1 /\ (Len(ready[s]) = 1 => Unheard(s) = {d})
  <2>1. Len(ready[s]) <= 2 /\ Len(ready[s]) # 2
    BY <1>3 DEF StreamInv
  <2>2. Len(ready[s]) = 1 => Unheard(s) # Dirs
    <3>1. ready[s] = <<>> => Len(ready[s]) = 0
      OBVIOUS
    <3> QED
      BY <3>1 DEF StreamInv
  <2>3. Unheard(s) # Dirs => Unheard(s) = {d}
    BY <1>3 DEF Unheard, Dirs
  <2> QED
    <3>1. \A n \in Nat : n <= 2 /\ n # 2 => n <= 1
      OBVIOUS
    <3> QED
      BY <1>1, <2>1, <2>2, <2>3, <3>1, Zenon
<1>5. Unheard(s)' = Unheard(s) \ {d}
  BY <1>2 DEF Unheard
<1>6. ASSUME NEW t \in Streams
      PROVE  /\ Len(ready'[t]) <= 2
             /\ ready'[t] # <<>> => Unheard(t)' # Dirs
             /\ Len(ready'[t]) = 2 => Unheard(t)' = {}
             /\ (\A e \in Dirs : threads'[t][e] = "none") => ready'[t] = <<>>
             /\ \A e \in Dirs : threads'[t][e] \in {"opening", "running"} =>
                   t \in stop' \cup {loop'.s}
  <2>1. CASE t # s
    BY <1>1, <1>2, <2>1 DEF StreamInv, Unheard
  <2>2. CASE t = s
    <3>1. /\ Len(ready'[t]) <= 2
          /\ Unheard(t)' # Dirs
          /\ Len(ready'[t]) = 2 => Unheard(t)' = {}
      <4>1. Len(ready'[s]) <= 2 /\ (Len(ready'[s]) = 2 => Len(ready[s]) = 1)
        <5>1. \A n \in Nat : n <= 1 => n + 1 <= 2 /\ (n + 1 = 2 => n = 1)
          OBVIOUS
        <5> QED
          BY <1>1, <1>4, <5>1, Zenon
      <4>2. d \in Dirs /\ d \notin Unheard(s)'
        BY <1>5
      <4>3. Unheard(s) = {d} => Unheard(s)' = {}
        BY <1>5
      <4>4. Unheard(s)' # Dirs
        BY <4>2, Zenon
      <4>5. Len(ready'[s]) = 2 => Unheard(s)' = {}
        BY <1>4, <4>1, <4>3, Zenon
      <4> QED
        BY <2>2, <4>1, <4>4, <4>5
    <3>2. ~\A e \in Dirs : threads'[t][e] = "none"
      BY <1>2, <2>2
    <3>3. \A e \in Dirs : threads'[t][e] \in {"opening", "running"} =>
             t \in stop' \cup {loop'.s}
      BY <1>2, <2>2 DEF StreamInv
    <3> QED
      BY <3>1, <3>2, <3>3
  <2> QED
    BY <2>1, <2>2
<1> QED
  BY <1>1, <1>6 DEF StreamInv

\* A thread that ends lets go of the card.
LEMMA EndKeepsCard ==
    ASSUME CardSafe, NEW s \in Streams, NEW d \in Dirs, threads[s][d] = "running",
           ThreadEnds(s, d), UNCHANGED <<loop, ready, stop, wedged>>,
           failed' = failed \/ failed' = failed \cup {s}
    PROVE  CardSafe'
<1> USE DEF CardSafe, StreamTypeOK
<1>1. /\ \A t \in Streams, e \in Dirs :
            threads'[t][e] = IF t = s /\ e = d THEN "ended" ELSE threads[t][e]
      /\ card'[d] = NoStream /\ \A e \in Dirs : e # d => card'[e] = card[e]
  BY DEF ThreadEnds
<1>2. StreamTypeOK'
  BY DEF ThreadEnds
<1>3. \A t \in Streams : Unheard(t)' = Unheard(t)
  BY <1>1 DEF Unheard
<1>4. StreamInv'
  <2>1. \A t \in Streams, e \in Dirs :
           /\ threads'[t][e] = "none" <=> threads[t][e] = "none"
           /\ threads'[t][e] \in {"opening", "running"} => threads[t][e] \in {"opening", "running"}
    BY <1>1
  <2> QED
    BY <1>3, <2>1 DEF StreamInv
<1>5. HoldersAreKnown'
  <2> SUFFICES ASSUME NEW e \in Dirs, card'[e] # NoStream
               PROVE  threads'[card'[e]][e] = "running" /\ card'[e] \in stop' \cup {loop'.s}
    BY DEF HoldersAreKnown
  <2>1. e # d /\ card'[e] = card[e] /\ card[e] \in Streams
    BY <1>1
  <2>2. threads[card[e]][e] = "running" /\ card[e] \in stop \cup {loop.s}
    BY <2>1 DEF HoldersAreKnown
  <2> QED
    BY <1>1, <2>1, <2>2
<1> QED
  BY <1>2, <1>4, <1>5

\* A thread that has opened its direction has the card.
LEMMA OpenKeepsCard ==
    ASSUME CardSafe, NEW s \in Streams, NEW d \in Dirs, OpenSucceeds(s, d) \/ OpenFails(s, d)
    PROVE  CardSafe'
<1> USE DEF CardSafe, StreamTypeOK
<1>1. PICK st \in {"running", "ended"}, ok \in BOOLEAN :
         /\ threads' = [threads EXCEPT ![s][d] = st] /\ Report(s, ok)
         /\ st = "running" => card[d] = NoStream /\ card' = [card EXCEPT ![d] = s]
         /\ st = "ended" => UNCHANGED card
  BY DEF OpenSucceeds, OpenFails
<1>2. /\ threads[s][d] = "opening" /\ UNCHANGED <<loop, stop, wedged>>
      /\ failed' = failed \/ failed' = failed \cup {s}
  BY DEF OpenSucceeds, OpenFails
<1>3. StreamInv' /\ ready' \in [Streams -> Seq(BOOLEAN)]
  BY <1>1, <1>2, ReportKeepsRoom
<1>4. StreamTypeOK'
  BY <1>1, <1>2, <1>3
<1>5. s \in stop \cup {loop.s}
  BY <1>2 DEF StreamInv
<1>6. \A t \in Streams, e \in Dirs :
         threads'[t][e] = IF t = s /\ e = d THEN st ELSE threads[t][e]
  BY <1>1
<1>7. HoldersAreKnown'
  <2> SUFFICES ASSUME NEW e \in Dirs, card'[e] # NoStream
               PROVE  threads'[card'[e]][e] = "running" /\ card'[e] \in stop' \cup {loop'.s}
    BY DEF HoldersAreKnown
  <2>1. CASE st = "running" /\ e = d
    BY <1>1, <1>2, <1>5, <1>6, <2>1
  <2>2. CASE ~(st = "running" /\ e = d)
    <3>1. card'[e] = card[e] /\ card[e] \in Streams
      BY <1>1, <2>2
    <3>2. threads[card[e]][e] = "running" /\ card[e] \in stop \cup {loop.s}
      BY <3>1 DEF HoldersAreKnown
    <3> QED
      BY <1>2, <1>6, <3>1, <3>2
  <2> QED
    BY <2>1, <2>2
<1> QED
  BY <1>3, <1>4, <1>7

\* Nobody but the event loop's stream or one told to stop is at the card, when
\* the loop goes back to idle having told its own, or never had any.
LEMMA LoopKeepsCard ==
    ASSUME CardSafe, UNCHANGED <<threads, card, wedged, failed, ready>>,
           stop' = stop \/ stop' = stop \cup {loop.s}, loop.s \in Streams,
           \/ loop' = Idle /\ loop.s \in stop'
           \/ \E pc \in {"half", "up"} : loop' = [loop EXCEPT !.pc = pc]
           \/ loop' = [loop EXCEPT !.pc = "joining"] /\ loop.s \in stop'
    PROVE  CardSafe'
<1> USE DEF CardSafe, StreamTypeOK
<1>1. StreamTypeOK' /\ stop \subseteq stop'
  BY DEF Idle
<1>2. /\ loop'.pc = "idle" <=> loop'.s = NoStream
      /\ loop'.pc = "joining" => loop'.s \in stop'
      /\ loop.s \in stop' \cup {loop'.s}
  BY AudioAssumption DEF Idle
<1>3. \A t \in Streams : Unheard(t)' = Unheard(t)
  BY DEF Unheard
<1>4. StreamInv'
  BY <1>1, <1>2, <1>3 DEF StreamInv
<1>5. HoldersAreKnown'
  BY <1>1, <1>2 DEF HoldersAreKnown
<1> QED
  BY <1>1, <1>4, <1>5

\* An event loop that is not idle has a stream.
LEMMA StreamInUse == CardSafe /\ loop.pc # "idle" => loop.s \in Streams
BY DEF CardSafe, StreamTypeOK, StreamInv

\* Every step keeps the threads and the card right.
LEMMA CardStep == CardSafe /\ [AudioNext]_audioVars => CardSafe'
<1> SUFFICES ASSUME CardSafe, [AudioNext]_audioVars PROVE CardSafe'
  OBVIOUS
<1>1. ASSUME UNCHANGED <<loop, threads, ready, stop, failed, card>>, wedged' \subseteq wedged
      PROVE  CardSafe'
  BY <1>1 DEF CardSafe, StreamTypeOK, StreamInv, HoldersAreKnown, Unheard
<1>2. CASE UNCHANGED audioVars
  BY <1>1, <1>2 DEF audioVars, stream
<1>3. CASE PushFromNetwork \/ PacketLost \/ Period \/ CardIsLate \/ CardIsEarly \/ SendDtmfInband
  BY <1>1, <1>3
     DEF PushFromNetwork, PacketLost, Period, CardIsLate, CardIsEarly, SendDtmfInband, stream
<1>4. CASE Start
  <2> USE DEF CardSafe, StreamTypeOK
  <2>1. PICK s \in Streams :
           /\ \A d \in Dirs : threads[s][d] = "none"
           /\ loop' = [pc |-> "opening", s |-> s]
           /\ threads' = [threads EXCEPT ![s] = [d \in Dirs |-> "opening"]]
    BY <1>4 DEF Start, Unused
  <2>2. loop.s = NoStream /\ UNCHANGED <<ready, stop, failed, card, wedged>>
    BY <1>4 DEF Start, StreamInv
  <2>3. StreamTypeOK'
    BY <2>1, <2>2
  <2>4. ready[s] = <<>> /\ \A t \in Streams : t # s => threads'[t] = threads[t]
    BY <2>1 DEF StreamInv
  <2>5. loop'.s = s /\ loop'.pc = "opening" /\ s # NoStream
    BY <2>1, AudioAssumption
  <2>6. \A t \in Streams : t # s => Unheard(t)' = Unheard(t)
    BY <2>4 DEF Unheard
  <2>7. \A d \in Dirs : threads'[s][d] = "opening"
    BY <2>1
  <2>8. StreamInv'
    <3> SUFFICES ASSUME NEW t \in Streams
                 PROVE  /\ Len(ready[t]) <= 2
                        /\ ready[t] # <<>> => Unheard(t)' # Dirs
                        /\ Len(ready[t]) = 2 => Unheard(t)' = {}
                        /\ (\A e \in Dirs : threads'[t][e] = "none") => ready[t] = <<>>
                        /\ \A e \in Dirs : threads'[t][e] \in {"opening", "running"} =>
                              t \in stop' \cup {loop'.s}
      BY <2>2, <2>5 DEF StreamInv
    <3>1. CASE t = s
      BY <2>4, <2>5, <3>1
    <3>2. CASE t # s
      BY <2>2, <2>4, <2>6, <3>2, AudioAssumption DEF StreamInv
    <3> QED
      BY <3>1, <3>2
  <2>9. HoldersAreKnown'
    BY <2>1, <2>2, <2>4 DEF HoldersAreKnown
  <2> QED
    BY <2>3, <2>8, <2>9
<1>5. CASE HearReady
  <2> USE DEF CardSafe, StreamTypeOK
  <2>1. /\ loop.s \in Streams /\ ready[loop.s] # <<>>
        /\ ready' = [ready EXCEPT ![loop.s] = Tail(@)]
        /\ \E pc \in {"half", "up"} : loop' = [loop EXCEPT !.pc = pc]
        /\ UNCHANGED <<threads, stop, failed, card, wedged>>
    BY <1>5, StreamInUse DEF HearReady, Opening
  <2>2. /\ loop'.s = loop.s /\ loop'.pc \notin {"idle", "joining"} /\ loop.s # NoStream
        /\ loop' \in [pc : {"idle", "opening", "half", "joining", "up"}, s : Streams \cup {NoStream}]
    BY <2>1, AudioAssumption
  <2>3. /\ ready' \in [Streams -> Seq(BOOLEAN)]
        /\ \A t \in Streams : Len(ready'[t]) <= Len(ready[t])
        /\ Len(ready'[loop.s]) < Len(ready[loop.s])
        /\ \A t \in Streams : t # loop.s => ready'[t] = ready[t]
        /\ \A t \in Streams : Len(ready[t]) \in Nat /\ Len(ready'[t]) \in Nat
    BY <2>1
  <2>4. \A t \in Streams : Unheard(t)' = Unheard(t)
    BY <2>1 DEF Unheard
  <2>5. StreamInv'
    <3> SUFFICES ASSUME NEW t \in Streams
                 PROVE  /\ Len(ready'[t]) <= 2
                        /\ ready'[t] # <<>> => Unheard(t) # Dirs
                        /\ Len(ready'[t]) = 2 => Unheard(t) = {}
                        /\ (\A e \in Dirs : threads[t][e] = "none") => ready'[t] = <<>>
                        /\ \A e \in Dirs : threads[t][e] \in {"opening", "running"} =>
                              t \in stop \cup {loop.s}
      BY <2>1, <2>2, <2>4 DEF StreamInv
    <3>1. CASE t # loop.s
      BY <2>3, <3>1 DEF StreamInv
    <3>2. CASE t = loop.s
      <4>1. Len(ready[t]) <= 2 /\ ready[t] # <<>>
        BY <2>1, <3>2 DEF StreamInv
      <4>2. Len(ready'[t]) < 2
        BY <2>3, <3>2, <4>1
      <4>3. Unheard(t) # Dirs /\ ~(\A e \in Dirs : threads[t][e] = "none")
        BY <4>1 DEF StreamInv
      <4> QED
        BY <2>3, <4>2, <4>3 DEF StreamInv
    <3> QED
      BY <3>1, <3>2
  <2>6. HoldersAreKnown'
    BY <2>1, <2>2 DEF HoldersAreKnown
  <2> QED
    BY <2>1, <2>2, <2>3, <2>5, <2>6
<1>6. CASE HearFailure
  BY <1>6, StreamInUse, LoopKeepsCard DEF HearFailure, Opening
<1>7. CASE Joined
  BY <1>7, StreamInUse, LoopKeepsCard DEF Joined, CardSafe, StreamInv
<1>8. CASE OpenTimeout
  BY <1>8, StreamInUse, LoopKeepsCard DEF OpenTimeout, Opening
<1>9. CASE StopMedia \/ CheckMedia
  BY <1>9, StreamInUse, LoopKeepsCard DEF StopMedia, CheckMedia
<1>10. ASSUME NEW d \in Dirs, Unwedge(d) PROVE CardSafe'
  BY <1>1, <1>10 DEF Unwedge
<1>11. ASSUME NEW s \in Streams, NEW d \in Dirs,
              OpenSucceeds(s, d) \/ OpenFails(s, d) \/ ThreadStops(s, d) \/ ThreadFails(s, d)
       PROVE  CardSafe'
  BY <1>11, OpenKeepsCard, EndKeepsCard DEF ThreadStops, ThreadFails
<1> QED
  BY <1>2, <1>3, <1>4, <1>5, <1>6, <1>7, <1>8, <1>9, <1>10, <1>11 DEF AudioNext

----------------------------------------------------------------------------
(* The theorems.                                                           *)

\* Both halves hold when nothing has started.
LEMMA InitSafe == AudioInit => CardSafe /\ RingSafe
<1> SUFFICES ASSUME AudioInit PROVE CardSafe /\ RingSafe
  OBVIOUS
<1>1. CardSafe
  <2>1. StreamTypeOK
    BY DEF AudioInit, StreamTypeOK
  <2>2. StreamInv
    BY DEF AudioInit, StreamInv, Unheard, Dirs
  <2>3. HoldersAreKnown
    BY DEF AudioInit, HoldersAreKnown
  <2> QED
    BY <2>1, <2>2, <2>3 DEF CardSafe
<1>2. RingSafe
  BY AudioAssumption DEF AudioInit, RingSafe, RingTypeOK, DepthIsKept, DigitsAreWhole, Calm
<1> QED
  BY <1>1, <1>2

(***************************************************************************)
(* The inductive invariant holds of every behaviour: what start, shutdown, *)
(* detach and the threads do, and what the ring's operations do.           *)
(***************************************************************************)
THEOREM StreamSafeHolds == AudioSpec => [](CardSafe /\ RingSafe)
<1>1. CardSafe /\ RingSafe /\ [AudioNext]_audioVars => (CardSafe /\ RingSafe)'
  BY CardStep, RingStep
<1> QED
  BY <1>1, InitSafe, PTL DEF AudioSpec

(***************************************************************************)
(* Only a thread that runs has the card, for the stream in use or for one  *)
(* that has been told to stop ("whichever one did open has to be shut down *)
(* before we give up", start), and the ready channel never overflows.      *)
(***************************************************************************)
THEOREM CardIsKnown == AudioSpec => []CardInv
<1>1. CardSafe /\ RingSafe => CardInv
  BY DEF CardSafe, StreamTypeOK, RingSafe, RingTypeOK, CardInv, AudioTypeOK, StreamInv
<1> QED
  BY <1>1, StreamSafeHolds, PTL

(***************************************************************************)
(* The ring towards the modem falls short of the jitter depth by no more   *)
(* than was lost or is under way, and never runs past the ceiling          *)
(* (push_from_network, trim, take_for_card), for any jitter_ms.            *)
(***************************************************************************)
THEOREM JitterDepthIsKept == AudioSpec => []DepthIsKept
<1>1. RingSafe => DepthIsKept
  BY DEF RingSafe
<1> QED
  BY <1>1, StreamSafeHolds, PTL

(***************************************************************************)
(* Every digit in the queue of tones is there to its end (queue_tone:      *)
(* "dropping the head would cut a tone in half").                          *)
(***************************************************************************)
THEOREM QueuedDigitsAreWhole == AudioSpec => []DigitsAreWhole
<1>1. RingSafe => DigitsAreWhole
  BY DEF RingSafe
<1> QED
  BY <1>1, StreamSafeHolds, PTL
=============================================================================
