--------------------------- MODULE GatewayProofs ---------------------------
(***************************************************************************)
(* Proofs about Gateway, for any number of legs and dialogs and any        *)
(* environment: type correctness first, then the two inductive invariants. *)
(*                                                                         *)
(* LegInv: no mobile leg is ever stranded, with any queue length.  Its     *)
(* sections are about the queue of modem events alone, the operations of   *)
(* the modem handle, and the actions one by one.                           *)
(*                                                                         *)
(* DialogInv: no peer is forgotten, left waiting or told anything after    *)
(* its final response, none is bridged to a leg that still rings, and the  *)
(* calls table is right.  ModemManager does not give a path away while     *)
(* events of it wait and, except for AnsweredLegIsConnected, the process   *)
(* does not crash and no copy of an INVITE gets past the transaction       *)
(* layer.  Its sections are about the legs and the queue, what a handler   *)
(* does to a dialog, and the actions one by one.                           *)
(***************************************************************************)
EXTENDS Gateway, TLAPS

----------------------------------------------------------------------------
(* Type correctness.                                                       *)

\* The events of the modem queue are ModemEvents.
LEMMA EventTypes ==
    /\ Up \in ModemEvents
    /\ Down \in ModemEvents
    /\ \A l \in Legs : CallAdded(l) \in ModemEvents /\ CallDeleted(l) \in ModemEvents
    /\ \A l \in Legs, s \in LegStates : CallState(l, s) \in ModemEvents
BY DEF Up, Down, CallAdded, CallDeleted, CallState, ModemEvents, LegStates, LiveStates

\* Forwarding a signal keeps a queue of events one.
LEMMA SignalTypes ==
    ASSUME NEW l \in Legs, NEW s \in LegStates, NEW q \in Seq(ModemEvents)
    PROVE  /\ StateSignal(l, s, q) \in Seq(ModemEvents)
           /\ DeletedSignal(l, q) \in Seq(ModemEvents)
BY EventTypes DEF StateSignal, DeletedSignal

\* The operations of the modem handle preserve the types of the link.
LEMMA HangupType ==
    ASSUME LinkTypeOK, NEW l \in Legs, NEW q \in Seq(ModemEvents), Hangup(l, q)
    PROVE  LinkTypeOK'
<1> USE DEF LinkTypeOK
<1> DEFINE t == StateSignal(l, "terminated", q)
<1>1. /\ DeletedSignal(l, q) \in Seq(ModemEvents)
      /\ t \in Seq(ModemEvents)
      /\ DeletedSignal(l, t) \in Seq(ModemEvents)
  BY SignalTypes DEF LegStates
<1> HIDE DEF t
<1>2. CASE HangupNothing(l, q)
  BY <1>2 DEF Hangup, HangupNothing
<1>3. CASE HangupOne(l, q)
  BY <1>1, <1>3 DEF Hangup, HangupOne, Delete, LegStates, t
<1>4. CASE HangupAll(l, q)
  BY <1>1, <1>4 DEF Hangup, HangupAll, LegStates
<1> QED BY <1>2, <1>3, <1>4 DEF Hangup

\* The same through the gateway, which may have no handle.
LEMMA HangupLegType ==
    ASSUME LinkTypeOK, NEW l \in Legs, NEW q \in Seq(ModemEvents), HangupLeg(l, q)
    PROVE  LinkTypeOK'
<1>1. CASE modem
  BY <1>1, HangupType DEF HangupLeg
<1>2. CASE ~modem
  BY <1>2 DEF HangupLeg, LinkTypeOK
<1> QED BY <1>1, <1>2

\* Popping an event keeps a queue of events one.
LEMMA TailType ==
    ASSUME NEW S, NEW q \in Seq(S), q # << >>
    PROVE  Tail(q) \in Seq(S)
OBVIOUS

\* Sending an event does too.
LEMMA AppendType ==
    ASSUME NEW S, NEW q \in Seq(S), NEW e \in S
    PROVE  Append(q, e) \in Seq(S)
OBVIOUS

\* The gateway's own variables that the helpers below change.
BookType ==
    /\ call \in ActiveCall \cup {NoCall}
    /\ tasks \in SUBSET Dialogs
    /\ cdr \in [Dialogs -> {"none", "open", "answered", "missed", "completed"}]

PeerType ==
    /\ peer \in [Dialogs -> PeerStates]
    /\ spurious \in SUBSET Dialogs

\* A call in progress has a leg and a dialog.
LEMMA BusyType ==
    ASSUME TypeOK, Busy
    PROVE  call \in ActiveCall /\ call.id \in Dialogs /\ call.leg \in Legs
BY DEF TypeOK, Busy, ActiveCall

\* Taking the call keeps the types of what the gateway books.
LEMMA FinishType ==
    ASSUME TypeOK, finish_call
    PROVE  BookType'
BY DEF TypeOK, BookType, finish_call

\* The responses and requests the gateway sends move a peer between states.
LEMMA SetPeerType ==
    ASSUME TypeOK, NEW d \in Dialogs, NEW s \in PeerStates, SetPeer(d, s)
    PROVE  PeerType'
BY DEF TypeOK, PeerType, SetPeer

\* So does a final response,
LEMMA FinalType ==
    ASSUME TypeOK, NEW d \in Dialogs, NEW s \in PeerStates, Final(d, s)
    PROVE  PeerType'
BY DEF TypeOK, PeerType, Final

\* a provisional response,
LEMMA ProvisionalType ==
    ASSUME TypeOK, NEW d \in Dialogs, Provisional(d)
    PROVE  PeerType'
BY DEF TypeOK, PeerType, Provisional

\* a BYE,
LEMMA EndsType ==
    ASSUME TypeOK, NEW d \in Dialogs, Ends(d)
    PROVE  PeerType'
<1>1. (IF peer[d] = "connected" THEN "ended" ELSE peer[d]) \in PeerStates
  BY DEF TypeOK, PeerStates
<1> QED BY <1>1, SetPeerType DEF Ends

\* the answer to a BYE,
LEMMA AnswerByeType ==
    ASSUME TypeOK, NEW d \in Dialogs, AnswerBye(d)
    PROVE  PeerType'
<1> DEFINE s == CASE peer[d] = "connected" -> "ended"
                  [] peer[d] = "leaving" -> "unanswered"
                  [] OTHER -> peer[d]
<1>1. s \in PeerStates
  BY DEF TypeOK, PeerStates
<1>2. SetPeer(d, s)
  BY DEF AnswerBye
<1> QED BY <1>1, <1>2, SetPeerType

\* a CANCEL,
LEMMA CancelType ==
    ASSUME TypeOK, NEW d \in Dialogs, cancel_outgoing_invite(d)
    PROVE  PeerType'
<1> DEFINE s == IF peer[d] = "invited" /\ call.role = "ToSip" /\ ~call.answered
                  THEN "refused" ELSE peer[d]
<1>1. s \in PeerStates
  BY DEF TypeOK, PeerStates
<1>2. SetPeer(d, s)
  BY DEF cancel_outgoing_invite
<1> HIDE DEF s
<1> QED BY <1>1, <1>2, SetPeerType

\* and whichever of them teardown_call picks.
LEMMA EndSipSideType ==
    ASSUME TypeOK, Busy, EndSipSide
    PROVE  PeerType'
<1>1. call.id \in Dialogs
  BY BusyType
<1>2. CASE call.answered
  BY <1>1, <1>2, EndsType DEF EndSipSide
<1>3. CASE ~call.answered /\ call.role = "FromSip"
  BY <1>1, <1>3, FinalType DEF EndSipSide, PeerStates
<1>4. CASE ~call.answered /\ call.role # "FromSip"
  BY <1>1, <1>4, CancelType DEF EndSipSide
<1> QED BY <1>2, <1>3, <1>4

\* teardown_call preserves the type of everything it touches.
LEMMA TeardownType ==
    ASSUME TypeOK, Busy, NEW q \in Seq(ModemEvents), teardown_call(q)
    PROVE  LinkTypeOK' /\ BookType' /\ PeerType'
BY BusyType, EndSipSideType, HangupLegType, FinishType DEF teardown_call, TypeOK

\* A new call is an ActiveCall.
LEMMA NewCallType ==
    ASSUME NEW r \in {"FromSip", "ToSip"}, NEW l \in Legs, NEW d \in Dialogs
    PROVE  NewCall(r, l, d) \in ActiveCall
BY DEF NewCall, ActiveCall

\* Each handler of a modem event preserves the types.
LEMMA ModemEventType ==
    ASSUME TypeOK, ModemEvent
    PROVE  TypeOK'
<1> USE DEF TypeOK
<1>0. ASSUME modemQ # << >>
      PROVE  Tail(modemQ) \in Seq(ModemEvents)
  BY <1>0, TailType DEF LinkTypeOK
<1>1. CASE OnUp
  BY <1>0, <1>1 DEF OnUp, NextModem, Pop, LinkTypeOK
<1>2. CASE OnDown
  <2>1. LinkTypeOK'
    BY <1>0, <1>2 DEF OnDown, NextModem, Pop, LinkTypeOK
  <2>2. BookType' /\ PeerType'
    <3>1. CASE Busy
      BY <1>2, <3>1, EndSipSideType, FinishType DEF OnDown
    <3>2. CASE ~Busy
      BY <1>2, <3>2 DEF OnDown, BookType, PeerType
    <3> QED BY <3>1, <3>2
  <2> QED BY <1>2, <2>1, <2>2 DEF OnDown, BookType, PeerType
<1>3. ASSUME NEW l \in Legs, OnCallAdded(l)
      PROVE  TypeOK'
  <2>0. modemQ # << >>
    BY <1>3 DEF OnCallAdded, NextModem
  <2>1. CASE CallAddedIgnored(l)
    BY <1>0, <2>0, <2>1 DEF CallAddedIgnored, Pop, LinkTypeOK
  <2>2. CASE CallAddedEnded(l)
    <3>1. DeletedSignal(l, Tail(modemQ)) \in Seq(ModemEvents)
      BY <1>0, <2>0, SignalTypes DEF LegStates
    <3>2. LinkTypeOK'
      BY <1>0, <2>0, <2>2, <3>1 DEF CallAddedEnded, DeleteCall, Delete, LinkTypeOK, LegStates
    <3> QED BY <2>2, <3>2 DEF CallAddedEnded, gwVars
  <2>3. CASE CallAddedHungUp(l)
    <3>1. LinkTypeOK'
      BY <1>0, <2>0, <2>3, HangupType DEF CallAddedHungUp
    <3> QED BY <2>3, <3>1 DEF CallAddedHungUp, gwVars
  <2>4. CASE CallAddedOffered(l)
    <3>1. LinkTypeOK'
      BY <1>0, <2>0, <2>4 DEF CallAddedOffered, Pop, LinkTypeOK
    <3>2. PICK d \in OutIds :
            /\ SetPeer(d, "invited")
            /\ call' = NewCall("ToSip", l, d)
            /\ tasks' = tasks \cup {d}
            /\ cdr' = [cdr EXCEPT ![d] = "open"]
      BY <2>4 DEF CallAddedOffered
    <3>3. PeerType'
      BY <3>2, SetPeerType DEF Dialogs, PeerStates
    <3>4. call' \in ActiveCall
      BY <3>2, NewCallType DEF Dialogs
    <3> QED BY <2>4, <3>1, <3>2, <3>3, <3>4 DEF CallAddedOffered, PeerType, Dialogs
  <2> QED BY <1>3, <2>1, <2>2, <2>3, <2>4 DEF OnCallAdded
<1>4. ASSUME NEW l \in Legs, ForeignEvent(l), modemQ # << >>
      PROVE  TypeOK'
  BY <1>0, <1>4 DEF ForeignEvent, Pop, LinkTypeOK, gwVars
<1>5. ASSUME Busy, teardown_call(Tail(modemQ)), modemQ # << >>,
             UNCHANGED <<running, modem, sipQ, internalQ>>
      PROVE  TypeOK'
  BY <1>0, <1>5, TeardownType DEF BookType, PeerType
<1>6. ASSUME NEW l \in Legs, OnCallDeleted(l)
      PROVE  TypeOK'
  BY <1>4, <1>5, <1>6 DEF OnCallDeleted, NextModem, OnPath
<1>7. ASSUME NEW l \in Legs, NEW s \in LegStates, on_mm_call_state(l, s)
      PROVE  TypeOK'
  <2>0. modemQ # << >>
    BY <1>7 DEF on_mm_call_state, NextModem
  <2>1. CASE ForeignEvent(l)
    BY <1>4, <2>0, <2>1
  <2>2. CASE OnPath(l) /\ Alerting(l)
    <3>1. LinkTypeOK'
      BY <1>0, <2>0, <2>2 DEF Alerting, Pop, LinkTypeOK
    <3>2. call \in ActiveCall /\ call.id \in Dialogs
      BY <2>2, BusyType DEF OnPath
    <3>3. PeerType'
      BY <2>2, <3>2, ProvisionalType DEF Alerting, PeerType
    <3>4. call' \in ActiveCall
      BY <2>2, <3>2 DEF Alerting, ActiveCall
    <3> QED BY <2>2, <3>1, <3>3, <3>4 DEF Alerting, PeerType
  <2>3. CASE OnPath(l) /\ ModemAnswered(l)
    <3>1. LinkTypeOK'
      BY <1>0, <2>0, <2>3 DEF ModemAnswered, Pop, LinkTypeOK
    <3>2. call \in ActiveCall /\ call.id \in Dialogs
      BY <2>3, BusyType DEF OnPath
    <3>3. PeerType'
      BY <2>3, <3>2, FinalType DEF ModemAnswered, PeerType, PeerStates
    <3>4. call' \in ActiveCall
      BY <2>3, <3>2 DEF ModemAnswered, ActiveCall
    <3> QED BY <2>3, <3>1, <3>2, <3>3, <3>4 DEF ModemAnswered, PeerType
  <2>4. CASE OnPath(l) /\ ModemAnswerFails(l)
    BY <1>5, <2>0, <2>4 DEF ModemAnswerFails, OnPath
  <2>5. CASE OnPath(l) /\ ModemAnsweredAlready(l)
    BY <1>0, <2>0, <2>5 DEF ModemAnsweredAlready, Pop, LinkTypeOK, gwVars
  <2>6. CASE /\ OnPath(l)
             /\ teardown_call(Tail(modemQ))
             /\ UNCHANGED <<running, modem, sipQ, internalQ>>
    BY <1>5, <2>0, <2>6 DEF OnPath
  <2> QED BY <1>7, <2>1, <2>2, <2>3, <2>4, <2>5, <2>6 DEF on_mm_call_state
<1> QED BY <1>1, <1>2, <1>3, <1>6, <1>7 DEF ModemEvent

\* Each handler of a SIP request preserves the types.
LEMMA SipRequestType ==
    ASSUME TypeOK, SipRequest
    PROVE  TypeOK'
<1> USE DEF TypeOK
<1>0. ASSUME sipQ # << >>
      PROVE  Tail(sipQ) \in Seq(SipRequests)
  BY <1>0, TailType
<1>1. ASSUME NEW d \in Dialogs, on_sip_invite(d)
      PROVE  TypeOK'
  <2>0. sipQ' \in Seq(SipRequests)
    BY <1>0, <1>1 DEF on_sip_invite, NextRequest, Pop
  <2>1. CASE InviteAgain(d)
    <3>1. call \in ActiveCall
      BY <2>1, BusyType DEF InviteAgain, call_id_matches
    <3>2. PeerType'
      BY <2>1, FinalType, ProvisionalType DEF InviteAgain, PeerStates
    <3>3. call' \in ActiveCall
      <4> DEFINE r == call.ringing_sent \/ ~call.early_media
      <4>1. r \in BOOLEAN
        OBVIOUS
      <4>2. call' = call \/ call' = [call EXCEPT !.ringing_sent = r]
        BY <2>1, <3>1 DEF InviteAgain, ActiveCall
      <4> HIDE DEF r
      <4> QED BY <3>1, <4>1, <4>2 DEF ActiveCall
    <3> QED BY <2>0, <2>1, <3>2, <3>3 DEF InviteAgain, PeerType, linkVars, LinkTypeOK
  <2>2. CASE InviteRefused(d)
    <3>1. PeerType'
      BY <2>2, FinalType DEF InviteRefused, PeerStates
    <3> QED BY <2>0, <2>2, <3>1 DEF InviteRefused, PeerType, linkVars, LinkTypeOK
  <2>3. CASE InviteDials(d)
    <3>1. PICK l \in Legs : DialOk(l) /\ call' = NewCall("FromSip", l, d)
      BY <2>3 DEF InviteDials
    <3>2. LinkTypeOK'
      BY <3>1 DEF DialOk, Announce, LinkTypeOK, LegStates, LiveStates
    <3>3. PeerType'
      BY <2>3, SetPeerType, ProvisionalType DEF InviteDials, PeerStates
    <3>4. call' \in ActiveCall
      BY <3>1, NewCallType
    <3> QED BY <2>0, <2>3, <3>2, <3>3, <3>4 DEF InviteDials, PeerType
  <2>4. CASE InviteDialFails(d)
    <3>1. PICK l \in Legs : DialErr(l)
      BY <2>4 DEF InviteDialFails
    <3>2. LinkTypeOK'
      <4>1. /\ CallAdded(l) \in ModemEvents
            /\ CallDeleted(l) \in ModemEvents
        BY EventTypes
      <4>2. \/ modemQ' = modemQ
            \/ modemQ' = Append(Append(modemQ, CallAdded(l)), CallDeleted(l))
        BY <3>1 DEF DialErr
      <4>3. modemQ \in Seq(ModemEvents)
        BY DEF LinkTypeOK
      <4>4. Append(Append(modemQ, CallAdded(l)), CallDeleted(l)) \in Seq(ModemEvents)
        BY <4>1, <4>3, AppendType
      <4>5. modemQ' \in Seq(ModemEvents)
        BY <4>2, <4>3, <4>4
      <4> QED BY <3>1, <4>5 DEF DialErr, LinkTypeOK
    <3>3. PeerType'
      BY <2>4, FinalType DEF InviteDialFails, PeerStates
    <3> QED BY <2>0, <2>4, <3>2, <3>3 DEF InviteDialFails, PeerType
  <2> QED BY <1>1, <2>1, <2>2, <2>3, <2>4 DEF on_sip_invite
<1>2. ASSUME NEW d \in Dialogs, on_sip_bye(d)
      PROVE  TypeOK'
  <2>0. sipQ' \in Seq(SipRequests)
    BY <1>0, <1>2 DEF on_sip_bye, NextRequest, Pop
  <2>1. PeerType'
    BY <1>2, AnswerByeType DEF on_sip_bye
  <2>2. CASE call_id_matches(d)
    <3>1. LinkTypeOK' /\ BookType'
      BY <1>2, <2>2, BusyType, HangupLegType, FinishType
      DEF on_sip_bye, call_id_matches, LinkTypeOK
    <3> QED BY <1>2, <2>0, <2>1, <3>1 DEF on_sip_bye, BookType, PeerType
  <2>3. CASE ~call_id_matches(d)
    BY <1>2, <2>0, <2>1, <2>3 DEF on_sip_bye, PeerType, linkVars, LinkTypeOK
  <2> QED BY <2>2, <2>3
<1>3. ASSUME NEW d \in Dialogs, on_sip_cancel(d)
      PROVE  TypeOK'
  <2>0. sipQ' \in Seq(SipRequests)
    BY <1>0, <1>3 DEF on_sip_cancel, NextRequest, Pop
  <2>1. CASE CancelMatches(d)
    <3>1. PeerType'
      BY <1>3, <2>1, FinalType DEF on_sip_cancel, PeerStates
    <3>2. LinkTypeOK' /\ BookType'
      BY <1>3, <2>1, BusyType, HangupLegType, FinishType
      DEF on_sip_cancel, CancelMatches, call_id_matches, LinkTypeOK
    <3> QED BY <1>3, <2>0, <3>1, <3>2 DEF on_sip_cancel, BookType, PeerType
  <2>2. CASE ~CancelMatches(d)
    BY <1>3, <2>0, <2>2 DEF on_sip_cancel, linkVars, LinkTypeOK
  <2> QED BY <2>1, <2>2
<1> QED BY <1>1, <1>2, <1>3 DEF SipRequest

\* Each handler of an internal event preserves the types.
LEMMA InternalEventType ==
    ASSUME TypeOK, InternalEvent
    PROVE  TypeOK'
<1> USE DEF TypeOK
<1>0. ASSUME internalQ # << >>
      PROVE  Tail(internalQ) \in Seq(Internals)
  BY <1>0, TailType
<1>1. ASSUME NEW d \in Dialogs, StaleInternal(d), internalQ # << >>
      PROVE  TypeOK'
  BY <1>0, <1>1 DEF StaleInternal, Pop, linkVars, LinkTypeOK
<1>2. ASSUME NEW d \in Dialogs, call_id_matches(d), HangupLeg(call.leg, modemQ), finish_call
      PROVE  LinkTypeOK' /\ BookType'
  BY <1>2, BusyType, HangupLegType, FinishType DEF call_id_matches, LinkTypeOK
<1>3. ASSUME NEW d \in Dialogs, OnSipAnswered(d)
      PROVE  TypeOK'
  <2>0. internalQ # << >>
    BY <1>3 DEF OnSipAnswered, NextInternal
  <2>1. CASE call_id_matches(d) /\ Pop(internalQ) /\ SipAnswerConnects(d)
    <3>1. call \in ActiveCall /\ call.leg \in Legs
      BY <2>1, BusyType DEF call_id_matches
    <3>2. StateSignal(call.leg, "active", modemQ) \in Seq(ModemEvents)
      BY <3>1, SignalTypes DEF LinkTypeOK, LegStates, LiveStates
    <3>3. LinkTypeOK'
      BY <2>1, <3>1, <3>2 DEF SipAnswerConnects, AcceptOk, LinkTypeOK, LegStates, LiveStates
    <3>4. PeerType'
      BY <2>1, SetPeerType DEF SipAnswerConnects, PeerStates
    <3>5. call' \in ActiveCall
      BY <2>1, <3>1 DEF SipAnswerConnects, ActiveCall
    <3> QED BY <1>0, <2>0, <2>1, <3>3, <3>4, <3>5 DEF SipAnswerConnects, PeerType, Pop
  <2>2. CASE call_id_matches(d) /\ Pop(internalQ) /\ SipAnswerFails(d)
    <3>1. PeerType'
      BY <2>2, SetPeerType DEF SipAnswerFails, PeerStates
    <3>2. LinkTypeOK' /\ BookType'
      BY <1>2, <2>2 DEF SipAnswerFails
    <3> QED BY <1>0, <2>0, <2>2, <3>1, <3>2 DEF SipAnswerFails, PeerType, BookType, Pop
  <2> QED BY <1>1, <1>3, <2>0, <2>1, <2>2 DEF OnSipAnswered
<1>4. ASSUME NEW d \in Dialogs, OnSipFailed(d)
      PROVE  TypeOK'
  <2>0. internalQ # << >>
    BY <1>4 DEF OnSipFailed, NextInternal
  <2>1. CASE call_id_matches(d) /\ Pop(internalQ) /\ SipRejected(d)
    <3>1. PeerType'
      BY <2>1, SetPeerType DEF SipRejected, PeerStates
    <3>2. LinkTypeOK' /\ BookType'
      BY <1>2, <2>1 DEF SipRejected
    <3> QED BY <1>0, <2>0, <2>1, <3>1, <3>2 DEF SipRejected, PeerType, BookType, Pop
  <2>2. CASE call_id_matches(d) /\ Pop(internalQ) /\ RetryWithAuth(d)
    <3>1. PeerType'
      BY <2>2, SetPeerType DEF RetryWithAuth, PeerStates
    <3>2. call' \in ActiveCall
      BY <2>2, BusyType DEF RetryWithAuth, ActiveCall, call_id_matches
    <3> QED BY <1>0, <2>0, <2>2, <3>1, <3>2
            DEF RetryWithAuth, PeerType, Pop, linkVars, LinkTypeOK
  <2> QED BY <1>1, <1>4, <2>0, <2>1, <2>2 DEF OnSipFailed
<1>5. ASSUME NEW d \in Dialogs, OnRingTimeout(d)
      PROVE  TypeOK'
  <2>0. internalQ # << >>
    BY <1>5 DEF OnRingTimeout, NextInternal
  <2>1. CASE StaleInternal(d)
    BY <1>1, <2>0, <2>1
  <2>2. CASE call_id_matches(d) /\ ~StaleInternal(d)
    <3>1. PeerType'
      BY <1>5, <2>2, CancelType DEF OnRingTimeout
    <3>2. LinkTypeOK' /\ BookType'
      BY <1>2, <1>5, <2>2 DEF OnRingTimeout
    <3> QED BY <1>0, <1>5, <2>0, <2>2, <3>1, <3>2 DEF OnRingTimeout, PeerType, BookType, Pop
  <2> QED BY <1>5, <2>1, <2>2 DEF OnRingTimeout
<1>6. ASSUME NEW d \in Dialogs, OnEarlyMediaAudio(d)
      PROVE  TypeOK'
  <2>0. internalQ # << >> /\ internalQ' = Tail(internalQ)
    BY <1>6 DEF OnEarlyMediaAudio, NextInternal, Pop
  <2>1. PeerType'
    BY <1>6, ProvisionalType DEF OnEarlyMediaAudio, PeerType
  <2>2. call' \in ActiveCall \cup {NoCall}
    BY <1>6, BusyType DEF OnEarlyMediaAudio, ActiveCall, call_id_matches
  <2> QED BY <1>0, <1>6, <2>0, <2>1, <2>2 DEF OnEarlyMediaAudio, PeerType, linkVars, LinkTypeOK
<1> QED BY <1>3, <1>4, <1>5, <1>6 DEF InternalEvent

\* The steps of ModemManager, the network and the watcher preserve the types.
LEMMA LinkType ==
    ASSUME TypeOK, Watcher \/ \E l \in Legs : Network(l)
    PROVE  TypeOK'
<1> USE DEF TypeOK, gwVars
<1>1. CASE Watcher
  <2> USE EventTypes DEF LinkTypeOK, Sessions, LegStates
  <2>1. CASE ModemVanishes
    BY <1>1, <2>1 DEF Watcher, ModemVanishes
  <2>2. CASE ModemReturns
    BY <1>1, <2>2 DEF Watcher, ModemReturns
  <2>3. CASE SessionUp
    BY <1>1, <2>3 DEF Watcher, SessionUp
  <2>4. CASE Adopt
    BY <1>1, <2>4 DEF Watcher, Adopt
  <2>5. CASE SessionDown
    BY <1>1, <2>5 DEF Watcher, SessionDown
  <2> QED BY <1>1, <2>1, <2>2, <2>3, <2>4, <2>5 DEF Watcher, LinkSession
<1>2. ASSUME NEW l \in Legs, Network(l)
      PROVE  TypeOK'
  <2> USE <1>2 DEF LinkTypeOK, LegStates, LiveStates
  <2>0. \A s \in LegStates : StateSignal(l, s, modemQ) \in Seq(ModemEvents)
    BY SignalTypes
  <2>1. CASE NetIncoming(l)
    BY <2>1 DEF Network, NetIncoming, Announce
  <2>2. CASE NetProgress(l)
    BY <2>0, <2>2 DEF Network, NetProgress
  <2>3. CASE NetHangup(l)
    BY <2>0, <2>3 DEF Network, NetHangup
  <2>4. CASE NetEnded(l)
    BY <2>0, <2>4 DEF Network, NetEnded
  <2>5. CASE HandleCallAdded(l)
    BY <2>5, EventTypes DEF Network, HandleCallAdded
  <2>6. CASE Subscribed(l)
    BY <2>6 DEF Network, Subscribed
  <2> QED BY <2>1, <2>2, <2>3, <2>4, <2>5, <2>6 DEF Network, LinkStep
<1> QED BY <1>1, <1>2

\* The steps of the SIP peers and of the response task preserve the types.
LEMMA PeerStepType ==
    ASSUME TypeOK, NEW d \in Dialogs, Peer(d)
    PROVE  TypeOK'
<1> USE DEF TypeOK
<1>0. ASSUME UNCHANGED linkVars
      PROVE  LinkTypeOK'
  BY <1>0 DEF linkVars, LinkTypeOK
<1>1. \A m \in {"INVITE", "CANCEL", "BYE"} : [m |-> m, id |-> d] \in SipRequests
  BY DEF SipRequests
<1>2. \A e \in {"SipAnswered", "SipFailed", "RingTimeout", "EarlyMediaAudio"} :
        [ev |-> e, id |-> d] \in Internals
  BY DEF Internals
<1>3. CASE CallerInvites(d)
  <2>1. PeerType'
    BY <1>3, SetPeerType DEF CallerInvites, PeerStates
  <2> QED BY <1>0, <1>1, <1>3, <2>1 DEF CallerInvites, Send, Quiet, PeerType
<1>4. CASE CallerCopy(d)
  BY <1>0, <1>1, <1>4 DEF CallerCopy, Send, Quiet
<1>5. CASE CallerCancels(d)
  BY <1>0, <1>1, <1>5 DEF CallerCancels, Send, Quiet
<1>6. CASE CallerLeaves(d)
  <2>1. PeerType'
    BY <1>6, SetPeerType DEF CallerLeaves, PeerStates
  <2> QED BY <1>0, <1>1, <1>6, <2>1 DEF CallerLeaves, Send, Quiet, PeerType
<1>7. CASE PeerHangsUp(d)
  BY <1>0, <1>1, <1>7 DEF PeerHangsUp, Send, Quiet
<1>8. ASSUME NEW s \in PeerStates, NEW e \in {"SipAnswered", "SipFailed"}, CalleeResponds(d, s, e)
      PROVE  TypeOK'
  <2>1. PeerType'
    BY <1>8, SetPeerType DEF CalleeResponds
  <2>2. [ev |-> e, id |-> d] \in Internals
    BY <1>2
  <2>3. CASE d \in tasks
    <3>1. tasks' = tasks \ {d} /\ internalQ' = Append(internalQ, [ev |-> e, id |-> d])
      BY <1>8, <2>3 DEF CalleeResponds
    <3>2. internalQ' \in Seq(Internals)
      BY <2>2, <3>1
    <3> QED BY <1>0, <1>8, <2>1, <3>1, <3>2 DEF CalleeResponds, PeerType
  <2>4. CASE d \notin tasks
    BY <1>0, <1>8, <2>1, <2>4 DEF CalleeResponds, PeerType
  <2> QED BY <2>3, <2>4
<1>9. CASE CalleeAnswers(d) \/ CalleeRefuses(d) \/ CalleeChallenges(d)
  BY <1>8, <1>9 DEF CalleeAnswers, CalleeRefuses, CalleeChallenges, PeerStates
<1>10. CASE RingTimeout(d)
  BY <1>0, <1>2, <1>10 DEF RingTimeout
<1> QED BY <1>3, <1>4, <1>5, <1>6, <1>7, <1>9, <1>10 DEF Peer

\* Every step preserves the types.
LEMMA NextType ==
    ASSUME TypeOK, [Next]_vars
    PROVE  TypeOK'
<1> USE DEF TypeOK
<1>1. CASE ModemEvent
  BY <1>1, ModemEventType
<1>2. CASE SipRequest
  BY <1>2, SipRequestType
<1>3. CASE InternalEvent
  BY <1>3, InternalEventType
<1>4. CASE check_media
  BY <1>4, TeardownType DEF check_media, LinkTypeOK, BookType, PeerType
<1>5. CASE HearAudio
  <2>1. call \in ActiveCall /\ call.id \in Dialogs
    BY <1>5, BusyType DEF HearAudio
  <2>2. call' \in ActiveCall
    BY <1>5, <2>1 DEF HearAudio, ActiveCall
  <2>3. internalQ' \in Seq(Internals)
    BY <1>5, <2>1 DEF HearAudio, Internals
  <2> QED BY <1>5, <2>2, <2>3 DEF HearAudio, linkVars, LinkTypeOK
<1>6. CASE Shutdown
  <2>1. CASE Busy
    BY <1>6, <2>1, TeardownType DEF Shutdown, LinkTypeOK, BookType, PeerType
  <2>2. CASE ~Busy
    BY <1>6, <2>2 DEF Shutdown, linkVars, LinkTypeOK
  <2> QED BY <2>1, <2>2
<1>7. CASE Restart
  <2>1. LinkTypeOK'
    BY <1>7 DEF Restart, LinkRestart, LinkTypeOK, Sessions
  <2>2. sipQ' = << >> /\ internalQ' = << >> /\ tasks' = {} /\ call' = NoCall
    BY <1>7 DEF Restart
  <2>3. running' \in BOOLEAN /\ modem' \in BOOLEAN
    BY <1>7 DEF Restart
  <2>4. UNCHANGED <<cdr, peer, spurious>>
    BY <1>7 DEF Restart
  <2> QED BY <2>1, <2>2, <2>3, <2>4
<1>8. CASE Watcher \/ \E l \in Legs : Network(l)
  BY <1>8, LinkType
<1>9. CASE \E d \in Dialogs : Peer(d)
  BY <1>9, PeerStepType
<1>10. CASE UNCHANGED vars
  BY <1>10 DEF vars, linkVars, gwVars, LinkTypeOK
<1> QED BY <1>1, <1>2, <1>3, <1>4, <1>5, <1>6, <1>7, <1>8, <1>9, <1>10 DEF Next

(***************************************************************************)
(* Type correctness: the gateway's state, its three channels and what the  *)
(* watcher and the SIP peers keep are always of the types TypeOK gives,    *)
(* whatever interleaving of handlers, tasks and outside events happens.    *)
(***************************************************************************)
THEOREM TypeCorrect == Spec => []TypeOK
<1>1. Init => TypeOK
  <2> SUFFICES ASSUME Init PROVE TypeOK
    OBVIOUS
  <2>1. LinkTypeOK
    <3>1. modemQ = << >> /\ announced = {} /\ session = "waiting"
      BY DEF Init, LinkInit
    <3>2. present \in BOOLEAN
      BY DEF Init, LinkInit
    <3>3. modemQ \in Seq(ModemEvents) /\ announced \in SUBSET Legs /\ session \in Sessions
      BY <3>1 DEF Sessions
    <3>4. /\ leg \in [Legs -> LegStates]
          /\ dir \in [Legs -> {"in", "out"}]
          /\ sub \in [Legs -> {"off", "starting", "on"}]
      BY DEF Init, LinkInit, LegStates
    <3> QED BY <3>2, <3>3, <3>4 DEF LinkTypeOK
  <2>2. running \in BOOLEAN /\ modem \in BOOLEAN
    BY DEF Init
  <2>3. sipQ = << >> /\ internalQ = << >> /\ call = NoCall /\ tasks = {} /\ spurious = {}
    BY DEF Init
  <2>4. /\ cdr \in [Dialogs -> {"none", "open", "answered", "missed", "completed"}]
        /\ peer \in [Dialogs -> PeerStates]
    BY DEF Init, PeerStates
  <2> QED BY <2>1, <2>2, <2>3, <2>4 DEF TypeOK
<1>2. TypeOK /\ [Next]_vars => TypeOK'
  BY NextType
<1> QED BY <1>1, <1>2, PTL DEF Spec

----------------------------------------------------------------------------
(* LegInv: the queue.                                                      *)

\* The kinds of events are told apart.
LEMMA EventFacts ==
    /\ Up.ev = "Up" /\ Down.ev = "Down"
    /\ \A l \in Legs : /\ CallAdded(l).ev = "CallAdded"
                       /\ CallDeleted(l).ev = "CallDeleted"
    /\ \A l \in Legs, s \in LegStates : CallState(l, s).ev = "CallState"
    /\ \A k \in Legs, l \in Legs : CallAdded(k) = CallAdded(l) => k = l
BY DEF Up, Down, CallAdded, CallDeleted, CallState

\* Where the events of a popped or extended queue are.
LEMMA TailIndex ==
    ASSUME NEW q \in Seq(ModemEvents), q # << >>
    PROVE  /\ Len(q) \in Nat /\ Len(q) >= 1
           /\ Len(Tail(q)) = Len(q) - 1
           /\ \A i \in 1..Len(Tail(q)) : Tail(q)[i] = q[i + 1]
           /\ Head(q) = q[1]
OBVIOUS

\* What Append does to each index of a queue.
LEMMA AppendIndex ==
    ASSUME NEW q \in Seq(ModemEvents), NEW e \in ModemEvents
    PROVE  /\ Len(q) \in Nat
           /\ Len(Append(q, e)) = Len(q) + 1
           /\ \A i \in 1..Len(q) : Append(q, e)[i] = q[i]
           /\ Append(q, e)[Len(q) + 1] = e
OBVIOUS

\* The gateway's handle once the event at the head of q is handled.
HandleAfter(q, m) == IF Head(q) = Up THEN TRUE ELSE IF Head(q) = Down THEN FALSE ELSE m

\* Popping an event keeps a handle for every CallAdded behind it.
LEMMA PopHandle ==
    ASSUME NEW q \in Seq(ModemEvents), q # << >>, NEW m \in BOOLEAN
    PROVE  /\ HandleForCalls(q, m) => HandleForCalls(Tail(q), HandleAfter(q, m))
           /\ HandleForSession(q, m) => HandleForSession(Tail(q), HandleAfter(q, m))
<1> DEFINE t == Tail(q)
<1>1. /\ Len(q) \in Nat /\ Len(q) >= 1
      /\ Len(t) = Len(q) - 1
      /\ \A i \in 1..Len(t) : t[i] = q[i + 1]
      /\ Head(q) = q[1]
  BY TailIndex
<1> HIDE DEF t
<1>2. ASSUME NEW k \in 1..Len(q), NEW j \in Nat, j < k, j >= 1, q[k] = Up
      PROVE  k - 1 \in 1..Len(t) /\ t[k - 1] = Up
  BY <1>1, <1>2
<1>3. Up # Down
  BY EventFacts
<1>4. ASSUME HandleForCalls(q, m), NEW i \in 1..Len(t), t[i].ev = "CallAdded"
      PROVE  /\ HandleAfter(q, m) \/ \E k \in 1..Len(t) : k < i /\ t[k] = Up
             /\ \A j \in 1..Len(t) : j < i /\ t[j] = Down =>
                  \E k \in 1..Len(t) : j < k /\ k < i /\ t[k] = Up
  <2>1. i + 1 \in 1..Len(q) /\ q[i + 1].ev = "CallAdded"
    BY <1>1, <1>4
  <2>2. /\ m \/ \E k \in 1..Len(q) : k < i + 1 /\ q[k] = Up
        /\ \A j \in 1..Len(q) : j < i + 1 /\ q[j] = Down =>
             \E k \in 1..Len(q) : j < k /\ k < i + 1 /\ q[k] = Up
    BY <1>4, <2>1 DEF HandleForCalls
  <2>3. ASSUME NEW j \in 1..Len(t), j < i, t[j] = Down
        PROVE  \E k \in 1..Len(t) : j < k /\ k < i /\ t[k] = Up
    <3>1. j + 1 \in 1..Len(q) /\ j + 1 < i + 1 /\ q[j + 1] = Down
      BY <1>1, <2>3
    <3>2. PICK k \in 1..Len(q) : j + 1 < k /\ k < i + 1 /\ q[k] = Up
      BY <2>2, <3>1
    <3>3. k - 1 \in 1..Len(t) /\ t[k - 1] = Up
      BY <1>2, <3>2
    <3> QED BY <3>2, <3>3
  <2>4. CASE Head(q) = Up
    BY <2>3, <2>4 DEF HandleAfter
  <2>5. CASE Head(q) = Down
    <3>1. PICK k \in 1..Len(q) : 1 < k /\ k < i + 1 /\ q[k] = Up
      BY <1>1, <2>2, <2>5
    <3>2. k - 1 \in 1..Len(t) /\ t[k - 1] = Up
      BY <1>2, <3>1
    <3> QED BY <2>3, <3>1, <3>2
  <2>6. CASE Head(q) # Up /\ Head(q) # Down /\ ~m
    <3>1. PICK k \in 1..Len(q) : k < i + 1 /\ q[k] = Up
      BY <2>2, <2>6
    <3>2. 1 < k
      BY <1>1, <2>6, <3>1
    <3>3. k - 1 \in 1..Len(t) /\ t[k - 1] = Up
      BY <1>2, <3>1, <3>2
    <3> QED BY <2>3, <3>1, <3>3
  <2> QED BY <2>3, <2>4, <2>5, <2>6 DEF HandleAfter
<1>5. ASSUME HandleForSession(q, m)
      PROVE  /\ HandleAfter(q, m) \/ \E k \in 1..Len(t) : t[k] = Up
             /\ \A j \in 1..Len(t) : t[j] = Down => \E k \in 1..Len(t) : j < k /\ t[k] = Up
  <2>1. /\ m \/ \E k \in 1..Len(q) : q[k] = Up
        /\ \A j \in 1..Len(q) : q[j] = Down => \E k \in 1..Len(q) : j < k /\ q[k] = Up
    BY <1>5 DEF HandleForSession
  <2>2. ASSUME NEW j \in 1..Len(t), t[j] = Down
        PROVE  \E k \in 1..Len(t) : j < k /\ t[k] = Up
    <3>1. j + 1 \in 1..Len(q) /\ q[j + 1] = Down
      BY <1>1, <2>2
    <3>2. PICK k \in 1..Len(q) : j + 1 < k /\ q[k] = Up
      BY <2>1, <3>1
    <3>3. k - 1 \in 1..Len(t) /\ t[k - 1] = Up
      BY <1>2, <3>2
    <3> QED BY <3>2, <3>3
  <2>3. CASE Head(q) = Up
    BY <2>2, <2>3 DEF HandleAfter
  <2>4. CASE Head(q) = Down
    <3>1. PICK k \in 1..Len(q) : 1 < k /\ q[k] = Up
      BY <1>1, <2>1, <2>4
    <3>2. k - 1 \in 1..Len(t) /\ t[k - 1] = Up
      BY <1>2, <3>1
    <3> QED BY <2>2, <3>2
  <2>5. CASE Head(q) # Up /\ Head(q) # Down /\ ~m
    <3>1. PICK k \in 1..Len(q) : q[k] = Up
      BY <2>1, <2>5
    <3>2. 1 < k
      BY <1>1, <2>5, <3>1
    <3>3. k - 1 \in 1..Len(t) /\ t[k - 1] = Up
      BY <1>2, <3>1, <3>2
    <3> QED BY <2>2, <3>3
  <2> QED BY <2>2, <2>3, <2>4, <2>5 DEF HandleAfter
<1> QED BY <1>4, <1>5 DEF HandleForCalls, HandleForSession, t

\* Popping an event other than CallAdded(l) keeps l announced; popping
\* CallAdded(l) either leaves it announced or leaves no Down behind.
LEMMA PopTold ==
    ASSUME NEW q \in Seq(ModemEvents), q # << >>
    PROVE  /\ NoDown(q) => NoDown(Tail(q))
           /\ \A l \in Legs : ToldAfterDown(l, q) =>
                \/ ToldAfterDown(l, Tail(q))
                \/ Head(q) = CallAdded(l) /\ NoDown(Tail(q))
<1> DEFINE t == Tail(q)
<1>1. /\ Len(q) \in Nat /\ Len(q) >= 1
      /\ Len(t) = Len(q) - 1
      /\ \A i \in 1..Len(t) : t[i] = q[i + 1]
      /\ Head(q) = q[1]
  BY TailIndex
<1> HIDE DEF t
<1>2. NoDown(q) => NoDown(t)
  BY <1>1 DEF NoDown
<1>3. ASSUME NEW l \in Legs, ToldAfterDown(l, q)
      PROVE  ToldAfterDown(l, t) \/ (Head(q) = CallAdded(l) /\ NoDown(t))
  <2>1. PICK i \in 1..Len(q) :
          q[i] = CallAdded(l) /\ \A j \in 1..Len(q) : j > i => q[j] # Down
    BY <1>3 DEF ToldAfterDown
  <2>2. CASE i = 1
    BY <1>1, <2>1, <2>2 DEF NoDown
  <2>3. CASE i > 1
    <3>1. i - 1 \in 1..Len(t) /\ t[i - 1] = CallAdded(l)
      BY <1>1, <2>1, <2>3
    <3>2. \A j \in 1..Len(t) : j > i - 1 => t[j] # Down
      BY <1>1, <2>1
    <3> QED BY <3>1, <3>2 DEF ToldAfterDown
  <2> QED BY <2>2, <2>3
<1> QED BY <1>2, <1>3 DEF t

\* A CallAdded that is handled finds a handle.
LEMMA HeadHandle ==
    ASSUME NEW q \in Seq(ModemEvents), q # << >>, NEW m \in BOOLEAN, HandleForCalls(q, m),
           NEW l \in Legs, Head(q) = CallAdded(l)
    PROVE  m
<1>1. 1 \in 1..Len(q) /\ q[1].ev = "CallAdded"
  BY TailIndex, EventFacts
<1>2. m \/ \E k \in 1..Len(q) : k < 1 /\ q[k] = Up
  BY <1>1 DEF HandleForCalls
<1> QED BY <1>2, TailIndex

\* Everything LegInv says of queue q holds of queue r as well.
Carries(q, r) ==
    /\ \A m \in BOOLEAN : /\ HandleForCalls(q, m) => HandleForCalls(r, m)
                          /\ HandleForSession(q, m) => HandleForSession(r, m)
    /\ NoDown(q) => NoDown(r)
    /\ \A l \in Legs : ToldAfterDown(l, q) => ToldAfterDown(l, r)

\* An event other than Down that is sent leaves what is queued as it was; a
\* CallAdded among them needs the handle a session keeps.
LEMMA AppendHandle ==
    ASSUME NEW q \in Seq(ModemEvents), NEW e \in ModemEvents, NEW m \in BOOLEAN,
           HandleForCalls(q, m), e.ev = "CallAdded" => HandleForSession(q, m)
    PROVE  HandleForCalls(Append(q, e), m)
<1> DEFINE r == Append(q, e)
<1>1. /\ Len(q) \in Nat
      /\ Len(r) = Len(q) + 1
      /\ \A i \in 1..Len(q) : r[i] = q[i]
      /\ r[Len(q) + 1] = e
  BY AppendIndex
<1> HIDE DEF r
<1>2. ASSUME NEW i \in 1..Len(r), r[i].ev = "CallAdded"
      PROVE  /\ m \/ \E k \in 1..Len(r) : k < i /\ r[k] = Up
             /\ \A j \in 1..Len(r) : j < i /\ r[j] = Down =>
                  \E k \in 1..Len(r) : j < k /\ k < i /\ r[k] = Up
  <2>1. CASE i \in 1..Len(q)
    <3>1. /\ m \/ \E k \in 1..Len(q) : k < i /\ q[k] = Up
          /\ \A j \in 1..Len(q) : j < i /\ q[j] = Down =>
               \E k \in 1..Len(q) : j < k /\ k < i /\ q[k] = Up
      BY <1>1, <1>2, <2>1 DEF HandleForCalls
    <3> QED BY <1>1, <2>1, <3>1
  <2>2. CASE i = Len(q) + 1
    <3>1. /\ m \/ \E k \in 1..Len(q) : q[k] = Up
          /\ \A j \in 1..Len(q) : q[j] = Down => \E k \in 1..Len(q) : j < k /\ q[k] = Up
      BY <1>1, <1>2, <2>2 DEF HandleForSession
    <3> QED BY <1>1, <2>2, <3>1
  <2> QED BY <1>1, <2>1, <2>2
<1> QED BY <1>2 DEF HandleForCalls, r

\* Sending anything but a Down keeps the handle the session will find; an Up gives it one.
LEMMA AppendSession ==
    ASSUME NEW q \in Seq(ModemEvents), NEW e \in ModemEvents, NEW m \in BOOLEAN, e # Down,
           HandleForSession(q, m) \/ e = Up
    PROVE  HandleForSession(Append(q, e), m)
<1> DEFINE r == Append(q, e)
<1>1. /\ Len(q) \in Nat
      /\ Len(r) = Len(q) + 1
      /\ \A i \in 1..Len(q) : r[i] = q[i]
      /\ r[Len(q) + 1] = e
  BY AppendIndex
<1> HIDE DEF r
<1>2. CASE e = Up
  <2>1. Len(r) \in 1..Len(r) /\ r[Len(r)] = Up
    BY <1>1, <1>2
  <2>2. ASSUME NEW j \in 1..Len(r), r[j] = Down
        PROVE  j < Len(r)
    BY <1>1, <2>1, <2>2, EventFacts
  <2> QED BY <2>1, <2>2 DEF HandleForSession, r
<1>3. CASE HandleForSession(q, m)
  <2>1. /\ m \/ \E k \in 1..Len(q) : q[k] = Up
        /\ \A j \in 1..Len(q) : q[j] = Down => \E k \in 1..Len(q) : j < k /\ q[k] = Up
    BY <1>3 DEF HandleForSession
  <2>2. \A j \in 1..Len(r) : r[j] = Down => j \in 1..Len(q) /\ q[j] = Down
    BY <1>1
  <2>3. \A k \in 1..Len(q) : q[k] = Up => k \in 1..Len(r) /\ r[k] = Up
    BY <1>1
  <2>4. m \/ \E k \in 1..Len(r) : r[k] = Up
    BY <2>1, <2>3
  <2>5. \A j \in 1..Len(r) : r[j] = Down => \E k \in 1..Len(r) : j < k /\ r[k] = Up
    BY <2>1, <2>2, <2>3
  <2> QED BY <2>4, <2>5 DEF HandleForSession, r
<1> QED BY <1>2, <1>3

\* Sending anything but a Down keeps every announcement, and a CallAdded makes one.
LEMMA AppendTold ==
    ASSUME NEW q \in Seq(ModemEvents), NEW e \in ModemEvents, e # Down
    PROVE  /\ NoDown(q) => NoDown(Append(q, e))
           /\ \A l \in Legs : ToldAfterDown(l, q) \/ e = CallAdded(l) =>
                ToldAfterDown(l, Append(q, e))
<1> DEFINE r == Append(q, e)
<1>1. /\ Len(q) \in Nat
      /\ Len(r) = Len(q) + 1
      /\ \A i \in 1..Len(q) : r[i] = q[i]
      /\ r[Len(q) + 1] = e
  BY AppendIndex
<1> HIDE DEF r
<1>2. NoDown(q) => NoDown(r)
  BY <1>1 DEF NoDown
<1>3. ASSUME NEW l \in Legs, ToldAfterDown(l, q)
      PROVE  ToldAfterDown(l, r)
  <2>1. PICK i \in 1..Len(q) :
          q[i] = CallAdded(l) /\ \A j \in 1..Len(q) : j > i => q[j] # Down
    BY <1>3 DEF ToldAfterDown
  <2>2. i \in 1..Len(r) /\ r[i] = CallAdded(l) /\ \A j \in 1..Len(r) : j > i => r[j] # Down
    BY <1>1, <2>1
  <2> QED BY <2>2 DEF ToldAfterDown
<1>4. ASSUME NEW l \in Legs, e = CallAdded(l)
      PROVE  ToldAfterDown(l, r)
  BY <1>1, <1>4 DEF ToldAfterDown
<1> QED BY <1>2, <1>3, <1>4 DEF r

\* An event that is neither a Down nor a CallAdded leaves what is queued as it was.
LEMMA AppendCarries ==
    ASSUME NEW q \in Seq(ModemEvents), NEW e \in ModemEvents, e # Down, e.ev # "CallAdded"
    PROVE  Carries(q, Append(q, e))
BY AppendHandle, AppendSession, AppendTold DEF Carries

\* The signals of an object leave what is queued as it was.
LEMMA SignalsCarry ==
    ASSUME NEW l \in Legs, NEW s \in LegStates, NEW q \in Seq(ModemEvents)
    PROVE  /\ Carries(q, StateSignal(l, s, q))
           /\ Carries(q, DeletedSignal(l, q))
<1>1. Carries(q, q)
  BY DEF Carries
<1>2. /\ CallState(l, s) \in ModemEvents /\ CallState(l, s).ev = "CallState"
      /\ CallDeleted(l) \in ModemEvents /\ CallDeleted(l).ev = "CallDeleted"
      /\ Down.ev = "Down"
  BY EventTypes, EventFacts
<1>3. Carries(q, Append(q, CallState(l, s)))
  BY <1>2, AppendCarries
<1>4. Carries(q, Append(q, CallDeleted(l)))
  BY <1>2, AppendCarries
<1> QED BY <1>1, <1>3, <1>4 DEF StateSignal, DeletedSignal

----------------------------------------------------------------------------
(* The modem handle.                                                       *)

\* hangup makes no call live, ends its own when the modem is there, and
\* only adds signals to the queue it is given.
LEMMA HangupEffect ==
    ASSUME LinkTypeOK, NEW l \in Legs, NEW q \in Seq(ModemEvents), Hangup(l, q)
    PROVE  /\ Carries(q, modemQ')
           /\ \A k \in Legs : Live(k)' => Live(k)
           /\ present => ~Live(l)'
           /\ UNCHANGED <<present, session, announced>>
<1> DEFINE t == StateSignal(l, "terminated", q)
<1>1. t \in Seq(ModemEvents) /\ Carries(q, t)
  BY SignalTypes, SignalsCarry DEF LegStates
<1>2. Carries(q, DeletedSignal(l, q)) /\ Carries(t, DeletedSignal(l, t))
  BY <1>1, SignalsCarry DEF LegStates
<1>3. Carries(q, DeletedSignal(l, t))
  BY <1>1, <1>2 DEF Carries
<1> HIDE DEF t
<1>4. UNCHANGED <<present, session, announced>>
  BY DEF Hangup
<1>5. CASE HangupNothing(l, q)
  BY <1>4, <1>5 DEF HangupNothing, Carries, Live, LiveStates
<1>6. CASE HangupOne(l, q)
  <2>1. Carries(q, modemQ')
    BY <1>2, <1>3, <1>6 DEF HangupOne, t
  <2>2. leg' = [leg EXCEPT ![l] = "none"]
    BY <1>6 DEF HangupOne, Delete
  <2> QED BY <1>4, <2>1, <2>2 DEF Live, LiveStates, LinkTypeOK
<1>7. CASE HangupAll(l, q)
  BY <1>2, <1>4, <1>7 DEF HangupAll, Live, LiveStates
<1> QED BY <1>5, <1>6, <1>7 DEF Hangup

\* The same of the gateway's hangup, which ends l only with a handle.
LEMMA HangupLegEffect ==
    ASSUME LinkTypeOK, NEW l \in Legs, NEW q \in Seq(ModemEvents), HangupLeg(l, q)
    PROVE  /\ Carries(q, modemQ')
           /\ \A k \in Legs : Live(k)' => Live(k)
           /\ present /\ modem => ~Live(l)'
           /\ UNCHANGED <<present, session, announced>>
<1>1. CASE modem
  BY <1>1, HangupEffect DEF HangupLeg
<1>2. CASE ~modem
  BY <1>2 DEF HangupLeg, Carries, Live
<1> QED BY <1>1, <1>2

\* LegInv with q in the place of the queue.
CoveredIn(l, q) ==
    \/ session # "supervising"
    \/ l \in announced
    \/ ToldAfterDown(l, q)
    \/ OnPath(l) /\ NoDown(q)

LegInvIn(q) ==
    /\ \A l \in Legs : Live(l) => CoveredIn(l, q)
    /\ Busy => modem
    /\ ~present => session \in {"waiting", "losing"}
    /\ HandleForCalls(q, modem)
    /\ session # "waiting" => HandleForSession(q, modem)

\* LegInv is LegInvIn of the queue as it is.
LEMMA LegInvHere == LegInv <=> LegInvIn(modemQ)
BY DEF LegInv, LegInvIn, Covered, CoveredIn

\* A call that is given up is either hung up or left to the next session.
LEMMA DropCall ==
    ASSUME TypeOK, NEW q \in Seq(ModemEvents), LegInvIn(q), Busy,
           HangupLeg(call.leg, q), call' = NoCall, modem' = modem
    PROVE  LegInv'
<1>0. PICK l \in Legs : l = call.leg
  BY BusyType
<1>1. modem /\ modem \in BOOLEAN
  BY DEF LegInvIn, TypeOK
<1>2. /\ Carries(q, modemQ')
      /\ \A k \in Legs : Live(k)' => Live(k)
      /\ present => ~Live(l)'
      /\ UNCHANGED <<present, session, announced>>
  BY <1>0, <1>1, HangupLegEffect DEF TypeOK
<1>3. ASSUME NEW k \in Legs, Live(k)'
      PROVE  Covered(k)'
  <2>1. CoveredIn(k, q)
    BY <1>2, <1>3 DEF LegInvIn
  <2>2. CASE k = l
    BY <1>2, <1>3, <2>2 DEF LegInvIn, Covered
  <2>3. CASE k # l
    BY <1>0, <1>2, <2>1, <2>3 DEF CoveredIn, Covered, Carries, OnPath
  <2> QED BY <2>2, <2>3
<1>4. ~Busy'
  BY DEF Busy
<1>5. HandleForCalls(modemQ, modem)' /\ (session # "waiting" => HandleForSession(modemQ, modem))'
  BY <1>1, <1>2 DEF LegInvIn, Carries
<1> QED BY <1>2, <1>3, <1>4, <1>5 DEF LegInv, LegInvIn

\* The call object, the session and the handle are untouched, the call keeps
\* its path or stays absent, and the queue becomes one that carries r.
LEMMA KeepCall ==
    ASSUME TypeOK, NEW r, LegInvIn(r), Carries(r, modemQ'), modem' = modem,
           \A l \in Legs : Live(l)' => Live(l),
           \A l \in Legs : OnPath(l) => OnPath(l)',
           Busy' => Busy,
           UNCHANGED <<present, session, announced>>
    PROVE  LegInv'
<1>1. modem \in BOOLEAN
  BY DEF TypeOK
<1>2. ASSUME NEW k \in Legs, Live(k)'
      PROVE  Covered(k)'
  <2>1. CoveredIn(k, r)
    BY <1>2 DEF LegInvIn
  <2> QED BY <1>2, <2>1 DEF CoveredIn, Covered, Carries
<1>3. HandleForCalls(modemQ, modem)' /\ (session # "waiting" => HandleForSession(modemQ, modem))'
  BY <1>1 DEF LegInvIn, Carries
<1> QED BY <1>2, <1>3 DEF LegInv, LegInvIn

\* An event that is neither Up, Down nor CallAdded is popped without harm.
LEMMA PopHarmless ==
    ASSUME TypeOK, LegInv, modemQ # << >>, Head(modemQ).ev \in {"CallDeleted", "CallState"}
    PROVE  LegInvIn(Tail(modemQ)) /\ Tail(modemQ) \in Seq(ModemEvents)
<1>1. modemQ \in Seq(ModemEvents) /\ modem \in BOOLEAN
  BY DEF TypeOK, LinkTypeOK
<1>2. /\ Head(modemQ) # Up /\ Head(modemQ) # Down
      /\ \A l \in Legs : Head(modemQ) # CallAdded(l)
  BY EventFacts
<1>3. /\ HandleForCalls(modemQ, modem) => HandleForCalls(Tail(modemQ), modem)
      /\ HandleForSession(modemQ, modem) => HandleForSession(Tail(modemQ), modem)
  BY <1>1, <1>2, PopHandle DEF HandleAfter
<1>4. \A l \in Legs : CoveredIn(l, modemQ) => CoveredIn(l, Tail(modemQ))
  BY <1>1, <1>2, PopTold DEF CoveredIn
<1>5. LegInvIn(modemQ)
  BY LegInvHere
<1> QED BY <1>1, <1>3, <1>4, <1>5, TailType DEF LegInvIn

----------------------------------------------------------------------------
(* The actions.                                                            *)

\* Up and Down change the handle, and Down drops the call as well.
LEMMA UpDownLeg ==
    ASSUME TypeOK, LegInv, OnUp \/ OnDown
    PROVE  LegInv'
<1>1. /\ modemQ \in Seq(ModemEvents) /\ modem \in BOOLEAN /\ modemQ # << >>
      /\ modemQ' = Tail(modemQ)
      /\ UNCHANGED <<leg, present, session, announced>>
  BY DEF TypeOK, LinkTypeOK, OnUp, OnDown, NextModem, Pop
<1>2. \A l \in Legs : Live(l)' => Live(l)
  BY <1>1 DEF Live
<1>3. CASE OnUp
  <2>1. Head(modemQ) = Up /\ modem' = TRUE /\ call' = call
    BY <1>3 DEF OnUp, NextModem
  <2>2. /\ HandleForCalls(modemQ, modem) => HandleForCalls(Tail(modemQ), TRUE)
        /\ HandleForSession(modemQ, modem) => HandleForSession(Tail(modemQ), TRUE)
    BY <1>1, <2>1, PopHandle DEF HandleAfter
  <2>3. \A l \in Legs : Head(modemQ) # CallAdded(l)
    BY <2>1, EventFacts
  <2>4. \A l \in Legs : Covered(l) => Covered(l)'
    BY <1>1, <2>1, <2>3, PopTold DEF Covered, OnPath, Busy
  <2> QED BY <1>1, <1>2, <2>1, <2>2, <2>4 DEF LegInv
<1>4. CASE OnDown
  <2>1. Head(modemQ) = Down /\ modem' = FALSE
    BY <1>4 DEF OnDown, NextModem
  <2>2. ~Busy'
    BY <1>4 DEF OnDown, finish_call, Busy
  <2>3. /\ HandleForCalls(modemQ, modem) => HandleForCalls(Tail(modemQ), FALSE)
        /\ HandleForSession(modemQ, modem) => HandleForSession(Tail(modemQ), FALSE)
    <3>1. HandleAfter(modemQ, modem) = FALSE
      BY <2>1, EventFacts DEF HandleAfter
    <3> QED BY <1>1, <3>1, PopHandle
  <2>4. \A l \in Legs : Head(modemQ) # CallAdded(l)
    BY <2>1, EventFacts
  <2>5. ~NoDown(modemQ)
    BY <1>1, <2>1, TailIndex DEF NoDown
  <2>6. \A l \in Legs : Covered(l) => Covered(l)'
    BY <1>1, <2>4, <2>5, PopTold DEF Covered
  <2> QED BY <1>1, <1>2, <2>1, <2>2, <2>3, <2>6 DEF LegInv
<1> QED BY <1>3, <1>4

\* on_mm_call_added has a handle, so only its own call, an object that has
\* gone or a modem that has vanished is passed over.
LEMMA CallAddedLeg ==
    ASSUME TypeOK, LegInv, NEW l \in Legs, OnCallAdded(l)
    PROVE  LegInv'
<1> DEFINE t == Tail(modemQ)
<1>1. /\ modemQ \in Seq(ModemEvents) /\ modem \in BOOLEAN /\ modemQ # << >>
      /\ Head(modemQ) = CallAdded(l)
  BY DEF TypeOK, LinkTypeOK, OnCallAdded, NextModem
<1>2. t \in Seq(ModemEvents)
  BY <1>1, TailType
<1>3. modem
  BY <1>1, HeadHandle DEF LegInv
<1>4. /\ Head(modemQ) # Up /\ Head(modemQ) # Down
      /\ \A k \in Legs : k # l => Head(modemQ) # CallAdded(k)
  BY <1>1, EventFacts
<1>5. /\ HandleForCalls(t, modem)
      /\ session # "waiting" => HandleForSession(t, modem)
  BY <1>1, <1>4, PopHandle DEF HandleAfter, LegInv
<1>6. \A k \in Legs : k # l /\ Covered(k) => CoveredIn(k, t)
  BY <1>1, <1>4, PopTold DEF Covered, CoveredIn
<1>7. Covered(l) => \/ session # "supervising"
                    \/ l \in announced
                    \/ ToldAfterDown(l, t)
                    \/ NoDown(t)
  BY <1>1, PopTold DEF Covered
<1>8. ASSUME Carries(t, modemQ'), UNCHANGED <<present, session, announced, modem, call>>,
             \A k \in Legs : Live(k)' => Live(k), ~Live(l)'
      PROVE  LegInv'
  <2>1. \A k \in Legs : Live(k)' => Covered(k)'
    BY <1>6, <1>8 DEF LegInv, Covered, CoveredIn, Carries, OnPath, Busy
  <2>2. HandleForCalls(modemQ, modem)' /\ (session # "waiting" => HandleForSession(modemQ, modem))'
    BY <1>1, <1>5, <1>8 DEF Carries
  <2> QED BY <1>8, <2>1, <2>2 DEF LegInv, Busy
<1> HIDE DEF t
<1>9. CASE CallAddedIgnored(l)
  <2>1. /\ modemQ' = t
        /\ UNCHANGED <<leg, present, session, announced, modem, call>>
    BY <1>9 DEF CallAddedIgnored, Pop, t
  <2>2. Live(l)' => Covered(l)'
    BY <1>3, <1>7, <1>9, <2>1
    DEF CallAddedIgnored, LegInv, Covered, Live, LiveStates, OnPath, Busy
  <2>3. \A k \in Legs : k # l /\ Live(k)' => Covered(k)'
    BY <1>6, <2>1 DEF LegInv, Covered, CoveredIn, Live, OnPath, Busy
  <2> QED BY <1>5, <2>1, <2>2, <2>3 DEF LegInv, Busy
<1>10. CASE CallAddedEnded(l)
  <2>1. /\ leg' = [leg EXCEPT ![l] = "none"]
        /\ modemQ' = DeletedSignal(l, t)
        /\ UNCHANGED <<present, session, announced, modem, call>>
    BY <1>10 DEF CallAddedEnded, CallAddedReadable, DeleteCall, Delete, gwVars, t
  <2>2. Carries(t, modemQ')
    BY <1>2, <2>1, SignalsCarry DEF LegStates
  <2>3. ~Live(l)' /\ \A k \in Legs : Live(k)' => Live(k)
    BY <2>1 DEF Live, LiveStates, TypeOK, LinkTypeOK
  <2> QED BY <1>8, <2>1, <2>2, <2>3
<1>11. CASE CallAddedHungUp(l)
  <2>1. Hangup(l, t) /\ present /\ UNCHANGED <<modem, call>>
    BY <1>11 DEF CallAddedHungUp, CallAddedReadable, gwVars, t
  <2>2. /\ Carries(t, modemQ')
        /\ \A k \in Legs : Live(k)' => Live(k)
        /\ ~Live(l)'
        /\ UNCHANGED <<present, session, announced>>
    BY <1>2, <2>1, HangupEffect DEF TypeOK
  <2> QED BY <1>8, <2>1, <2>2
<1>12. CASE CallAddedOffered(l)
  <2>1. /\ modemQ' = t /\ ~Busy
        /\ UNCHANGED <<leg, present, session, announced, modem>>
    BY <1>12 DEF CallAddedOffered, Pop, t
  <2>2. PICK d \in OutIds : call' = NewCall("ToSip", l, d)
    BY <1>12 DEF CallAddedOffered
  <2>3. call' \in ActiveCall /\ call'.leg = l
    BY <2>2, NewCallType DEF Dialogs, NewCall
  <2>4. OnPath(l)'
    BY <2>3, NoCallAssumption DEF OnPath, Busy
  <2>5. Live(l)' => Covered(l)'
    BY <1>7, <2>1, <2>4 DEF LegInv, Covered, Live
  <2>6. \A k \in Legs : k # l /\ Live(k)' => Covered(k)'
    BY <1>6, <2>1 DEF LegInv, Covered, CoveredIn, Live, OnPath
  <2> QED BY <1>3, <1>5, <2>1, <2>5, <2>6 DEF LegInv
<1> QED BY <1>9, <1>10, <1>11, <1>12 DEF OnCallAdded

\* Events of a path: the call is kept on its path, or torn down.
LEMMA CallEventLeg ==
    ASSUME TypeOK, LegInv, NEW l \in Legs,
           OnCallDeleted(l) \/ \E s \in LegStates : on_mm_call_state(l, s)
    PROVE  LegInv'
<1> DEFINE t == Tail(modemQ)
<1>1. modemQ # << >> /\ Head(modemQ).ev \in {"CallDeleted", "CallState"}
  BY EventFacts DEF OnCallDeleted, on_mm_call_state, NextModem
<1>2. LegInvIn(t) /\ t \in Seq(ModemEvents)
  BY <1>1, PopHarmless
<1> HIDE DEF t
<1>3. CASE Busy /\ teardown_call(t) /\ modem' = modem
  BY <1>2, <1>3, DropCall DEF teardown_call, finish_call
<1>4. ASSUME modemQ' = t, UNCHANGED <<leg, present, session, announced, modem>>,
             call' = call \/ (Busy /\ call' \in ActiveCall /\ call'.leg = call.leg)
      PROVE  LegInv'
  <2>1. Carries(t, modemQ')
    BY <1>4 DEF Carries
  <2>2. \A k \in Legs : (OnPath(k) => OnPath(k)') /\ (Live(k)' => Live(k))
    BY <1>4, NoCallAssumption DEF OnPath, Busy, Live
  <2>3. Busy' => Busy
    BY <1>4 DEF Busy
  <2> QED BY <1>2, <1>4, <2>1, <2>2, <2>3, KeepCall
<1>5. CASE ForeignEvent(l)
  BY <1>4, <1>5 DEF ForeignEvent, Pop, gwVars, t
<1>6. ASSUME OnPath(l)
      PROVE  Busy /\ call \in ActiveCall
  BY <1>6, BusyType DEF OnPath
<1>7. CASE OnPath(l) /\ Alerting(l)
  <2>1. call' = call \/ (call' \in ActiveCall /\ call'.leg = call.leg)
    BY <1>6, <1>7 DEF Alerting, ActiveCall
  <2> QED BY <1>4, <1>6, <1>7, <2>1 DEF Alerting, Pop, t
<1>8. CASE OnPath(l) /\ ModemAnswered(l)
  <2>1. call' \in ActiveCall /\ call'.leg = call.leg
    BY <1>6, <1>8 DEF ModemAnswered, ActiveCall
  <2> QED BY <1>4, <1>6, <1>8, <2>1 DEF ModemAnswered, Pop, t
<1>9. CASE OnPath(l) /\ ModemAnswerFails(l)
  BY <1>3, <1>6, <1>9 DEF ModemAnswerFails, t
<1>10. CASE OnPath(l) /\ ModemAnsweredAlready(l)
  BY <1>4, <1>10 DEF ModemAnsweredAlready, Pop, gwVars, t
<1>11. CASE OnPath(l) /\ teardown_call(t) /\ modem' = modem
  BY <1>3, <1>6, <1>11
<1> QED BY <1>5, <1>7, <1>8, <1>9, <1>10, <1>11 DEF OnCallDeleted, on_mm_call_state, t

\* A dialled leg is announced to the watcher that is supervising.
LEMMA DialLeg ==
    ASSUME TypeOK, LegInv, NEW l \in Legs, NEW d \in Dialogs, ~Busy, modem, modem' = modem,
           DialOk(l), call' = NewCall("FromSip", l, d)
    PROVE  LegInv'
<1>1. /\ leg' = [leg EXCEPT ![l] = "dialing"]
      /\ session = "supervising" => announced' = announced \cup {l}
      /\ session # "supervising" => announced \subseteq announced'
      /\ UNCHANGED <<present, session, modemQ>>
  BY DEF DialOk, Announce, Supervised
<1>2. ASSUME NEW k \in Legs, Live(k)'
      PROVE  Covered(k)'
  <2>1. CASE k = l
    BY <1>1, <2>1 DEF Covered
  <2>2. CASE k # l
    <3>1. Live(k)
      BY <1>1, <1>2, <2>2 DEF Live, TypeOK, LinkTypeOK
    <3> QED BY <1>1, <3>1 DEF LegInv, Covered, OnPath
  <2> QED BY <2>1, <2>2
<1> QED BY <1>1, <1>2 DEF LegInv

\* A dial that fails may leave the signals of an object that has gone.
LEMMA DialErrCarries ==
    ASSUME TypeOK, LegInv, NEW l \in Legs, DialErr(l)
    PROVE  /\ HandleForCalls(modemQ', modem)
           /\ session # "waiting" => HandleForSession(modemQ', modem)
           /\ NoDown(modemQ) => NoDown(modemQ')
           /\ \A k \in Legs : ToldAfterDown(k, modemQ) => ToldAfterDown(k, modemQ')
<1> DEFINE r == Append(modemQ, CallAdded(l))
<1>1. modemQ \in Seq(ModemEvents) /\ modem \in BOOLEAN
  BY DEF TypeOK, LinkTypeOK
<1>2. /\ CallAdded(l) \in ModemEvents /\ CallAdded(l) # Down /\ CallAdded(l).ev = "CallAdded"
      /\ CallDeleted(l) \in ModemEvents /\ CallDeleted(l) # Down
      /\ CallDeleted(l).ev # "CallAdded"
  BY EventTypes, EventFacts
<1>3. CASE modemQ' = modemQ
  BY <1>3 DEF LegInv
<1>4. CASE Supervised /\ modemQ' = Append(r, CallDeleted(l))
  <2>1. session # "waiting"
    BY <1>4 DEF Supervised
  <2>2. HandleForCalls(r, modem) /\ HandleForSession(r, modem)
    BY <1>1, <1>2, <2>1, AppendHandle, AppendSession DEF LegInv
  <2>3. /\ NoDown(modemQ) => NoDown(r)
        /\ \A k \in Legs : ToldAfterDown(k, modemQ) => ToldAfterDown(k, r)
    BY <1>1, <1>2, AppendTold
  <2>4. r \in Seq(ModemEvents)
    BY <1>1, <1>2, AppendType
  <2> HIDE DEF r
  <2>5. Carries(r, modemQ')
    BY <1>2, <1>4, <2>4, AppendCarries
  <2> QED BY <1>1, <2>2, <2>3, <2>5 DEF Carries
<1> QED BY <1>3, <1>4 DEF DialErr

\* The handlers of SIP requests preserve LegInv.
LEMMA SipRequestLeg ==
    ASSUME TypeOK, LegInv, SipRequest
    PROVE  LegInv'
<1>1. modemQ \in Seq(ModemEvents) /\ LegInvIn(modemQ)
  BY LegInvHere DEF TypeOK, LinkTypeOK
<1>2. ASSUME UNCHANGED <<linkVars, modem>>,
             call' = call \/ (Busy /\ call' \in ActiveCall /\ call'.leg = call.leg)
      PROVE  LegInv'
  <2>1. Carries(modemQ, modemQ') /\ UNCHANGED <<present, session, announced>>
    BY <1>2 DEF Carries, linkVars
  <2>2. \A k \in Legs : (OnPath(k) => OnPath(k)') /\ (Live(k)' => Live(k))
    BY <1>2, NoCallAssumption DEF OnPath, Busy, Live, linkVars
  <2>3. Busy' => Busy
    BY <1>2 DEF Busy
  <2> QED BY <1>1, <1>2, <2>1, <2>2, <2>3, KeepCall
<1>3. ASSUME NEW d \in Dialogs, on_sip_invite(d)
      PROVE  LegInv'
  <2>1. CASE InviteAgain(d)
    <3>1. Busy /\ call \in ActiveCall
      BY <2>1, BusyType DEF InviteAgain, call_id_matches
    <3>2. call' \in ActiveCall /\ call'.leg = call.leg
      <4> DEFINE r == call.ringing_sent \/ ~call.early_media
      <4>1. r \in BOOLEAN
        OBVIOUS
      <4>2. call' = call \/ call' = [call EXCEPT !.ringing_sent = r]
        BY <2>1, <3>1 DEF InviteAgain, ActiveCall
      <4> HIDE DEF r
      <4> QED BY <3>1, <4>1, <4>2 DEF ActiveCall
    <3> QED BY <1>2, <2>1, <3>1, <3>2 DEF InviteAgain
  <2>2. CASE InviteRefused(d)
    BY <1>2, <2>2 DEF InviteRefused
  <2>3. CASE InviteDials(d)
    BY <2>3, DialLeg DEF InviteDials
  <2>4. CASE InviteDialFails(d)
    <3>1. PICK l \in Legs : DialErr(l)
      BY <2>4 DEF InviteDialFails
    <3>2. UNCHANGED <<leg, present, session, announced, modem, call>>
      BY <2>4, <3>1 DEF InviteDialFails, DialErr
    <3>3. \A k \in Legs : Live(k)' => Covered(k)'
      BY <3>1, <3>2, DialErrCarries DEF LegInv, Covered, Live, OnPath, Busy
    <3> QED BY <3>1, <3>2, <3>3, DialErrCarries DEF LegInv, Busy
  <2> QED BY <1>3, <2>1, <2>2, <2>3, <2>4 DEF on_sip_invite
<1>4. ASSUME NEW d \in Dialogs, on_sip_bye(d) \/ on_sip_cancel(d)
      PROVE  LegInv'
  <2>1. \/ Busy /\ HangupLeg(call.leg, modemQ) /\ finish_call
        \/ UNCHANGED <<linkVars, call>>
    BY <1>4 DEF on_sip_bye, on_sip_cancel, CancelMatches, call_id_matches
  <2>2. modem' = modem
    BY <1>4 DEF on_sip_bye, on_sip_cancel
  <2> QED BY <1>1, <1>2, <2>1, <2>2, DropCall DEF finish_call
<1> QED BY <1>3, <1>4 DEF SipRequest

\* Internal events, the timers and the peers: the call is kept or dropped.
LEMMA InternalLeg ==
    ASSUME TypeOK, LegInv, InternalEvent
    PROVE  LegInv'
<1>1. modemQ \in Seq(ModemEvents) /\ LegInvIn(modemQ)
  BY LegInvHere DEF TypeOK, LinkTypeOK
<1>2. ASSUME Carries(modemQ, modemQ'), UNCHANGED <<present, session, announced, modem>>,
             \A k \in Legs : Live(k)' => Live(k),
             call' = call \/ (Busy /\ call' \in ActiveCall /\ call'.leg = call.leg)
      PROVE  LegInv'
  <2>1. \A k \in Legs : OnPath(k) => OnPath(k)'
    BY <1>2, NoCallAssumption DEF OnPath, Busy
  <2>2. Busy' => Busy
    BY <1>2 DEF Busy
  <2> QED BY <1>1, <1>2, <2>1, <2>2, KeepCall
<1>3. ASSUME UNCHANGED <<linkVars, modem>>,
             call' = call \/ (Busy /\ call' \in ActiveCall /\ call'.leg = call.leg)
      PROVE  LegInv'
  <2>1. Carries(modemQ, modemQ') /\ UNCHANGED <<present, session, announced>>
    BY <1>3 DEF Carries, linkVars
  <2>2. \A k \in Legs : Live(k)' => Live(k)
    BY <1>3 DEF Live, linkVars
  <2> QED BY <1>2, <1>3, <2>1, <2>2
<1>4. ASSUME Busy, HangupLeg(call.leg, modemQ), finish_call, modem' = modem
      PROVE  LegInv'
  BY <1>1, <1>4, DropCall DEF finish_call
<1>5. ASSUME NEW d \in Dialogs, StaleInternal(d)
      PROVE  LegInv'
  BY <1>3, <1>5 DEF StaleInternal
<1>6. ASSUME NEW d \in Dialogs, call_id_matches(d)
      PROVE  Busy /\ call \in ActiveCall /\ call.leg \in Legs
  BY <1>6, BusyType DEF call_id_matches
<1>7. ASSUME NEW d \in Dialogs, OnSipAnswered(d)
      PROVE  LegInv'
  <2>1. CASE call_id_matches(d) /\ SipAnswerConnects(d)
    <3>1. Busy /\ call \in ActiveCall /\ call.leg \in Legs
      BY <1>6, <2>1
    <3>2. /\ leg[call.leg] = "ringing_in"
          /\ leg' = [leg EXCEPT ![call.leg] = "active"]
          /\ modemQ' = StateSignal(call.leg, "active", modemQ)
          /\ UNCHANGED <<present, session, announced, modem>>
      BY <2>1 DEF SipAnswerConnects, AcceptOk
    <3>3. Carries(modemQ, modemQ')
      BY <1>1, <3>1, <3>2, SignalsCarry DEF LegStates, LiveStates
    <3>4. \A k \in Legs : Live(k)' => Live(k)
      BY <3>1, <3>2 DEF Live, LiveStates, TypeOK, LinkTypeOK
    <3>5. call' \in ActiveCall /\ call'.leg = call.leg
      BY <2>1, <3>1 DEF SipAnswerConnects, ActiveCall
    <3> QED BY <1>2, <3>1, <3>2, <3>3, <3>4, <3>5
  <2>2. CASE call_id_matches(d) /\ SipAnswerFails(d)
    BY <1>4, <1>6, <2>2 DEF SipAnswerFails
  <2> QED BY <1>5, <1>7, <2>1, <2>2 DEF OnSipAnswered
<1>8. ASSUME NEW d \in Dialogs, OnSipFailed(d)
      PROVE  LegInv'
  <2>1. CASE call_id_matches(d) /\ SipRejected(d)
    BY <1>4, <1>6, <2>1 DEF SipRejected
  <2>2. CASE call_id_matches(d) /\ RetryWithAuth(d)
    <3>1. Busy /\ call \in ActiveCall
      BY <1>6, <2>2
    <3>2. call' \in ActiveCall /\ call'.leg = call.leg
      BY <2>2, <3>1 DEF RetryWithAuth, ActiveCall
    <3> QED BY <1>3, <2>2, <3>1, <3>2 DEF RetryWithAuth
  <2> QED BY <1>5, <1>8, <2>1, <2>2 DEF OnSipFailed
<1>9. ASSUME NEW d \in Dialogs, OnRingTimeout(d)
      PROVE  LegInv'
  BY <1>4, <1>5, <1>6, <1>9 DEF OnRingTimeout
<1>10. ASSUME NEW d \in Dialogs, OnEarlyMediaAudio(d)
       PROVE  LegInv'
  <2>1. CASE call' = call
    BY <1>3, <1>10, <2>1 DEF OnEarlyMediaAudio
  <2>2. CASE call_id_matches(d) /\ call' = [call EXCEPT !.early_media = TRUE]
    <3>1. Busy /\ call \in ActiveCall
      BY <1>6, <2>2
    <3>2. call' \in ActiveCall /\ call'.leg = call.leg
      BY <2>2, <3>1 DEF ActiveCall
    <3> QED BY <1>3, <1>10, <3>1, <3>2 DEF OnEarlyMediaAudio
  <2> QED BY <1>10, <2>1, <2>2 DEF OnEarlyMediaAudio
<1> QED BY <1>7, <1>8, <1>9, <1>10 DEF InternalEvent

\* The network: a call that appears is announced to a supervising watcher,
\* and an announced one reaches the queue.
LEMMA NetworkLeg ==
    ASSUME TypeOK, LegInv, NEW l \in Legs, Network(l)
    PROVE  LegInv'
<1>1. /\ modemQ \in Seq(ModemEvents) /\ modem \in BOOLEAN /\ LegInvIn(modemQ)
      /\ UNCHANGED <<modem, call>>
  BY LegInvHere DEF TypeOK, LinkTypeOK, Network, gwVars
<1>2. ASSUME NEW s \in LegStates, modemQ' = modemQ \/ modemQ' = StateSignal(l, s, modemQ),
             leg' = leg \/ (leg' = [leg EXCEPT ![l] = s] /\ (Live(l) \/ s \notin LiveStates)),
             UNCHANGED <<present, session, announced>>
      PROVE  LegInv'
  <2>1. Carries(modemQ, modemQ')
    BY <1>1, <1>2, SignalsCarry DEF Carries
  <2>2. \A k \in Legs : (Live(k)' => Live(k)) /\ (OnPath(k) => OnPath(k)')
    BY <1>1, <1>2 DEF Live, OnPath, Busy, TypeOK, LinkTypeOK
  <2>3. Busy' => Busy
    BY <1>1 DEF Busy
  <2> QED BY <1>1, <1>2, <2>1, <2>2, <2>3, KeepCall
<1>3. CASE NetIncoming(l)
  <2>1. /\ leg' = [leg EXCEPT ![l] = "ringing_in"]
        /\ session = "supervising" => announced' = announced \cup {l}
        /\ session # "supervising" => announced \subseteq announced'
        /\ UNCHANGED <<present, session, modemQ>>
    BY <1>3 DEF NetIncoming, Announce, Supervised
  <2>2. ASSUME NEW k \in Legs, Live(k)'
        PROVE  Covered(k)'
    <3>1. CASE k = l
      BY <2>1, <3>1 DEF Covered
    <3>2. CASE k # l
      <4>1. Live(k)
        BY <2>1, <2>2, <3>2 DEF Live, TypeOK, LinkTypeOK
      <4> QED BY <1>1, <2>1, <4>1 DEF LegInv, Covered, OnPath, Busy
    <3> QED BY <3>1, <3>2
  <2> QED BY <1>1, <2>1, <2>2 DEF LegInv, Busy
<1>4. CASE NetProgress(l)
  <2>1. PICK s \in {"ringing_out", "active"} :
          /\ leg[l] \in {"dialing", "ringing_out"}
          /\ leg' = [leg EXCEPT ![l] = s]
          /\ modemQ' = StateSignal(l, s, modemQ)
    BY <1>4 DEF NetProgress
  <2>2. s \in LegStates /\ Live(l)
    BY <2>1 DEF LegStates, LiveStates, Live
  <2> QED BY <1>2, <1>4, <2>1, <2>2 DEF NetProgress
<1>5. CASE NetHangup(l) \/ NetEnded(l)
  <2>1. /\ leg' = [leg EXCEPT ![l] = "terminated"]
        /\ modemQ' = StateSignal(l, "terminated", modemQ)
        /\ UNCHANGED <<present, session, announced>>
    BY <1>5 DEF NetHangup, NetEnded
  <2> QED BY <1>2, <2>1 DEF LegStates, LiveStates
<1>6. CASE HandleCallAdded(l)
  <2>1. /\ session # "waiting"
        /\ announced' = announced \ {l}
        /\ modemQ' = Append(modemQ, CallAdded(l))
        /\ UNCHANGED <<leg, present, session>>
    BY <1>6 DEF HandleCallAdded, Supervised
  <2>2. /\ CallAdded(l) \in ModemEvents /\ CallAdded(l) # Down /\ CallAdded(l).ev = "CallAdded"
    BY EventTypes, EventFacts
  <2>3. HandleForCalls(modemQ', modem) /\ HandleForSession(modemQ', modem)
    BY <1>1, <2>1, <2>2, AppendHandle, AppendSession DEF LegInv
  <2>4. /\ NoDown(modemQ) => NoDown(modemQ')
        /\ \A k \in Legs : ToldAfterDown(k, modemQ) \/ k = l => ToldAfterDown(k, modemQ')
    BY <1>1, <2>1, <2>2, AppendTold
  <2>5. \A k \in Legs : Live(k)' => Covered(k)'
    BY <1>1, <2>1, <2>4 DEF LegInv, Covered, Live, OnPath, Busy
  <2> QED BY <1>1, <2>1, <2>3, <2>5 DEF LegInv, Busy
<1>7. CASE Subscribed(l)
  BY <1>2, <1>7 DEF Subscribed, LegStates
<1> QED BY <1>3, <1>4, <1>5, <1>6, <1>7 DEF Network, LinkStep

\* The sessions of the watcher: a session that ends leaves its calls to the
\* next one, which lists them.
LEMMA WatcherLeg ==
    ASSUME TypeOK, LegInv, Watcher
    PROVE  LegInv'
<1>1. /\ modemQ \in Seq(ModemEvents) /\ modem \in BOOLEAN
      /\ UNCHANGED <<modem, call>>
  BY DEF TypeOK, LinkTypeOK, Watcher, gwVars
<1>2. Up \in ModemEvents /\ Down \in ModemEvents /\ Up.ev = "Up" /\ Down.ev = "Down"
  BY EventTypes, EventFacts
<1>3. CASE ModemVanishes
  BY <1>1, <1>3 DEF ModemVanishes, LegInv, Covered, Busy
<1>4. CASE ModemReturns
  BY <1>1, <1>4 DEF ModemReturns, LegInv, Covered, Live, OnPath, Busy
<1>5. CASE SessionUp
  <2>1. HandleForCalls(modemQ', modem) /\ HandleForSession(modemQ', modem)
    BY <1>1, <1>2, <1>5, AppendHandle, AppendSession DEF SessionUp, LegInv
  <2> QED BY <1>1, <1>5, <2>1 DEF SessionUp, LegInv, Covered, Busy
<1>6. CASE Adopt
  BY <1>1, <1>6 DEF Adopt, LegInv, Covered, Live, LiveStates, Busy
<1>7. CASE SessionDown
  <2>1. HandleForCalls(modemQ', modem)
    BY <1>1, <1>2, <1>7, AppendHandle DEF SessionDown, LegInv
  <2> QED BY <1>1, <1>7, <2>1 DEF SessionDown, LegInv, Covered, Busy
<1> QED BY <1>3, <1>4, <1>5, <1>6, <1>7 DEF Watcher, LinkSession

\* Every step preserves LegInv.
LEMMA NextLeg ==
    ASSUME TypeOK, LegInv, [Next]_vars
    PROVE  LegInv'
<1>1. modemQ \in Seq(ModemEvents) /\ LegInvIn(modemQ)
  BY LegInvHere DEF TypeOK, LinkTypeOK
<1>2. ASSUME UNCHANGED <<linkVars, modem, call>>
      PROVE  LegInv'
  BY <1>2 DEF linkVars, LegInv, Covered, Live, OnPath, Busy
<1>3. ASSUME Busy, teardown_call(modemQ), modem' = modem
      PROVE  LegInv'
  BY <1>1, <1>3, DropCall DEF teardown_call, finish_call
<1>4. CASE ModemEvent
  BY <1>4, UpDownLeg, CallAddedLeg, CallEventLeg DEF ModemEvent
<1>5. CASE check_media
  BY <1>3, <1>5 DEF check_media
<1>6. CASE HearAudio
  <2>1. Busy /\ call \in ActiveCall
    BY <1>6, BusyType DEF HearAudio
  <2>2. Busy' /\ call'.leg = call.leg
    <3>1. call' \in ActiveCall /\ call'.leg = call.leg
      BY <1>6, <2>1 DEF HearAudio, ActiveCall
    <3> QED BY <3>1, NoCallAssumption DEF Busy
  <2> QED BY <1>6, <2>1, <2>2 DEF HearAudio, linkVars, LegInv, Covered, Live, OnPath
<1>7. CASE Shutdown
  BY <1>2, <1>3, <1>7 DEF Shutdown
<1>8. CASE Restart
  BY <1>8 DEF Restart, LinkRestart, LegInv, Covered, Busy, HandleForCalls
<1>9. CASE \E d \in Dialogs : Peer(d)
  BY <1>2, <1>9 DEF Peer, CallerInvites, CallerCopy, CallerCancels, CallerLeaves, PeerHangsUp,
     CalleeAnswers, CalleeRefuses, CalleeChallenges, CalleeResponds, RingTimeout, Quiet
<1>10. CASE UNCHANGED vars
  BY <1>2, <1>10 DEF vars, gwVars
<1> QED BY <1>4, <1>5, <1>6, <1>7, <1>8, <1>9, <1>10, SipRequestLeg, InternalLeg,
           NetworkLeg, WatcherLeg DEF Next

(***************************************************************************)
(* LegInv holds in every reachable state: whenever a CallAdded is handled  *)
(* the gateway has its handle, and every live leg is covered, whatever the *)
(* modem, the network, the SIP peers, shutdowns and crashes do.            *)
(***************************************************************************)
THEOREM LegInvHolds == Spec => []LegInv
<1>1. Init => LegInv
  BY DEF Init, LinkInit, LegInv, Covered, Busy, HandleForCalls
<1>2. TypeOK /\ LegInv /\ [Next]_vars => LegInv'
  BY NextLeg
<1> QED BY <1>1, <1>2, TypeCorrect, PTL DEF Spec

(***************************************************************************)
(* No mobile leg is stranded: a call that is alive on the mobile network   *)
(* is the one the gateway bridges or one it is still going to be told of.  *)
(***************************************************************************)
THEOREM NoLegIsStranded == Spec => []NoStrandedLeg
<1>1. LegInv => NoStrandedLeg
  BY DEF LegInv, Covered, NoStrandedLeg, WillBeTold, ToldAfterDown, In
<1> QED BY <1>1, LegInvHolds, PTL

----------------------------------------------------------------------------
(* DialogInv: legs and their events.                                       *)

\* SetupInv for a queue that is being worked on.
SetupIn(q) ==
    /\ \A l \in Legs : \A i \in 1..Len(q) : q[i] = CallState(l, "active") =>
         /\ leg[l] \notin Setup
         /\ \A j \in 1..Len(q) : j > i => q[j] \notin Alerts(l)
    /\ \A l \in Legs : leg[l] = "ringing_in" => \A i \in 1..Len(q) : q[i] \notin Alerts(l)
    /\ Busy /\ call.answered =>
         /\ leg[call.leg] \notin Setup
         /\ \A i \in 1..Len(q) : q[i] \notin Alerts(call.leg)

\* An event that does not report the progress of a call.
NoProgress(e) == e.ev = "CallState" => e.st = "terminated"

\* r is q and events that report no progress.
Grows(q, r) ==
    /\ Len(r) >= Len(q)
    /\ \A i \in 1..Len(q) : r[i] = q[i]
    /\ \A i \in 1..Len(r) : i > Len(q) => NoProgress(r[i])

\* Such events are told apart from those that do report progress.
LEMMA ProgressFacts ==
    ASSUME NEW e, NoProgress(e)
    PROVE  \A l \in Legs : e # CallState(l, "active") /\ e \notin Alerts(l)
BY DEF NoProgress, CallState, Alerts

\* Nothing that is signalled at a hangup, or by the session, is progress.
LEMMA QuietEvents ==
    /\ NoProgress(Up) /\ NoProgress(Down)
    /\ \A l \in Legs : /\ NoProgress(CallAdded(l)) /\ NoProgress(CallDeleted(l))
                       /\ NoProgress(CallState(l, "terminated"))
BY DEF NoProgress, Up, Down, CallAdded, CallDeleted, CallState

\* A queue grows by such an event.
LEMMA GrowsByAppend ==
    ASSUME NEW q \in Seq(ModemEvents), NEW r \in Seq(ModemEvents), Grows(q, r),
           NEW e \in ModemEvents, NoProgress(e)
    PROVE  Grows(q, Append(r, e))
<1>1. /\ Len(Append(r, e)) = Len(r) + 1
      /\ \A i \in 1..Len(r) : Append(r, e)[i] = r[i]
      /\ Append(r, e)[Len(r) + 1] = e
      /\ Len(r) \in Nat /\ Len(q) \in Nat
  OBVIOUS
<1>2. ASSUME NEW i \in 1..Len(Append(r, e)), i > Len(q)
      PROVE  NoProgress(Append(r, e)[i])
  <2>1. CASE i \in 1..Len(r)
    BY <1>1, <1>2, <2>1 DEF Grows
  <2>2. CASE i = Len(r) + 1
    BY <1>1, <2>2
  <2> QED BY <1>1, <2>1, <2>2
<1>3. \A i \in 1..Len(q) : Append(r, e)[i] = q[i]
  BY <1>1 DEF Grows
<1> QED BY <1>1, <1>2, <1>3 DEF Grows

\* A queue is one that has grown by nothing.
LEMMA GrowsByNothing == ASSUME NEW q \in Seq(ModemEvents) PROVE Grows(q, q)
BY DEF Grows

\* Popping an event keeps SetupIn.
LEMMA SetupPopped ==
    ASSUME TypeOK, SetupInv, modemQ # << >>
    PROVE  SetupIn(Tail(modemQ)) /\ Tail(modemQ) \in Seq(ModemEvents)
<1> DEFINE t == Tail(modemQ)
<1>1. /\ modemQ \in Seq(ModemEvents) /\ t \in Seq(ModemEvents)
      /\ Len(modemQ) \in Nat /\ Len(t) = Len(modemQ) - 1
      /\ \A i \in 1..Len(t) : t[i] = modemQ[i + 1] /\ i + 1 \in 1..Len(modemQ)
  BY DEF TypeOK, LinkTypeOK
<1> HIDE DEF t
<1>2. ASSUME NEW l \in Legs, NEW i \in 1..Len(t), t[i] = CallState(l, "active")
      PROVE  leg[l] \notin Setup /\ \A j \in 1..Len(t) : j > i => t[j] \notin Alerts(l)
  <2>1. i + 1 \in 1..Len(modemQ) /\ modemQ[i + 1] = CallState(l, "active")
    BY <1>1, <1>2
  <2>2. /\ leg[l] \notin Setup
        /\ \A j \in 1..Len(modemQ) : j > i + 1 => modemQ[j] \notin Alerts(l)
    BY <2>1 DEF SetupInv
  <2>3. \A j \in 1..Len(t) : j > i => j + 1 > i + 1
    BY <1>1
  <2> QED BY <1>1, <2>2, <2>3
<1>3. Busy /\ call.answered =>
         /\ leg[call.leg] \notin Setup
         /\ \A i \in 1..Len(t) : t[i] \notin Alerts(call.leg)
  BY <1>1 DEF SetupInv
<1>4. \A l \in Legs : leg[l] = "ringing_in" => \A i \in 1..Len(t) : t[i] \notin Alerts(l)
  BY <1>1 DEF SetupInv
<1> QED BY <1>1, <1>2, <1>3, <1>4 DEF SetupIn, t

\* SetupInv is kept when no leg enters its setup, no progress is reported and
\* no call gets answered.
LEMMA SetupKept ==
    ASSUME TypeOK, NEW q \in Seq(ModemEvents), SetupIn(q), modemQ' \in Seq(ModemEvents),
           Grows(q, modemQ'),
           \A l \in Legs : leg'[l] \in Setup => leg'[l] = leg[l],
           (Busy /\ call.answered)' => Busy /\ call.answered /\ call'.leg = call.leg
    PROVE  SetupInv'
<1>1. Len(q) \in Nat /\ Len(modemQ') \in Nat /\ Len(modemQ') >= Len(q)
  BY DEF Grows
<1>2. ASSUME NEW l \in Legs, NEW i \in 1..Len(modemQ'),
             modemQ'[i] = CallState(l, "active") \/ modemQ'[i] \in Alerts(l)
      PROVE  i \in 1..Len(q) /\ q[i] = modemQ'[i]
  <2>1. ~NoProgress(modemQ'[i])
    BY <1>2, ProgressFacts
  <2> QED BY <1>1, <2>1 DEF Grows
<1>3. ASSUME NEW l \in Legs, NEW i \in 1..Len(modemQ'), modemQ'[i] = CallState(l, "active")
      PROVE  leg'[l] \notin Setup /\ \A j \in 1..Len(modemQ') : j > i => modemQ'[j] \notin Alerts(l)
  BY <1>2, <1>3 DEF SetupIn
<1>4. ASSUME (Busy /\ call.answered)'
      PROVE  /\ leg'[call'.leg] \notin Setup
             /\ \A i \in 1..Len(modemQ') : modemQ'[i] \notin Alerts(call'.leg)
  <2>1. call.leg \in Legs /\ Busy /\ call.answered /\ call'.leg = call.leg
    BY <1>4, BusyType
  <2> QED BY <1>2, <2>1 DEF SetupIn
<1>5. \A l \in Legs : leg'[l] = "ringing_in" =>
        \A i \in 1..Len(modemQ') : modemQ'[i] \notin Alerts(l)
  BY <1>2 DEF SetupIn, Setup
<1> QED BY <1>3, <1>4, <1>5 DEF SetupInv

\* Hanging up brings no leg back into its setup, and reports no progress.
LEMMA HangupSetup ==
    ASSUME TypeOK, NEW l \in Legs, NEW q \in Seq(ModemEvents), HangupLeg(l, q)
    PROVE  /\ Grows(q, modemQ') /\ modemQ' \in Seq(ModemEvents)
           /\ \A k \in Legs : leg'[k] \in Setup => leg'[k] = leg[k]
<1> DEFINE t == StateSignal(l, "terminated", q)
<1>1. LinkTypeOK /\ LinkTypeOK'
  BY HangupLegType DEF TypeOK
<1>2. t \in Seq(ModemEvents) /\ Grows(q, t)
  <2>1. CallState(l, "terminated") \in ModemEvents
    BY EventTypes DEF LegStates
  <2> QED BY <2>1, GrowsByNothing, GrowsByAppend, QuietEvents DEF StateSignal
<1> HIDE DEF t
<1>3. /\ Grows(q, q) /\ Grows(q, DeletedSignal(l, q)) /\ Grows(q, DeletedSignal(l, t))
  <2>1. CallDeleted(l) \in ModemEvents
    BY EventTypes
  <2> QED BY <1>2, <2>1, GrowsByNothing, GrowsByAppend, QuietEvents DEF DeletedSignal
<1>4. CASE ~modem \/ HangupNothing(l, q)
  BY <1>1, <1>3, <1>4 DEF HangupLeg, HangupNothing, LinkTypeOK
<1>5. CASE HangupOne(l, q)
  BY <1>1, <1>3, <1>5 DEF HangupOne, Delete, LinkTypeOK, Setup, t
<1>6. CASE HangupAll(l, q)
  BY <1>1, <1>3, <1>6 DEF HangupAll, LinkTypeOK, Setup
<1> QED BY <1>4, <1>5, <1>6 DEF HangupLeg, Hangup

\* A call that is given up.
LEMMA DropSetup ==
    ASSUME TypeOK, NEW q \in Seq(ModemEvents), SetupIn(q), Busy, HangupLeg(call.leg, q), finish_call
    PROVE  SetupInv'
<1>1. call.leg \in Legs
  BY BusyType
<1>2. ~Busy'
  BY DEF finish_call, Busy
<1> QED BY <1>1, <1>2, HangupSetup, SetupKept

\* A step that changes neither the legs nor the queue.
LEMMA LinkSetup ==
    ASSUME TypeOK, SetupInv, leg' = leg, modemQ' = modemQ,
           (Busy /\ call.answered)' => Busy /\ call.answered /\ call'.leg = call.leg
    PROVE  SetupInv'
<1>1. modemQ \in Seq(ModemEvents) /\ SetupIn(modemQ) /\ Grows(modemQ, modemQ)
  BY GrowsByNothing DEF TypeOK, LinkTypeOK, SetupInv, SetupIn
<1> QED BY <1>1, SetupKept

\* A step of the network or the watcher that reports no progress.
LEMMA QuietSetup ==
    ASSUME TypeOK, SetupInv, NEW e \in ModemEvents, NoProgress(e),
           modemQ' = modemQ \/ modemQ' = Append(modemQ, e),
           \A l \in Legs : leg'[l] \in Setup => leg'[l] = leg[l],
           UNCHANGED call
    PROVE  SetupInv'
<1>1. modemQ \in Seq(ModemEvents) /\ SetupIn(modemQ) /\ Grows(modemQ, modemQ)
  BY GrowsByNothing DEF TypeOK, LinkTypeOK, SetupInv, SetupIn
<1>2. modemQ' \in Seq(ModemEvents) /\ Grows(modemQ, modemQ')
  BY <1>1, GrowsByAppend, AppendType
<1> QED BY <1>1, <1>2, SetupKept DEF Busy

\* A leg in its setup moves on, and the watcher may report it.
LEMMA ProgressSetup ==
    ASSUME TypeOK, SetupInv, NEW l \in Legs, leg[l] \in Setup,
           NEW s \in {"ringing_out", "active"}, s = "ringing_out" => leg[l] = "dialing",
           leg' = [leg EXCEPT ![l] = s], modemQ' = StateSignal(l, s, modemQ),
           (Busy /\ call.answered)' =>
               \/ Busy /\ call.answered /\ call'.leg = call.leg
               \/ call'.leg = l /\ leg[l] = "ringing_in" /\ s = "active"
    PROVE  SetupInv'
<1>1. modemQ \in Seq(ModemEvents) /\ Len(modemQ) \in Nat /\ leg \in [Legs -> LegStates]
  BY DEF TypeOK, LinkTypeOK
<1>2. /\ Len(modemQ') \in Nat
      /\ \A i \in 1..Len(modemQ') :
           \/ i \in 1..Len(modemQ) /\ modemQ'[i] = modemQ[i]
           \/ i = Len(modemQ') /\ modemQ'[i] = CallState(l, s)
  BY <1>1 DEF StateSignal
<1>3. \A k \in Legs : k # l => CallState(l, s) # CallState(k, "active") /\ CallState(l, s) \notin Alerts(k)
  BY DEF CallState, Alerts
<1>4. /\ CallState(l, s) = CallState(l, "active") => s = "active"
      /\ CallState(l, s) \in Alerts(l) => s = "ringing_out"
  BY DEF CallState, Alerts
<1>5. \A i \in 1..Len(modemQ) : modemQ[i] # CallState(l, "active")
  BY DEF SetupInv
<1>6. ASSUME NEW k \in Legs, NEW i \in 1..Len(modemQ'), modemQ'[i] = CallState(k, "active")
      PROVE  leg'[k] \notin Setup /\ \A j \in 1..Len(modemQ') : j > i => modemQ'[j] \notin Alerts(k)
  <2>1. CASE k = l
    <3>1. i = Len(modemQ') /\ s = "active"
      BY <1>2, <1>4, <1>5, <1>6, <2>1
    <3>2. leg'[k] = "active"
      BY <1>1, <2>1, <3>1
    <3> QED BY <1>2, <3>1, <3>2 DEF Setup
  <2>2. CASE k # l
    <3>1. i \in 1..Len(modemQ) /\ modemQ[i] = CallState(k, "active")
      BY <1>2, <1>3, <1>6, <2>2
    <3>2. leg[k] \notin Setup /\ \A j \in 1..Len(modemQ) : j > i => modemQ[j] \notin Alerts(k)
      BY <3>1 DEF SetupInv
    <3> QED BY <1>1, <1>2, <1>3, <2>2, <3>2
  <2> QED BY <2>1, <2>2
<1>7. ASSUME NEW k \in Legs, leg'[k] = "ringing_in"
      PROVE  \A i \in 1..Len(modemQ') : modemQ'[i] \notin Alerts(k)
  <2>1. k # l /\ leg[k] = "ringing_in"
    BY <1>1, <1>7
  <2> QED BY <1>2, <1>3, <2>1 DEF SetupInv
<1>8. ASSUME (Busy /\ call.answered)'
      PROVE  /\ leg'[call'.leg] \notin Setup
             /\ \A i \in 1..Len(modemQ') : modemQ'[i] \notin Alerts(call'.leg)
  <2>1. CASE Busy /\ call.answered /\ call'.leg = call.leg
    <3>1. call.leg \in Legs /\ call.leg # l
      BY <2>1, BusyType DEF SetupInv
    <3> QED BY <1>1, <1>2, <1>3, <2>1, <3>1 DEF SetupInv
  <2>2. CASE call'.leg = l /\ leg[l] = "ringing_in" /\ s = "active"
    <3>1. leg'[l] = "active"
      BY <1>1, <2>2
    <3> QED BY <1>2, <1>4, <2>2, <3>1 DEF SetupInv, Setup
  <2> QED BY <1>8, <2>1, <2>2
<1> QED BY <1>6, <1>7, <1>8 DEF SetupInv

\* A new leg at a path nothing is known of any more.
LEMMA NewLegSetup ==
    ASSUME TypeOK, SetupInv, NEW l \in Legs, Unused(l), "reuse" \notin Env,
           NEW s \in {"ringing_in", "dialing"},
           leg' = [leg EXCEPT ![l] = s], modemQ' = modemQ,
           (Busy /\ call.answered)' => Busy /\ call.answered /\ call'.leg = call.leg
    PROVE  SetupInv'
<1>1. /\ modemQ \in Seq(ModemEvents) /\ leg \in [Legs -> LegStates]
      /\ ~OnPath(l)
      /\ \A i \in 1..Len(modemQ) : modemQ[i].leg # l
  BY DEF TypeOK, LinkTypeOK, Unused
<1>2. \A i \in 1..Len(modemQ) : modemQ[i] # CallState(l, "active") /\ modemQ[i] \notin Alerts(l)
  BY <1>1 DEF CallState, Alerts
<1>3. \A k \in Legs : k # l => leg'[k] = leg[k]
  BY <1>1
<1>4. (Busy /\ call.answered)' => call.leg \in Legs /\ call.leg # l
  BY <1>1, BusyType DEF OnPath
<1> QED BY <1>1, <1>2, <1>3, <1>4 DEF SetupInv

\* The handlers of modem events keep SetupInv.
LEMMA ModemEventSetup ==
    ASSUME TypeOK, SetupInv, ModemEvent
    PROVE  SetupInv'
<1> DEFINE t == Tail(modemQ)
<1>0. modemQ # << >> => SetupIn(t) /\ t \in Seq(ModemEvents) /\ Grows(t, t)
  BY SetupPopped, GrowsByNothing
<1> HIDE DEF t
<1>1. ASSUME modemQ # << >>, modemQ' = t, leg' = leg,
             (Busy /\ call.answered)' => Busy /\ call.answered /\ call'.leg = call.leg
      PROVE  SetupInv'
  BY <1>0, <1>1, SetupKept
<1>2. ASSUME modemQ # << >>, Busy, teardown_call(t)
      PROVE  SetupInv'
  BY <1>0, <1>2, DropSetup DEF teardown_call
<1>3. CASE OnUp
  BY <1>1, <1>3 DEF OnUp, NextModem, Pop, Busy, t
<1>4. CASE OnDown
  BY <1>1, <1>4 DEF OnDown, NextModem, Pop, Busy, finish_call, t
<1>5. ASSUME NEW l \in Legs, OnCallAdded(l)
      PROVE  SetupInv'
  <2>0. modemQ # << >>
    BY <1>5 DEF OnCallAdded, NextModem
  <2>1. CASE CallAddedIgnored(l)
    BY <1>1, <2>0, <2>1 DEF CallAddedIgnored, Pop, Busy, t
  <2>2. CASE CallAddedEnded(l)
    <3>1. CallDeleted(l) \in ModemEvents /\ NoProgress(CallDeleted(l))
      BY EventTypes, QuietEvents
    <3>2. modemQ' \in Seq(ModemEvents) /\ Grows(t, modemQ')
      <4>1. modemQ' = t \/ modemQ' = Append(t, CallDeleted(l))
        BY <2>2 DEF CallAddedEnded, DeleteCall, DeletedSignal, t
      <4> QED BY <1>0, <2>0, <3>1, <4>1, GrowsByAppend, AppendType
    <3>3. \A k \in Legs : leg'[k] \in Setup => leg'[k] = leg[k]
      BY <2>2 DEF CallAddedEnded, DeleteCall, Delete, TypeOK, LinkTypeOK, Setup
    <3>4. call' = call
      BY <2>2 DEF CallAddedEnded, gwVars
    <3> QED BY <1>0, <2>0, <3>2, <3>3, <3>4, SetupKept DEF Busy
  <2>3. CASE CallAddedHungUp(l)
    <3>1. /\ Grows(t, modemQ') /\ modemQ' \in Seq(ModemEvents)
          /\ \A k \in Legs : leg'[k] \in Setup => leg'[k] = leg[k]
      BY <1>0, <2>0, <2>3, HangupSetup DEF CallAddedHungUp, CallAddedReadable, HangupLeg, t
    <3>2. call' = call
      BY <2>3 DEF CallAddedHungUp, gwVars
    <3> QED BY <1>0, <2>0, <3>1, <3>2, SetupKept DEF Busy
  <2>4. CASE CallAddedOffered(l)
    BY <1>1, <2>0, <2>4 DEF CallAddedOffered, Pop, NewCall, t
  <2> QED BY <1>5, <2>1, <2>2, <2>3, <2>4 DEF OnCallAdded
<1>6. ASSUME NEW l \in Legs, OnCallDeleted(l)
      PROVE  SetupInv'
  <2>0. modemQ # << >>
    BY <1>6 DEF OnCallDeleted, NextModem
  <2>1. CASE ForeignEvent(l)
    BY <1>1, <2>0, <2>1 DEF ForeignEvent, Pop, gwVars, Busy, t
  <2>2. CASE OnPath(l) /\ teardown_call(t)
    BY <1>2, <2>0, <2>2 DEF OnPath
  <2> QED BY <1>6, <2>1, <2>2 DEF OnCallDeleted, t
<1>7. ASSUME NEW l \in Legs, NEW st \in LegStates, on_mm_call_state(l, st)
      PROVE  SetupInv'
  <2>0. modemQ # << >> /\ Head(modemQ) = CallState(l, st)
    BY <1>7 DEF on_mm_call_state, NextModem
  <2>1. CASE ForeignEvent(l)
    BY <1>1, <2>0, <2>1 DEF ForeignEvent, Pop, gwVars, Busy, t
  <2>2. CASE OnPath(l) /\ Alerting(l)
    <3>1. call \in ActiveCall
      BY <2>2, BusyType DEF OnPath
    <3>2. Busy /\ call'.answered = call.answered /\ call'.leg = call.leg
      BY <2>2, <3>1 DEF Alerting, ActiveCall, OnPath
    <3> QED BY <1>1, <2>0, <2>2, <3>2 DEF Alerting, Pop, t
  <2>3. CASE OnPath(l) /\ st = "active" /\ ModemAnswered(l)
    <3>1. call \in ActiveCall /\ call.leg = l
      BY <2>3, BusyType DEF OnPath
    <3>2. call'.leg = l /\ leg' = leg /\ modemQ' = t
      BY <2>3, <3>1 DEF ModemAnswered, ActiveCall, Pop, t
    <3>3. /\ leg[l] \notin Setup
          /\ \A i \in 1..Len(t) : t[i] \notin Alerts(l)
      <4>1. /\ modemQ \in Seq(ModemEvents) /\ Len(modemQ) \in Nat
            /\ 1 \in 1..Len(modemQ) /\ modemQ[1] = CallState(l, "active")
            /\ Len(t) = Len(modemQ) - 1
            /\ \A i \in 1..Len(t) : i + 1 \in 1..Len(modemQ) /\ i + 1 > 1 /\ t[i] = modemQ[i + 1]
        BY <2>0, <2>3 DEF TypeOK, LinkTypeOK, t
      <4> QED BY <4>1 DEF SetupInv
    <3> QED BY <1>0, <2>0, <3>2, <3>3 DEF SetupIn, SetupInv
  <2>4. CASE OnPath(l) /\ ModemAnswerFails(l)
    BY <1>2, <2>0, <2>4 DEF ModemAnswerFails, OnPath, t
  <2>5. CASE OnPath(l) /\ ModemAnsweredAlready(l)
    BY <1>1, <2>0, <2>5 DEF ModemAnsweredAlready, Pop, gwVars, Busy, t
  <2>6. CASE OnPath(l) /\ teardown_call(t)
    BY <1>2, <2>0, <2>6 DEF OnPath
  <2> QED BY <1>7, <2>1, <2>2, <2>3, <2>4, <2>5, <2>6 DEF on_mm_call_state, t
<1> QED BY <1>3, <1>4, <1>5, <1>6, <1>7 DEF ModemEvent

\* So do those of SIP requests,
LEMMA SipRequestSetup ==
    ASSUME TypeOK, SetupInv, SipRequest, "reuse" \notin Env
    PROVE  SetupInv'
<1>0. modemQ \in Seq(ModemEvents) /\ SetupIn(modemQ) /\ Grows(modemQ, modemQ)
  BY GrowsByNothing DEF TypeOK, LinkTypeOK, SetupInv, SetupIn
<1>1. ASSUME Busy, HangupLeg(call.leg, modemQ), finish_call
      PROVE  SetupInv'
  BY <1>0, <1>1, DropSetup
<1>2. ASSUME NEW d \in Dialogs, on_sip_invite(d)
      PROVE  SetupInv'
  <2>1. CASE InviteAgain(d)
    <3>1. call \in ActiveCall /\ Busy
      BY <2>1, BusyType DEF InviteAgain, call_id_matches
    <3>2. call'.answered = call.answered /\ call'.leg = call.leg
      BY <2>1, <3>1 DEF InviteAgain, ActiveCall
    <3> QED BY <2>1, <3>1, <3>2, LinkSetup DEF InviteAgain, linkVars
  <2>2. CASE InviteRefused(d)
    BY <2>2, LinkSetup DEF InviteRefused, linkVars, Busy
  <2>3. CASE InviteDials(d)
    <3>1. PICK l \in Legs : Unused(l) /\ DialOk(l) /\ call' = NewCall("FromSip", l, d)
      BY <2>3 DEF InviteDials
    <3>2. ~call'.answered
      BY <3>1 DEF NewCall
    <3> QED BY <3>1, <3>2, NewLegSetup DEF DialOk
  <2>4. CASE InviteDialFails(d)
    <3>1. PICK l \in Legs : DialErr(l)
      BY <2>4 DEF InviteDialFails
    <3>2. /\ CallAdded(l) \in ModemEvents /\ NoProgress(CallAdded(l))
          /\ CallDeleted(l) \in ModemEvents /\ NoProgress(CallDeleted(l))
      BY EventTypes, QuietEvents
    <3>3. Grows(modemQ, Append(Append(modemQ, CallAdded(l)), CallDeleted(l)))
      <4>1. /\ Append(modemQ, CallAdded(l)) \in Seq(ModemEvents)
            /\ Grows(modemQ, Append(modemQ, CallAdded(l)))
        BY <1>0, <3>2, GrowsByAppend, AppendType
      <4> QED BY <1>0, <3>2, <4>1, GrowsByAppend
    <3>4. Append(Append(modemQ, CallAdded(l)), CallDeleted(l)) \in Seq(ModemEvents)
      BY <1>0, <3>2, AppendType
    <3>5. modemQ' \in Seq(ModemEvents) /\ Grows(modemQ, modemQ') /\ leg' = leg
      BY <1>0, <3>1, <3>3, <3>4 DEF DialErr
    <3>6. call' = call
      BY <2>4 DEF InviteDialFails
    <3> QED BY <1>0, <3>5, <3>6, SetupKept DEF Busy
  <2> QED BY <1>2, <2>1, <2>2, <2>3, <2>4 DEF on_sip_invite
<1>3. ASSUME NEW d \in Dialogs, on_sip_bye(d)
      PROVE  SetupInv'
  <2>1. CASE call_id_matches(d)
    BY <1>1, <1>3, <2>1 DEF on_sip_bye, call_id_matches
  <2>2. CASE ~call_id_matches(d)
    BY <1>3, <2>2, LinkSetup DEF on_sip_bye, linkVars, Busy
  <2> QED BY <2>1, <2>2
<1>4. ASSUME NEW d \in Dialogs, on_sip_cancel(d)
      PROVE  SetupInv'
  <2>1. CASE CancelMatches(d)
    BY <1>1, <1>4, <2>1 DEF on_sip_cancel, CancelMatches, call_id_matches
  <2>2. CASE ~CancelMatches(d)
    BY <1>4, <2>2, LinkSetup DEF on_sip_cancel, linkVars, Busy
  <2> QED BY <2>1, <2>2
<1> QED BY <1>2, <1>3, <1>4 DEF SipRequest

\* those of internal events,
LEMMA InternalSetup ==
    ASSUME TypeOK, SetupInv, InternalEvent
    PROVE  SetupInv'
<1>0. modemQ \in Seq(ModemEvents) /\ SetupIn(modemQ)
  BY DEF TypeOK, LinkTypeOK, SetupInv, SetupIn
<1>1. ASSUME NEW d \in Dialogs, call_id_matches(d), HangupLeg(call.leg, modemQ), finish_call
      PROVE  SetupInv'
  BY <1>0, <1>1, DropSetup DEF call_id_matches
<1>2. ASSUME NEW d \in Dialogs, StaleInternal(d)
      PROVE  SetupInv'
  BY <1>2, LinkSetup DEF StaleInternal, linkVars, Busy
<1>3. ASSUME NEW d \in Dialogs, OnSipAnswered(d)
      PROVE  SetupInv'
  <2>1. CASE call_id_matches(d) /\ SipAnswerConnects(d)
    <3>1. call \in ActiveCall /\ call.leg \in Legs
      BY <2>1, BusyType DEF call_id_matches
    <3>2. /\ leg[call.leg] = "ringing_in"
          /\ leg' = [leg EXCEPT ![call.leg] = "active"]
          /\ modemQ' = StateSignal(call.leg, "active", modemQ)
      BY <2>1 DEF SipAnswerConnects, AcceptOk
    <3>3. call'.leg = call.leg
      BY <2>1, <3>1 DEF SipAnswerConnects, ActiveCall
    <3> QED BY <3>1, <3>2, <3>3, ProgressSetup DEF Setup
  <2>2. CASE call_id_matches(d) /\ SipAnswerFails(d)
    BY <1>1, <2>2 DEF SipAnswerFails
  <2> QED BY <1>2, <1>3, <2>1, <2>2 DEF OnSipAnswered
<1>4. ASSUME NEW d \in Dialogs, OnSipFailed(d)
      PROVE  SetupInv'
  <2>1. CASE call_id_matches(d) /\ RetryWithAuth(d)
    <3>1. call \in ActiveCall /\ Busy
      BY <2>1, BusyType DEF call_id_matches
    <3>2. call'.answered = call.answered /\ call'.leg = call.leg
      BY <2>1, <3>1 DEF RetryWithAuth, ActiveCall
    <3> QED BY <2>1, <3>1, <3>2, LinkSetup DEF RetryWithAuth, linkVars
  <2>2. CASE call_id_matches(d) /\ SipRejected(d)
    BY <1>1, <2>2 DEF SipRejected
  <2> QED BY <1>2, <1>4, <2>1, <2>2 DEF OnSipFailed
<1>5. ASSUME NEW d \in Dialogs, OnRingTimeout(d)
      PROVE  SetupInv'
  BY <1>1, <1>2, <1>5 DEF OnRingTimeout
<1>6. ASSUME NEW d \in Dialogs, OnEarlyMediaAudio(d)
      PROVE  SetupInv'
  <2>1. (Busy /\ call.answered)' => Busy /\ call.answered /\ call'.leg = call.leg
    <3>1. CASE call' = call
      BY <3>1 DEF Busy
    <3>2. CASE call_id_matches(d) /\ call' = [call EXCEPT !.early_media = TRUE]
      BY <3>2, BusyType DEF call_id_matches, ActiveCall
    <3> QED BY <1>6, <3>1, <3>2 DEF OnEarlyMediaAudio
  <2> QED BY <1>6, <2>1, LinkSetup DEF OnEarlyMediaAudio, linkVars
<1> QED BY <1>3, <1>4, <1>5, <1>6 DEF InternalEvent

\* and the steps of the network and the watcher.
LEMMA LinkStepSetup ==
    ASSUME TypeOK, SetupInv, Watcher \/ \E l \in Legs : Network(l), "reuse" \notin Env
    PROVE  SetupInv'
<1>0. call' = call /\ leg \in [Legs -> LegStates]
  BY DEF Watcher, Network, gwVars, TypeOK, LinkTypeOK
<1>1. /\ Up \in ModemEvents /\ NoProgress(Up)
      /\ Down \in ModemEvents /\ NoProgress(Down)
      /\ \A l \in Legs : CallAdded(l) \in ModemEvents /\ NoProgress(CallAdded(l))
      /\ \A l \in Legs : /\ CallState(l, "terminated") \in ModemEvents
                         /\ NoProgress(CallState(l, "terminated"))
  BY EventTypes, QuietEvents DEF LegStates
<1>2. CASE Watcher
  <2>1. CASE ModemVanishes
    <3>1. modemQ' = modemQ /\ \A l \in Legs : leg'[l] \in Setup => leg'[l] = leg[l]
      BY <2>1 DEF ModemVanishes, Setup
    <3> QED BY <1>0, <1>1, <3>1, QuietSetup
  <2>2. CASE ModemReturns \/ SessionUp \/ Adopt \/ SessionDown
    <3>1. leg' = leg /\ (modemQ' = modemQ \/ modemQ' = Append(modemQ, Up)
                           \/ modemQ' = Append(modemQ, Down))
      BY <2>2 DEF ModemReturns, SessionUp, Adopt, SessionDown
    <3> QED BY <1>0, <1>1, <3>1, QuietSetup
  <2> QED BY <1>2, <2>1, <2>2 DEF Watcher, LinkSession
<1>3. ASSUME NEW l \in Legs, Network(l)
      PROVE  SetupInv'
  <2>1. CASE Unused(l) /\ NetIncoming(l)
    BY <1>0, <2>1, NewLegSetup DEF NetIncoming, Busy
  <2>2. CASE NetProgress(l)
    BY <1>0, <2>2, ProgressSetup DEF NetProgress, Setup, Busy
  <2>3. CASE NetHangup(l) \/ NetEnded(l)
    <3>1. /\ modemQ' = modemQ \/ modemQ' = Append(modemQ, CallState(l, "terminated"))
          /\ \A k \in Legs : leg'[k] \in Setup => leg'[k] = leg[k]
      BY <1>0, <2>3 DEF NetHangup, NetEnded, StateSignal, Setup
    <3> QED BY <1>0, <1>1, <3>1, QuietSetup
  <2>4. CASE HandleCallAdded(l) \/ Subscribed(l)
    <3>1. leg' = leg /\ (modemQ' = modemQ \/ modemQ' = Append(modemQ, CallAdded(l)))
      BY <2>4 DEF HandleCallAdded, Subscribed
    <3> QED BY <1>0, <1>1, <3>1, QuietSetup
  <2> QED BY <1>3, <2>1, <2>2, <2>3, <2>4 DEF Network, LinkStep
<1> QED BY <1>2, <1>3

\* Every step keeps SetupInv.
LEMMA NextSetup ==
    ASSUME TypeOK, SetupInv, [Next]_vars, "reuse" \notin Env
    PROVE  SetupInv'
<1>0. modemQ \in Seq(ModemEvents) /\ SetupIn(modemQ)
  BY DEF TypeOK, LinkTypeOK, SetupInv, SetupIn
<1>1. CASE ModemEvent
  BY <1>1, ModemEventSetup
<1>2. CASE SipRequest
  BY <1>2, SipRequestSetup
<1>3. CASE InternalEvent
  BY <1>3, InternalSetup
<1>4. CASE check_media
  BY <1>0, <1>4, DropSetup DEF check_media, teardown_call
<1>5. CASE HearAudio
  <2>1. Busy /\ call'.answered = call.answered /\ call'.leg = call.leg
    BY <1>5, BusyType DEF HearAudio, ActiveCall
  <2> QED BY <1>5, <2>1, LinkSetup DEF HearAudio, linkVars
<1>6. CASE Shutdown
  <2>1. CASE Busy
    BY <1>0, <1>6, <2>1, DropSetup DEF Shutdown, teardown_call
  <2>2. CASE ~Busy
    BY <1>6, <2>2, LinkSetup DEF Shutdown, linkVars, Busy
  <2> QED BY <2>1, <2>2
<1>7. CASE Restart
  BY <1>7 DEF Restart, LinkRestart, SetupInv, Busy
<1>8. CASE Watcher \/ \E l \in Legs : Network(l)
  BY <1>8, LinkStepSetup
<1>9. ASSUME NEW d \in Dialogs, Peer(d)
      PROVE  SetupInv'
  <2>1. leg' = leg /\ modemQ' = modemQ /\ call' = call
    BY <1>9 DEF Peer, CallerInvites, CallerCopy, CallerCancels, CallerLeaves, PeerHangsUp,
                CalleeAnswers, CalleeRefuses, CalleeChallenges, CalleeResponds, RingTimeout,
                Quiet, linkVars
  <2> QED BY <2>1, LinkSetup DEF Busy
<1>10. CASE UNCHANGED vars
  BY <1>10, LinkSetup DEF vars, linkVars, gwVars, Busy
<1> QED BY <1>1, <1>2, <1>3, <1>4, <1>5, <1>6, <1>7, <1>8, <1>9, <1>10 DEF Next

(***************************************************************************)
(* A SIP side that believes in a connected call is never bridged to a leg  *)
(* that still rings, whatever is lost, restarted or copied, as long as     *)
(* ModemManager does not reuse a path whose events the gateway still has   *)
(* to read: no stale event answers the caller (on_modem_answered), and a   *)
(* callee is connected only once the leg is accepted (on_sip_answered).    *)
(***************************************************************************)
THEOREM AnsweredLegIsConnected ==
    ASSUME "reuse" \notin Env
    PROVE  Spec => []AnsweredMeansConnected
<1>1. Init => SetupInv
  <2> SUFFICES ASSUME Init PROVE SetupInv
    OBVIOUS
  <2>1. modemQ = << >> /\ ~Busy
    BY DEF Init, LinkInit, Busy
  <2> QED BY <2>1 DEF SetupInv
<1>2. SetupInv /\ TypeOK /\ [Next]_vars => SetupInv'
  BY NextSetup
<1>3. SetupInv => AnsweredMeansConnected
  BY DEF SetupInv, AnsweredMeansConnected, Setup
<1> QED BY <1>1, <1>2, <1>3, TypeCorrect, PTL DEF Spec

----------------------------------------------------------------------------
(* What a handler does to a dialog.                                        *)

\* A request, or an outcome, is taken off its queue.
PopsRequest == sipQ # << >> /\ sipQ' = Tail(sipQ)
PopsOutcome == internalQ # << >> /\ internalQ' = Tail(internalQ)

\* The requests that stay under way say where their peers are, as long as the
\* handler moves only peers that have made up their mind, or the one it serves.
LEMMA RequestsStay ==
    ASSUME TypeOK, RequestInv, sipQ' = sipQ \/ PopsRequest,
           \A d \in Dialogs :
             \/ peer'[d] = peer[d]
             \/ /\ peer[d] # "inviting" /\ peer'[d] \notin {"idle", "inviting", "proceeding"}
                /\ peer[d] \in PastTheFinal => peer'[d] \in PastTheFinal
             \/ PopsRequest /\ d = Head(sipQ).id
    PROVE  RequestInv'
<1>1. sipQ \in Seq(SipRequests) /\ \A i \in 1..Len(sipQ) : sipQ[i] \in SipRequests
  BY DEF TypeOK
<1>2. \A i \in 1..Len(sipQ) : sipQ[i].id \in Dialogs
  BY <1>1 DEF SipRequests
<1>3. CASE PopsRequest
  <2>1. /\ Len(sipQ') = Len(sipQ) - 1 /\ Len(sipQ) \in Nat
        /\ \A i \in 1..Len(sipQ') :
             i + 1 \in 1..Len(sipQ) /\ i + 1 # 1 /\ sipQ'[i] = sipQ[i + 1]
        /\ 1 \in 1..Len(sipQ) /\ Head(sipQ) = sipQ[1]
    BY <1>1, <1>3 DEF PopsRequest
  <2>2. \A i \in 1..Len(sipQ') : sipQ'[i].id # Head(sipQ).id /\ sipQ'[i].id \in Dialogs
    BY <1>2, <2>1 DEF RequestInv
  <2>3. ASSUME NEW i \in 1..Len(sipQ')
        PROVE  /\ sipQ'[i].m = "INVITE" => peer'[sipQ'[i].id] = "inviting"
               /\ sipQ'[i].m # "INVITE" => peer'[sipQ'[i].id] \notin {"idle", "inviting"}
               /\ sipQ'[i].m = "BYE" => peer'[sipQ'[i].id] \in PastTheFinal
    BY <2>1, <2>2 DEF RequestInv
  <2>4. ASSUME NEW i \in 1..Len(sipQ'), NEW j \in 1..Len(sipQ'), sipQ'[i].id = sipQ'[j].id
        PROVE  i = j
    <3>1. i + 1 = j + 1
      BY <2>1, <2>4 DEF RequestInv
    <3> QED BY <2>1, <3>1
  <2> QED BY <2>3, <2>4 DEF RequestInv
<1>4. CASE ~PopsRequest
  BY <1>2, <1>4 DEF RequestInv
<1> QED BY <1>3, <1>4

\* A peer with no request under way sends one.
LEMMA RequestSent ==
    ASSUME TypeOK, RequestInv, NEW d \in Dialogs, ~Sending(d), NEW m \in {"INVITE", "CANCEL", "BYE"},
           Send(m, d), \A e \in Dialogs : e # d => peer'[e] = peer[e],
           m = "INVITE" => peer'[d] = "inviting",
           m # "INVITE" => peer'[d] \notin {"idle", "inviting"},
           m = "BYE" => peer'[d] \in PastTheFinal
    PROVE  RequestInv'
<1>1. sipQ \in Seq(SipRequests) /\ \A i \in 1..Len(sipQ) : sipQ[i] \in SipRequests
  BY DEF TypeOK
<1>2. \A i \in 1..Len(sipQ) : sipQ[i].id \in Dialogs /\ sipQ[i].id # d
  BY <1>1 DEF SipRequests, Sending
<1>3. /\ Len(sipQ) \in Nat
      /\ \A i \in 1..Len(sipQ') : \/ i \in 1..Len(sipQ) /\ sipQ'[i] = sipQ[i]
                                  \/ i = Len(sipQ) + 1 /\ sipQ'[i] = [m |-> m, id |-> d]
  BY <1>1 DEF Send
<1> QED BY <1>2, <1>3 DEF RequestInv

\* The outcomes still awaited or reported stay so, as long as the handler does
\* not connect a callee other than the one whose outcome it takes.
LEMMA OutcomesStay ==
    ASSUME TypeOK, OutcomeInv, internalQ' = internalQ \/ PopsOutcome,
           \/ tasks' \subseteq tasks
           \/ /\ PopsOutcome /\ tasks' = tasks \cup {Head(internalQ).id}
              /\ Head(internalQ).id \in OutIds
              /\ peer'[Head(internalQ).id] \notin {"idle", "connected"},
           \A d \in OutIds :
             \/ peer'[d] = peer[d]
             \/ peer'[d] \notin {"idle", "connected"}
             \/ PopsOutcome /\ d = Head(internalQ).id
    PROVE  OutcomeInv'
<1>1. internalQ \in Seq(Internals) /\ \A i \in 1..Len(internalQ) : internalQ[i] \in Internals
  BY DEF TypeOK
<1>2. CASE PopsOutcome
  <2>1. /\ Len(internalQ') = Len(internalQ) - 1 /\ Len(internalQ) \in Nat
        /\ \A i \in 1..Len(internalQ') :
             i + 1 \in 1..Len(internalQ) /\ i + 1 # 1 /\ internalQ'[i] = internalQ[i + 1]
        /\ 1 \in 1..Len(internalQ) /\ Head(internalQ) = internalQ[1]
    BY <1>1, <1>2 DEF PopsOutcome
  <2>2. \A i \in 1..Len(internalQ') :
          internalQ'[i].id \in OutIds => internalQ'[i].id # Head(internalQ).id
    BY <2>1 DEF OutcomeInv
  <2>3. Head(internalQ).id \notin tasks
    BY <2>1 DEF OutcomeInv
  <2>4. tasks' \subseteq OutIds /\ \A d \in tasks' : peer'[d] \notin {"idle", "connected"}
    BY <2>3 DEF OutcomeInv
  <2>5. ASSUME NEW i \in 1..Len(internalQ')
        PROVE  /\ internalQ'[i].ev = "EarlyMediaAudio" <=> internalQ'[i].id \in SipIds
               /\ internalQ'[i].id \in OutIds =>
                    /\ peer'[internalQ'[i].id] \notin {"idle", "connected"}
                    /\ internalQ'[i].id \notin tasks'
    <3>1. i + 1 \in 1..Len(internalQ) /\ internalQ'[i] = internalQ[i + 1]
      BY <2>1
    <3>2. internalQ'[i].ev = "EarlyMediaAudio" <=> internalQ'[i].id \in SipIds
      BY <3>1 DEF OutcomeInv
    <3>3. ASSUME internalQ'[i].id \in OutIds
          PROVE  /\ peer'[internalQ'[i].id] \notin {"idle", "connected"}
                 /\ internalQ'[i].id \notin tasks'
      <4>1. /\ peer[internalQ'[i].id] \notin {"idle", "connected"}
            /\ internalQ'[i].id \notin tasks
        BY <3>1, <3>3 DEF OutcomeInv
      <4>2. internalQ'[i].id # Head(internalQ).id
        BY <2>2, <3>3
      <4> QED BY <3>3, <4>1, <4>2
    <3> QED BY <3>2, <3>3
  <2>6. ASSUME NEW i \in 1..Len(internalQ'), NEW j \in 1..Len(internalQ'),
               internalQ'[i].id \in OutIds, internalQ'[j].id = internalQ'[i].id
        PROVE  j = i
    <3>1. j + 1 = i + 1
      BY <2>1, <2>6 DEF OutcomeInv
    <3> QED BY <2>1, <3>1
  <2> QED BY <2>4, <2>5, <2>6 DEF OutcomeInv
<1>3. CASE ~PopsOutcome
  <2>1. internalQ' = internalQ /\ tasks' \subseteq tasks
    BY <1>3
  <2> QED BY <1>3, <2>1 DEF OutcomeInv
<1> QED BY <1>2, <1>3

\* The response task reports its outcome, and ends.
LEMMA OutcomeReported ==
    ASSUME TypeOK, OutcomeInv, NEW d \in tasks, NEW e \in {"SipAnswered", "SipFailed", "RingTimeout"},
           tasks' = tasks \ {d}, internalQ' = Append(internalQ, [ev |-> e, id |-> d]),
           \A c \in Dialogs : c # d => peer'[c] = peer[c],
           peer'[d] \notin {"idle", "connected"}
    PROVE  OutcomeInv'
<1>1. internalQ \in Seq(Internals) /\ \A i \in 1..Len(internalQ) : internalQ[i] \in Internals
  BY DEF TypeOK
<1>2. d \in OutIds /\ d \notin SipIds
  BY DialogsAssumption DEF OutcomeInv
<1>3. \A i \in 1..Len(internalQ) : internalQ[i].id \in Dialogs /\ internalQ[i].id # d
  BY <1>1, <1>2 DEF Internals, OutcomeInv
<1>4. /\ Len(internalQ) \in Nat
      /\ \A i \in 1..Len(internalQ') :
           \/ i \in 1..Len(internalQ) /\ internalQ'[i] = internalQ[i]
           \/ i = Len(internalQ) + 1 /\ internalQ'[i] = [ev |-> e, id |-> d]
  BY <1>1
<1>5. \A c \in tasks' : c \in tasks /\ c # d /\ c \in Dialogs
  BY DEF TypeOK
<1> QED BY <1>2, <1>3, <1>4, <1>5 DEF OutcomeInv

\* Network audio heard on a caller's call is reported.
LEMMA AudioReported ==
    ASSUME TypeOK, OutcomeInv, NEW d \in SipIds, UNCHANGED <<tasks, peer>>,
           internalQ' = Append(internalQ, [ev |-> "EarlyMediaAudio", id |-> d])
    PROVE  OutcomeInv'
<1>1. internalQ \in Seq(Internals)
  BY DEF TypeOK
<1>2. /\ Len(internalQ) \in Nat
      /\ \A i \in 1..Len(internalQ') :
           \/ i \in 1..Len(internalQ) /\ internalQ'[i] = internalQ[i]
           \/ i = Len(internalQ) + 1 /\ internalQ'[i] = [ev |-> "EarlyMediaAudio", id |-> d]
  BY <1>1
<1>3. d \notin OutIds
  BY DialogsAssumption
<1> QED BY <1>2, <1>3 DEF OutcomeInv

\* Both queues are as they were, but for what the handler takes.
TakesRequest == (sipQ' = sipQ \/ PopsRequest) /\ internalQ' = internalQ
TakesOutcome == sipQ' = sipQ /\ (internalQ' = internalQ \/ PopsOutcome)

\* The call and its dialog.
LEMMA CallFacts ==
    ASSUME TypeOK, DialogInv, Busy
    PROVE  /\ call \in ActiveCall /\ call.id \in Dialogs /\ call.leg \in Legs
           /\ call.role \in {"FromSip", "ToSip"} /\ call.answered \in BOOLEAN
           /\ call.role = "FromSip" <=> call.id \in SipIds
           /\ call.role = "ToSip" <=> call.id \in OutIds
           /\ PeerOfCall
BY BusyType, DialogsAssumption DEF DialogInv, BridgeInv, PeerOfCall, ActiveCall

\* Where the peer of a call that is over may be: it has had its final response,
\* the BYE or the CANCEL, or the gateway was already too late.
LeavesPeer ==
    /\ spurious' = {}
    /\ \A d \in Dialogs : d # call.id => peer'[d] = peer[d]
    /\ peer'[call.id] \in IF call.role = "FromSip"
                            THEN IF call.answered THEN {"ended"} ELSE {"rejected", "unanswered"}
                            ELSE CalleeStates \cup {"rejected", "ended"}
    /\ peer[call.id] = "connected" => peer'[call.id] = "ended"
    /\ peer'[call.id] = "invited" => call.answered

\* finish_call, once the peer has been told, keeps everything about dialogs.
LEMMA CallOver ==
    ASSUME TypeOK, TypeOK', DialogInv, Busy, LeavesPeer, finish_call, TakesRequest \/ TakesOutcome
    PROVE  DialogInv'
<1>1. /\ call.id \in Dialogs /\ call.role \in {"FromSip", "ToSip"} /\ PeerOfCall
      /\ call.answered \in BOOLEAN
      /\ call.role = "FromSip" <=> call.id \in SipIds
      /\ call.role = "ToSip" <=> call.id \in OutIds
  BY CallFacts
<1>2. peer'[call.id] \notin {"idle", "inviting", "proceeding", "leaving", "connected"}
  BY <1>1 DEF LeavesPeer, CalleeStates
<1>3. peer[call.id] # "inviting"
  BY <1>1 DEF PeerOfCall, CalleeStates
<1>4. RequestInv'
  <2>1. peer[call.id] \in PastTheFinal => peer'[call.id] \in PastTheFinal
    BY <1>1 DEF LeavesPeer, PeerOfCall, PastTheFinal, CalleeStates
  <2> QED BY <1>2, <1>3, <2>1, RequestsStay DEF DialogInv, LeavesPeer, TakesRequest, TakesOutcome
<1>5. OutcomeInv'
  <2>1. \A d \in OutIds : peer'[d] = peer[d] \/ peer'[d] \notin {"idle", "connected"}
    BY <1>2 DEF LeavesPeer, Dialogs
  <2>2. tasks' \subseteq tasks
    BY DEF finish_call
  <2> QED BY <2>1, <2>2, OutcomesStay DEF DialogInv, TakesRequest, TakesOutcome
<1>6. BridgeInv'
  <2>1. ~Busy' /\ call' = NoCall
    BY DEF finish_call, Busy
  <2>2. cdr \in [Dialogs -> {"none", "open", "answered", "missed", "completed"}]
    BY DEF TypeOK
  <2>3. /\ cdr'[call.id] = IF call.answered THEN "completed" ELSE "missed"
        /\ \A d \in Dialogs : d # call.id => cdr'[d] = cdr[d]
    BY <1>1, <2>2 DEF finish_call, DialogInv, BridgeInv
  <2>4. ASSUME NEW d \in Dialogs, d # call.id
        PROVE  /\ cdr'[d] \notin {"open", "answered"}
               /\ peer'[d] \notin {"proceeding", "leaving", "connected"}
               /\ peer'[d] \in CallerStates => d \in SipIds
               /\ peer'[d] \in CalleeStates => d \in OutIds
               /\ peer'[d] = "invited" => cdr'[d] = "completed"
               /\ d \in SipIds => /\ cdr'[d] = "completed" => peer'[d] = "ended"
                                  /\ cdr'[d] = "missed" => peer'[d] \in {"rejected", "unanswered"}
    BY <2>3, <2>4 DEF LeavesPeer, DialogInv, BridgeInv, call_id_matches
  <2>5. /\ cdr'[call.id] \notin {"open", "answered"}
        /\ peer'[call.id] \in CallerStates => call.id \in SipIds
        /\ peer'[call.id] \in CalleeStates => call.id \in OutIds
        /\ peer'[call.id] = "invited" => cdr'[call.id] = "completed"
        /\ call.id \in SipIds => /\ cdr'[call.id] = "completed" => peer'[call.id] = "ended"
                                 /\ cdr'[call.id] = "missed" => peer'[call.id] \in {"rejected", "unanswered"}
    BY <1>1, <2>3 DEF LeavesPeer, CallerStates, CalleeStates
  <2>6. spurious' = {} /\ \A d \in SipIds : d \in Dialogs
    BY DEF LeavesPeer, Dialogs
  <2> QED BY <1>2, <2>1, <2>4, <2>5, <2>6 DEF BridgeInv
<1> QED BY <1>4, <1>5, <1>6 DEF DialogInv

\* teardown_call tells the peer of any call.
LEMMA EndSipSideLeaves ==
    ASSUME TypeOK, DialogInv, Busy, EndSipSide
    PROVE  LeavesPeer
<1>1. /\ call.id \in Dialogs /\ call.role \in {"FromSip", "ToSip"} /\ PeerOfCall
      /\ call.answered \in BOOLEAN /\ peer \in [Dialogs -> PeerStates]
  BY CallFacts DEF TypeOK
<1>2. spurious = {}
  BY DEF DialogInv, BridgeInv
<1>3. CASE call.answered
  BY <1>1, <1>2, <1>3 DEF EndSipSide, Ends, SetPeer, LeavesPeer, PeerOfCall, CalleeStates
<1>4. CASE ~call.answered /\ call.role = "FromSip"
  BY <1>1, <1>2, <1>4 DEF EndSipSide, Final, Waiting, LeavesPeer, PeerOfCall
<1>5. CASE ~call.answered /\ call.role = "ToSip"
  BY <1>1, <1>2, <1>5 DEF EndSipSide, cancel_outgoing_invite, SetPeer, LeavesPeer, PeerOfCall,
                          CalleeStates
<1> QED BY <1>1, <1>3, <1>4, <1>5

\* A step that leaves the call, the dialogs and the calls table alone.
LEMMA DialogsStay ==
    ASSUME TypeOK, DialogInv, UNCHANGED <<call, cdr, peer, spurious>>, Busy => running',
           tasks' \subseteq tasks, TakesRequest \/ TakesOutcome
    PROVE  DialogInv'
<1>1. RequestInv'
  BY RequestsStay DEF DialogInv, TakesRequest, TakesOutcome
<1>2. OutcomeInv'
  BY OutcomesStay DEF DialogInv, TakesRequest, TakesOutcome
<1>3. BridgeInv'
  BY DEF DialogInv, BridgeInv, Busy, PeerOfCall, call_id_matches
<1> QED BY <1>1, <1>2, <1>3 DEF DialogInv

\* A step that only notes something about the call.
LEMMA BridgeNoted ==
    ASSUME TypeOK, DialogInv, Busy, UNCHANGED <<running, cdr, peer, spurious>>,
           call' \in ActiveCall, call'.id = call.id, call'.role = call.role,
           call'.answered = call.answered, call.role = "ToSip" => ~call'.listening
    PROVE  BridgeInv'
<1>1. Busy'
  BY NoCallAssumption DEF Busy
<1>2. PeerOfCall'
  BY CallFacts DEF PeerOfCall
<1> QED BY <1>1, <1>2 DEF DialogInv, BridgeInv, call_id_matches

\* A call is answered: the caller has its 200, the callee its ACK.
LEMMA CallAnswered ==
    ASSUME TypeOK, DialogInv, Busy, UNCHANGED <<running, tasks, sipQ>>,
           internalQ' = internalQ \/ PopsOutcome,
           call' \in ActiveCall, call'.id = call.id, call'.role = call.role,
           call'.answered, call'.listening = call.listening,
           cdr' = [cdr EXCEPT ![call.id] = "answered"],
           spurious' = {}, \A d \in Dialogs : d # call.id => peer'[d] = peer[d],
           IF call.role = "FromSip" THEN peer'[call.id] = "connected"
           ELSE \/ peer'[call.id] = peer[call.id]
                \/ peer'[call.id] = "connected" /\ PopsOutcome /\ Head(internalQ).id = call.id
    PROVE  DialogInv'
<1>1. /\ call.id \in Dialogs /\ call.role \in {"FromSip", "ToSip"} /\ PeerOfCall
      /\ call.role = "FromSip" <=> call.id \in SipIds
      /\ call.role = "ToSip" <=> call.id \in OutIds
  BY CallFacts
<1>2. RequestInv'
  <2>1. \/ peer'[call.id] = peer[call.id]
        \/ peer[call.id] # "inviting" /\ peer'[call.id] \notin {"idle", "inviting", "proceeding"}
    BY <1>1 DEF PeerOfCall, CalleeStates
  <2>2. peer[call.id] \in PastTheFinal => peer'[call.id] \in PastTheFinal
    BY <1>1 DEF PastTheFinal
  <2> QED BY <2>1, <2>2, RequestsStay DEF DialogInv
<1>3. OutcomeInv'
  <2>1. \A d \in OutIds : \/ peer'[d] = peer[d]
                          \/ PopsOutcome /\ d = Head(internalQ).id
    BY <1>1 DEF Dialogs
  <2> QED BY <2>1, OutcomesStay DEF DialogInv
<1>4. BridgeInv'
  <2>1. Busy' /\ running'
    BY NoCallAssumption DEF Busy, DialogInv, BridgeInv
  <2>2. PeerOfCall'
    BY <1>1 DEF PeerOfCall
  <2>3. /\ cdr'[call.id] = "answered"
        /\ \A d \in Dialogs : d # call.id => cdr'[d] = cdr[d]
    BY <1>1 DEF TypeOK
  <2>4. /\ peer'[call.id] \in CallerStates => call.id \in SipIds
        /\ peer'[call.id] \in CalleeStates => call.id \in OutIds
    BY <1>1 DEF CallerStates, CalleeStates, PeerOfCall
  <2>5. ASSUME NEW d \in Dialogs, d # call.id
        PROVE  /\ cdr'[d] \notin {"open", "answered"}
               /\ peer'[d] \notin {"proceeding", "leaving", "connected"}
               /\ peer'[d] \in CallerStates => d \in SipIds
               /\ peer'[d] \in CalleeStates => d \in OutIds
               /\ peer'[d] = "invited" => cdr'[d] = "completed"
               /\ d \in SipIds => /\ cdr'[d] = "completed" => peer'[d] = "ended"
                                  /\ cdr'[d] = "missed" => peer'[d] \in {"rejected", "unanswered"}
    BY <2>3, <2>5 DEF DialogInv, BridgeInv, call_id_matches
  <2>6. \A d \in SipIds : d \in Dialogs
    BY DEF Dialogs
  <2> QED BY <2>1, <2>2, <2>3, <2>4, <2>5, <2>6 DEF BridgeInv, call_id_matches
<1> QED BY <1>2, <1>3, <1>4 DEF DialogInv

----------------------------------------------------------------------------
(* The actions, for the dialogs.                                           *)

\* Modem events: only the answer and the teardown touch a dialog, and a
\* provisional goes out only before the answer.
LEMMA ModemEventDialog ==
    ASSUME TypeOK, TypeOK', DialogInv, SetupInv, ModemEvent
    PROVE  DialogInv'
<1>1. ASSUME UNCHANGED <<call, cdr, peer, spurious, running, tasks, sipQ, internalQ>>
      PROVE  DialogInv'
  BY <1>1, DialogsStay DEF DialogInv, BridgeInv, TakesRequest
<1>2. ASSUME Busy, EndSipSide, finish_call, UNCHANGED <<sipQ, internalQ>>
      PROVE  DialogInv'
  BY <1>2, EndSipSideLeaves, CallOver DEF TakesRequest
<1>3. CASE OnUp
  BY <1>1, <1>3 DEF OnUp
<1>4. CASE OnDown
  BY <1>1, <1>2, <1>4 DEF OnDown
<1>5. ASSUME NEW l \in Legs, OnCallAdded(l)
      PROVE  DialogInv'
  <2>1. CASE CallAddedIgnored(l) \/ CallAddedEnded(l) \/ CallAddedHungUp(l)
    BY <1>1, <2>1 DEF CallAddedIgnored, CallAddedEnded, CallAddedHungUp, gwVars
  <2>2. CASE CallAddedOffered(l)
    <3>1. PICK d \in OutIds :
            /\ peer[d] = "idle"
            /\ SetPeer(d, "invited")
            /\ call' = NewCall("ToSip", l, d)
            /\ tasks' = tasks \cup {d}
            /\ cdr' = [cdr EXCEPT ![d] = "open"]
      BY <2>2 DEF CallAddedOffered
    <3>2. /\ ~Busy /\ running' = running /\ running /\ sipQ' = sipQ /\ internalQ' = internalQ
      BY <1>5, <2>2 DEF CallAddedOffered, OnCallAdded, NextModem
    <3>3. /\ d \in Dialogs /\ d \notin SipIds
          /\ peer'[d] = "invited" /\ \A c \in Dialogs : c # d => peer'[c] = peer[c]
          /\ cdr'[d] = "open" /\ \A c \in Dialogs : c # d => cdr'[c] = cdr[c]
          /\ spurious' = spurious
      BY <3>1, DialogsAssumption DEF Dialogs, SetPeer, TypeOK
    <3>4. RequestInv'
      BY <3>1, <3>2, <3>3, RequestsStay DEF DialogInv, PastTheFinal
    <3>5. OutcomeInv'
      <4>1. \A i \in 1..Len(internalQ) : internalQ[i].id # d
        BY <3>1 DEF DialogInv, OutcomeInv
      <4>2. \A c \in tasks' : peer'[c] \notin {"idle", "connected"} /\ c \in OutIds
        BY <3>1, <3>3 DEF DialogInv, OutcomeInv, Dialogs
      <4>3. ASSUME NEW i \in 1..Len(internalQ), internalQ[i].id \in OutIds
            PROVE  /\ peer'[internalQ[i].id] \notin {"idle", "connected"}
                   /\ internalQ[i].id \notin tasks'
        <5>1. internalQ[i].id # d /\ internalQ[i].id \in Dialogs
          BY <4>1, <4>3 DEF Dialogs
        <5> QED BY <3>1, <3>3, <4>3, <5>1 DEF DialogInv, OutcomeInv
      <4> QED BY <3>2, <4>2, <4>3 DEF DialogInv, OutcomeInv
    <3>6. /\ call' \in ActiveCall /\ call'.id = d /\ call'.role = "ToSip"
          /\ ~call'.answered /\ ~call'.listening
      BY <3>1, <3>3, NewCallType DEF NewCall
    <3>7. Busy' /\ PeerOfCall'
      BY <3>3, <3>6, NoCallAssumption DEF Busy, PeerOfCall, CalleeStates
    <3>8. BridgeInv'
      <4>1. ASSUME NEW c \in Dialogs, c # d
            PROVE  /\ cdr'[c] \notin {"open", "answered"}
                   /\ peer'[c] \notin {"proceeding", "leaving", "connected"}
                   /\ peer'[c] \in CallerStates => c \in SipIds
                   /\ peer'[c] \in CalleeStates => c \in OutIds
                   /\ peer'[c] = "invited" => cdr'[c] = "completed"
                   /\ c \in SipIds => /\ cdr'[c] = "completed" => peer'[c] = "ended"
                                      /\ cdr'[c] = "missed" => peer'[c] \in {"rejected", "unanswered"}
        BY <3>2, <3>3, <4>1 DEF DialogInv, BridgeInv, call_id_matches
      <4>2. peer'[d] \notin CallerStates
        BY <3>3 DEF CallerStates
      <4>3. spurious' = {} /\ \A c \in SipIds : c \in Dialogs
        BY <3>3 DEF DialogInv, BridgeInv, Dialogs
      <4> QED BY <3>2, <3>3, <3>6, <3>7, <4>1, <4>2, <4>3 DEF BridgeInv, call_id_matches
    <3> QED BY <3>4, <3>5, <3>8 DEF DialogInv
  <2> QED BY <1>5, <2>1, <2>2 DEF OnCallAdded
<1>6. ASSUME NEW l \in Legs, OnCallDeleted(l)
      PROVE  DialogInv'
  BY <1>1, <1>2, <1>6 DEF OnCallDeleted, ForeignEvent, gwVars, teardown_call, OnPath
<1>7. ASSUME NEW l \in Legs, NEW st \in LegStates, on_mm_call_state(l, st)
      PROVE  DialogInv'
  <2>1. CASE ForeignEvent(l)
    BY <1>1, <2>1 DEF ForeignEvent, gwVars
  <2>2. CASE OnPath(l) /\ st \in {"dialing", "ringing_out"} /\ Alerting(l)
    <3>1. CASE call.role = "FromSip" /\ ~call.ringing_sent
      <4>1. /\ call \in ActiveCall /\ call.id \in Dialogs /\ PeerOfCall /\ Busy
        BY <2>2, CallFacts DEF OnPath
      <4>2. ~call.answered
        <5>1. modemQ \in Seq(ModemEvents) /\ modemQ # << >> /\ Head(modemQ) = CallState(l, st)
          BY <1>7 DEF on_mm_call_state, NextModem, TypeOK, LinkTypeOK
        <5>2. 1 \in 1..Len(modemQ) /\ modemQ[1] \in Alerts(l)
          BY <2>2, <5>1 DEF Alerts
        <5> QED BY <2>2, <4>1, <5>2 DEF SetupInv, OnPath
      <4>3. Waiting(call.id)
        BY <3>1, <4>1, <4>2 DEF PeerOfCall, Waiting
      <4>4. /\ UNCHANGED <<peer, spurious, running, tasks, cdr, sipQ, internalQ>>
            /\ \/ call' = [call EXCEPT !.ringing_sent = TRUE]
               \/ call' = [call EXCEPT !.ringing_sent = TRUE, !.media = TRUE, !.listening = TRUE]
        BY <2>2, <3>1, <4>3 DEF Alerting, Provisional
      <4>5. /\ call' \in ActiveCall /\ call'.id = call.id /\ call'.role = call.role
            /\ call'.answered = call.answered
        BY <4>1, <4>4 DEF ActiveCall
      <4>6. BridgeInv'
        BY <3>1, <4>1, <4>4, <4>5, BridgeNoted
      <4> QED BY <4>4, <4>6 DEF DialogInv, RequestInv, OutcomeInv
    <3>2. CASE ~(call.role = "FromSip" /\ ~call.ringing_sent)
      BY <1>1, <2>2, <3>2 DEF Alerting
    <3> QED BY <3>1, <3>2
  <2>3. CASE OnPath(l) /\ ModemAnswered(l)
    <3>1. /\ call \in ActiveCall /\ call.id \in Dialogs /\ PeerOfCall /\ Busy
          /\ call.role \in {"FromSip", "ToSip"}
      BY <2>3, CallFacts DEF OnPath
    <3>2. /\ UNCHANGED <<running, tasks, sipQ, internalQ>>
          /\ cdr' = [cdr EXCEPT ![call.id] = "answered"]
      BY <2>3 DEF ModemAnswered
    <3>3. /\ call' \in ActiveCall /\ call'.id = call.id /\ call'.role = call.role
          /\ call'.answered /\ call'.listening = call.listening
      BY <2>3, <3>1 DEF ModemAnswered, ActiveCall
    <3>4. /\ spurious' = {} /\ \A d \in Dialogs : d # call.id => peer'[d] = peer[d]
          /\ IF call.role = "FromSip" THEN peer'[call.id] = "connected"
             ELSE peer'[call.id] = peer[call.id]
      <4>1. spurious = {} /\ peer \in [Dialogs -> PeerStates]
        BY DEF DialogInv, BridgeInv, TypeOK
      <4>2. call.role = "FromSip" => Waiting(call.id)
        BY <2>3, <3>1 DEF ModemAnswered, PeerOfCall, Waiting
      <4> QED BY <2>3, <3>1, <4>1, <4>2 DEF ModemAnswered, Final
    <3> QED BY <3>1, <3>2, <3>3, <3>4, CallAnswered
  <2>4. CASE OnPath(l) /\ ModemAnswerFails(l)
    BY <1>2, <2>4 DEF ModemAnswerFails, OnPath, teardown_call
  <2>5. CASE OnPath(l) /\ ModemAnsweredAlready(l)
    BY <1>1, <2>5 DEF ModemAnsweredAlready, gwVars
  <2>6. CASE /\ OnPath(l)
             /\ teardown_call(Tail(modemQ))
             /\ UNCHANGED <<running, modem, sipQ, internalQ>>
    BY <1>2, <2>6 DEF OnPath, teardown_call
  <2> QED BY <1>7, <2>1, <2>2, <2>3, <2>4, <2>5, <2>6 DEF on_mm_call_state
<1> QED BY <1>3, <1>4, <1>5, <1>6, <1>7 DEF ModemEvent

\* A caller that was only being heard is turned away.
LEMMA CallerRefused ==
    ASSUME TypeOK, DialogInv, NEW d \in Dialogs, NextRequest("INVITE", d), Pop(sipQ),
           Final(d, "rejected"), UNCHANGED <<running, call, tasks, cdr, internalQ>>
    PROVE  DialogInv'
<1>1. /\ PopsRequest /\ d = Head(sipQ).id /\ peer[d] = "inviting"
  <2>1. sipQ # << >> /\ Head(sipQ) = [m |-> "INVITE", id |-> d] /\ sipQ \in Seq(SipRequests)
    BY DEF NextRequest, TypeOK
  <2>2. 1 \in 1..Len(sipQ) /\ sipQ[1] = [m |-> "INVITE", id |-> d]
    BY <2>1
  <2> QED BY <2>1, <2>2 DEF Pop, PopsRequest, DialogInv, RequestInv
<1>2. /\ peer'[d] = "rejected" /\ \A c \in Dialogs : c # d => peer'[c] = peer[c]
      /\ spurious' = spurious
  BY <1>1 DEF Final, Waiting, TypeOK
<1>3. RequestInv'
  BY <1>1, <1>2, RequestsStay DEF DialogInv
<1>4. OutcomeInv'
  <2>1. \A c \in OutIds : peer'[c] = peer[c] \/ peer'[c] \notin {"idle", "connected"}
    BY <1>2 DEF Dialogs
  <2> QED BY <2>1, OutcomesStay DEF DialogInv
<1>5. BridgeInv'
  <2>1. Busy => call.id # d
    BY <1>1, CallFacts DEF PeerOfCall, CalleeStates
  <2>2. Busy' = Busy /\ (Busy => PeerOfCall')
    BY <1>2, <2>1, CallFacts DEF Busy, PeerOfCall
  <2>3. d \in SipIds => cdr[d] # "completed"
    BY <1>1 DEF DialogInv, BridgeInv
  <2>4. peer'[d] \notin CallerStates \cup CalleeStates
    BY <1>2 DEF CallerStates, CalleeStates
  <2> QED BY <1>2, <2>2, <2>3, <2>4 DEF DialogInv, BridgeInv, call_id_matches, Dialogs, Busy
<1> QED BY <1>3, <1>4, <1>5 DEF DialogInv

\* SIP requests: an INVITE is answered or dialled, a BYE or a CANCEL ends the
\* call of its dialog or nothing.
LEMMA SipRequestDialog ==
    ASSUME TypeOK, TypeOK', DialogInv, SipRequest
    PROVE  DialogInv'
<1>0. ASSUME NEW d \in Dialogs, NEW m \in {"INVITE", "CANCEL", "BYE"}, NextRequest(m, d), Pop(sipQ)
      PROVE  /\ PopsRequest /\ d = Head(sipQ).id /\ running
             /\ m = "INVITE" => peer[d] = "inviting"
             /\ m = "BYE" => peer[d] \in PastTheFinal
  <2>1. sipQ # << >> /\ Head(sipQ) = [m |-> m, id |-> d] /\ sipQ \in Seq(SipRequests)
    BY <1>0 DEF NextRequest, TypeOK
  <2>2. 1 \in 1..Len(sipQ) /\ sipQ[1] = [m |-> m, id |-> d]
    BY <2>1
  <2> QED BY <1>0, <2>1, <2>2 DEF NextRequest, Pop, PopsRequest, DialogInv, RequestInv
<1>1. ASSUME NEW d \in Dialogs, on_sip_invite(d)
      PROVE  DialogInv'
  <2>0. /\ PopsRequest /\ d = Head(sipQ).id /\ running /\ peer[d] = "inviting"
        /\ NextRequest("INVITE", d) /\ Pop(sipQ)
    BY <1>0, <1>1 DEF on_sip_invite
  <2>1. ~call_id_matches(d)
    BY <2>0, CallFacts DEF call_id_matches, PeerOfCall, CalleeStates
  <2>2. CASE InviteRefused(d) \/ InviteDialFails(d)
    BY <2>0, <2>2, CallerRefused DEF InviteRefused, InviteDialFails
  <2>3. CASE InviteDials(d)
    <3>1. PICK l \in Legs : call' = NewCall("FromSip", l, d)
      BY <2>3 DEF InviteDials
    <3>2. /\ ~Busy /\ running' = running /\ tasks' = tasks /\ internalQ' = internalQ
          /\ SetPeer(d, "proceeding") /\ cdr' = [cdr EXCEPT ![d] = "open"]
      BY <2>0, <2>3 DEF InviteDials
    <3>3. /\ d \in SipIds /\ d \notin OutIds
          /\ peer'[d] = "proceeding" /\ \A c \in Dialogs : c # d => peer'[c] = peer[c]
          /\ cdr'[d] = "open" /\ \A c \in Dialogs : c # d => cdr'[c] = cdr[c]
          /\ spurious' = spurious
      BY <2>0, <3>2, DialogsAssumption
      DEF SetPeer, TypeOK, DialogInv, BridgeInv, CallerStates
    <3>4. RequestInv'
      BY <2>0, <3>3, RequestsStay DEF DialogInv
    <3>5. OutcomeInv'
      <4>1. \A c \in OutIds : peer'[c] = peer[c]
        BY <3>3 DEF Dialogs
      <4> QED BY <3>2, <4>1, OutcomesStay DEF DialogInv
    <3>6. /\ call' \in ActiveCall /\ call'.id = d /\ call'.role = "FromSip" /\ ~call'.answered
      BY <3>1, NewCallType DEF NewCall
    <3>7. Busy' /\ PeerOfCall'
      BY <3>3, <3>6, NoCallAssumption DEF Busy, PeerOfCall
    <3>8. BridgeInv'
      <4>1. ASSUME NEW c \in Dialogs, c # d
            PROVE  /\ cdr'[c] \notin {"open", "answered"}
                   /\ peer'[c] \notin {"proceeding", "leaving", "connected"}
                   /\ peer'[c] \in CallerStates => c \in SipIds
                   /\ peer'[c] \in CalleeStates => c \in OutIds
                   /\ peer'[c] = "invited" => cdr'[c] = "completed"
                   /\ c \in SipIds => /\ cdr'[c] = "completed" => peer'[c] = "ended"
                                      /\ cdr'[c] = "missed" => peer'[c] \in {"rejected", "unanswered"}
        BY <3>2, <3>3, <4>1 DEF DialogInv, BridgeInv, call_id_matches
      <4>2. peer'[d] \notin CalleeStates
        BY <3>3 DEF CalleeStates
      <4>3. spurious' = {} /\ \A c \in SipIds : c \in Dialogs
        BY <3>3 DEF DialogInv, BridgeInv, Dialogs
      <4> QED BY <2>0, <3>2, <3>3, <3>6, <3>7, <4>1, <4>2, <4>3 DEF BridgeInv, call_id_matches
    <3> QED BY <3>4, <3>5, <3>8 DEF DialogInv
  <2> QED BY <1>1, <2>1, <2>2, <2>3 DEF on_sip_invite, InviteAgain
<1>2. ASSUME NEW d \in Dialogs, on_sip_bye(d)
      PROVE  DialogInv'
  <2>0. /\ PopsRequest /\ peer[d] \in PastTheFinal /\ running
        /\ AnswerBye(d) /\ running' = running /\ internalQ' = internalQ
    BY <1>0, <1>2 DEF on_sip_bye
  <2>1. CASE call_id_matches(d)
    <3>1. Busy /\ call.id = d
      BY <2>1 DEF call_id_matches
    <3>2. LeavesPeer
      <4>1. /\ call.role \in {"FromSip", "ToSip"} /\ call.answered \in BOOLEAN /\ PeerOfCall
            /\ spurious = {} /\ peer \in [Dialogs -> PeerStates]
        BY <3>1, CallFacts DEF DialogInv, BridgeInv, TypeOK
      <4> QED BY <2>0, <3>1, <4>1
              DEF AnswerBye, SetPeer, LeavesPeer, PeerOfCall, CalleeStates, PastTheFinal
    <3>3. finish_call
      BY <1>2, <2>1 DEF on_sip_bye
    <3> QED BY <2>0, <3>1, <3>2, <3>3, CallOver DEF TakesRequest
  <2>2. CASE ~call_id_matches(d)
    <3>1. peer[d] \notin {"leaving", "connected"}
      BY <2>2 DEF DialogInv, BridgeInv
    <3>2. UNCHANGED <<call, tasks, cdr, peer, spurious>>
      BY <1>2, <2>0, <2>2, <3>1 DEF on_sip_bye, AnswerBye, SetPeer, TypeOK
    <3> QED BY <2>0, <3>2, DialogsStay DEF TakesRequest
  <2> QED BY <2>1, <2>2
<1>3. ASSUME NEW d \in Dialogs, on_sip_cancel(d)
      PROVE  DialogInv'
  <2>0. PopsRequest /\ running /\ running' = running /\ internalQ' = internalQ
    BY <1>0, <1>3 DEF on_sip_cancel
  <2>1. CASE CancelMatches(d)
    <3>1. Busy /\ call.id = d /\ call.role = "FromSip" /\ ~call.answered
      BY <2>1 DEF CancelMatches, call_id_matches
    <3>2. Final(d, "rejected") /\ finish_call
      BY <1>3, <2>1 DEF on_sip_cancel
    <3>3. LeavesPeer
      <4>1. PeerOfCall /\ spurious = {} /\ peer \in [Dialogs -> PeerStates]
        BY <3>1, CallFacts DEF DialogInv, BridgeInv, TypeOK
      <4> QED BY <3>1, <3>2, <4>1 DEF Final, Waiting, LeavesPeer, PeerOfCall
    <3> QED BY <2>0, <3>1, <3>2, <3>3, CallOver DEF TakesRequest
  <2>2. CASE ~CancelMatches(d)
    BY <1>3, <2>0, <2>2, DialogsStay DEF on_sip_cancel, TakesRequest
  <2> QED BY <2>1, <2>2
<1> QED BY <1>1, <1>2, <1>3 DEF SipRequest

\* Internal events: the outcome of an INVITE connects its callee or ends the
\* call, a 183 goes out only before the answer.
LEMMA InternalDialog ==
    ASSUME TypeOK, TypeOK', DialogInv, InternalEvent
    PROVE  DialogInv'
<1>1. ASSUME NEW d \in Dialogs, StaleInternal(d), internalQ # << >>, running
      PROVE  DialogInv'
  BY <1>1, DialogsStay DEF StaleInternal, Pop, TakesOutcome, PopsOutcome
<1>2. ASSUME NEW d \in Dialogs, NEW e \in {"SipAnswered", "SipFailed", "RingTimeout"},
             NextInternal(e, d), Pop(internalQ)
      PROVE  /\ PopsOutcome /\ d = Head(internalQ).id /\ running
             /\ d \in OutIds /\ peer[d] \notin {"idle", "connected"}
             /\ call_id_matches(d) => /\ Busy /\ call.id = d /\ call.role = "ToSip"
                                      /\ call \in ActiveCall /\ PeerOfCall
                                      /\ peer[d] \in CalleeStates
  <2>1. internalQ # << >> /\ Head(internalQ) = [ev |-> e, id |-> d] /\ internalQ \in Seq(Internals)
    BY <1>2 DEF NextInternal, TypeOK
  <2>2. 1 \in 1..Len(internalQ) /\ internalQ[1] = [ev |-> e, id |-> d]
    BY <2>1
  <2>3. d \in OutIds /\ peer[d] \notin {"idle", "connected"}
    BY <2>2 DEF DialogInv, OutcomeInv, Dialogs
  <2>4. ASSUME call_id_matches(d)
        PROVE  /\ Busy /\ call.id = d /\ call.role = "ToSip"
               /\ call \in ActiveCall /\ PeerOfCall /\ peer[d] \in CalleeStates
    BY <2>3, <2>4, CallFacts DEF call_id_matches, PeerOfCall
  <2> QED BY <1>2, <2>1, <2>3, <2>4 DEF NextInternal, Pop, PopsOutcome
<1>3. ASSUME NEW d \in Dialogs, NEW s \in CalleeStates \cup {"rejected", "ended"}, SetPeer(d, s),
             Busy, call.id = d, call.role = "ToSip", peer[d] \in CalleeStates,
             s = "invited" => call.answered, finish_call, PopsOutcome, sipQ' = sipQ
      PROVE  DialogInv'
  <2>1. LeavesPeer
    BY <1>3 DEF SetPeer, LeavesPeer, DialogInv, BridgeInv, TypeOK, CalleeStates
  <2> QED BY <1>3, <2>1, CallOver DEF TakesOutcome
<1>4. ASSUME NEW d \in Dialogs, OnSipAnswered(d)
      PROVE  DialogInv'
  <2>0. internalQ # << >> /\ running /\ NextInternal("SipAnswered", d)
    BY <1>4 DEF OnSipAnswered, NextInternal
  <2>1. CASE call_id_matches(d) /\ Pop(internalQ) /\ SipAnswerConnects(d)
    <3>1. /\ PopsOutcome /\ d = Head(internalQ).id /\ Busy /\ call.id = d /\ call.role = "ToSip"
          /\ call \in ActiveCall
      BY <1>2, <2>0, <2>1
    <3>2. /\ UNCHANGED <<running, tasks, sipQ>> /\ SetPeer(d, "connected")
          /\ call' = [call EXCEPT !.answered = TRUE, !.media = TRUE]
          /\ cdr' = [cdr EXCEPT ![d] = "answered"]
      BY <2>1 DEF SipAnswerConnects
    <3>3. /\ call' \in ActiveCall /\ call'.id = call.id /\ call'.role = call.role
          /\ call'.answered /\ call'.listening = call.listening
      BY <3>1, <3>2 DEF ActiveCall
    <3>4. /\ spurious' = {} /\ peer'[d] = "connected"
          /\ \A c \in Dialogs : c # d => peer'[c] = peer[c]
      BY <3>2 DEF SetPeer, DialogInv, BridgeInv, TypeOK
    <3> QED BY <3>1, <3>2, <3>3, <3>4, CallAnswered
  <2>2. CASE call_id_matches(d) /\ Pop(internalQ) /\ SipAnswerFails(d)
    <3>1. PopsOutcome /\ Busy /\ call.id = d /\ call.role = "ToSip" /\ peer[d] \in CalleeStates
      BY <1>2, <2>0, <2>2
    <3> QED BY <1>3, <2>2, <3>1 DEF SipAnswerFails
  <2> QED BY <1>1, <1>4, <2>0, <2>1, <2>2 DEF OnSipAnswered
<1>5. ASSUME NEW d \in Dialogs, OnSipFailed(d)
      PROVE  DialogInv'
  <2>0. internalQ # << >> /\ running /\ NextInternal("SipFailed", d)
    BY <1>5 DEF OnSipFailed, NextInternal
  <2>1. CASE call_id_matches(d) /\ Pop(internalQ) /\ SipRejected(d)
    <3>1. PopsOutcome /\ Busy /\ call.id = d /\ call.role = "ToSip" /\ peer[d] \in CalleeStates
      BY <1>2, <2>0, <2>1
    <3> QED BY <1>3, <2>1, <3>1 DEF SipRejected
  <2>2. CASE call_id_matches(d) /\ Pop(internalQ) /\ RetryWithAuth(d)
    <3>1. /\ PopsOutcome /\ d = Head(internalQ).id /\ Busy /\ call.id = d /\ call.role = "ToSip"
          /\ call \in ActiveCall /\ d \in OutIds /\ PeerOfCall
      BY <1>2, <2>0, <2>2
    <3>2. /\ UNCHANGED <<running, cdr, sipQ>> /\ SetPeer(d, "invited")
          /\ tasks' = tasks \cup {d}
          /\ call' = [call EXCEPT !.auth_retried = TRUE]
          /\ peer[d] = "challenged"
      BY <2>2 DEF RetryWithAuth, CanRetry
    <3>3. /\ call' \in ActiveCall /\ call'.id = d /\ call'.role = "ToSip"
          /\ call'.answered = call.answered /\ call'.listening = call.listening
      BY <3>1, <3>2 DEF ActiveCall
    <3>4. /\ spurious' = spurious /\ peer'[d] = "invited"
          /\ \A c \in Dialogs : c # d => peer'[c] = peer[c]
      BY <3>2 DEF SetPeer, TypeOK
    <3>5. RequestInv'
      BY <3>2, <3>4, RequestsStay DEF DialogInv, PastTheFinal
    <3>6. OutcomeInv'
      <4>1. \A c \in OutIds : peer'[c] = peer[c] \/ peer'[c] \notin {"idle", "connected"}
        BY <3>4 DEF Dialogs
      <4> QED BY <3>1, <3>2, <3>4, <4>1, OutcomesStay DEF DialogInv
    <3>7. BridgeInv'
      <4>1. Busy' /\ PeerOfCall'
        BY <3>1, <3>3, <3>4, NoCallAssumption DEF Busy, PeerOfCall, CalleeStates
      <4>2. peer'[d] \notin CallerStates /\ d \notin SipIds
        BY <3>1, <3>4, DialogsAssumption DEF CallerStates
      <4> QED BY <3>1, <3>2, <3>3, <3>4, <4>1, <4>2
              DEF DialogInv, BridgeInv, call_id_matches, Dialogs
    <3> QED BY <3>5, <3>6, <3>7 DEF DialogInv
  <2> QED BY <1>1, <1>5, <2>0, <2>1, <2>2 DEF OnSipFailed
<1>6. ASSUME NEW d \in Dialogs, OnRingTimeout(d)
      PROVE  DialogInv'
  <2>0. internalQ # << >> /\ running /\ NextInternal("RingTimeout", d)
    BY <1>6 DEF OnRingTimeout, NextInternal
  <2>1. CASE StaleInternal(d)
    BY <1>1, <2>0, <2>1
  <2>2. CASE /\ call_id_matches(d) /\ Pop(internalQ) /\ cancel_outgoing_invite(d)
             /\ finish_call /\ sipQ' = sipQ
    <3>1. PopsOutcome /\ Busy /\ call.id = d /\ call.role = "ToSip" /\ peer[d] \in CalleeStates
      BY <1>2, <2>0, <2>2
    <3>2. \E s \in CalleeStates : SetPeer(d, s) /\ (s = "invited" => call.answered)
      BY <2>2, <3>1 DEF cancel_outgoing_invite, CalleeStates
    <3> QED BY <1>3, <2>2, <3>1, <3>2
  <2> QED BY <1>6, <2>1, <2>2 DEF OnRingTimeout
<1>7. ASSUME NEW d \in Dialogs, OnEarlyMediaAudio(d)
      PROVE  DialogInv'
  <2>0. /\ PopsOutcome /\ running
        /\ UNCHANGED <<running, tasks, cdr, sipQ>>
    BY <1>7 DEF OnEarlyMediaAudio, NextInternal, Pop, PopsOutcome
  <2>1. CASE /\ call_id_matches(d) /\ ~call.early_media /\ ~call.answered
             /\ Provisional(d) /\ call' = [call EXCEPT !.early_media = TRUE]
    <3>1. /\ Busy /\ call.id = d /\ call \in ActiveCall /\ PeerOfCall
          /\ internalQ \in Seq(Internals) /\ Head(internalQ) = [ev |-> "EarlyMediaAudio", id |-> d]
      BY <1>7, <2>1, CallFacts DEF call_id_matches, OnEarlyMediaAudio, NextInternal, TypeOK
    <3>2. d \in SipIds
      <4>1. 1 \in 1..Len(internalQ) /\ internalQ[1] = [ev |-> "EarlyMediaAudio", id |-> d]
        BY <2>0, <3>1 DEF PopsOutcome
      <4> QED BY <4>1 DEF DialogInv, OutcomeInv
    <3>3. call.role = "FromSip" /\ Waiting(d)
      BY <2>1, <3>1, <3>2, CallFacts DEF PeerOfCall, Waiting
    <3>4. UNCHANGED <<peer, spurious>>
      BY <2>1, <3>3 DEF Provisional
    <3>5. /\ call' \in ActiveCall /\ call'.id = call.id /\ call'.role = call.role
          /\ call'.answered = call.answered
      BY <2>1, <3>1 DEF ActiveCall
    <3>6. BridgeInv'
      BY <2>0, <3>1, <3>3, <3>4, <3>5, BridgeNoted
    <3>7. OutcomeInv'
      BY <2>0, <3>4, OutcomesStay DEF DialogInv
    <3> QED BY <2>0, <3>4, <3>6, <3>7 DEF DialogInv, RequestInv
  <2>2. CASE UNCHANGED <<call, peer, spurious>>
    BY <2>0, <2>2, DialogsStay DEF TakesOutcome
  <2> QED BY <1>7, <2>1, <2>2 DEF OnEarlyMediaAudio
<1> QED BY <1>4, <1>5, <1>6, <1>7 DEF InternalEvent

\* The peers: a caller's requests follow one another, a callee's outcome goes
\* to its task or to nobody.
LEMMA PeerDialog ==
    ASSUME TypeOK, TypeOK', DialogInv, NEW d \in Dialogs, Peer(d), "copies" \notin Env
    PROVE  DialogInv'
<1>0. peer \in [Dialogs -> PeerStates]
  BY DEF TypeOK
<1>1. ASSUME NEW s \in PeerStates, SetPeer(d, s)
      PROVE  /\ peer'[d] = s /\ spurious' = spurious
             /\ \A c \in Dialogs : c # d => peer'[c] = peer[c]
  BY <1>0, <1>1 DEF SetPeer
<1>2. CASE CallerInvites(d)
  <2>1. /\ d \in SipIds /\ peer[d] = "idle" /\ SetPeer(d, "inviting") /\ Send("INVITE", d)
        /\ UNCHANGED <<running, call, tasks, cdr, internalQ>>
    BY <1>2 DEF CallerInvites, Quiet
  <2>2. /\ peer'[d] = "inviting" /\ spurious' = spurious
        /\ \A c \in Dialogs : c # d => peer'[c] = peer[c]
    BY <1>1, <2>1 DEF PeerStates
  <2>3. ~Sending(d)
    BY <2>1 DEF Sending, DialogInv, RequestInv
  <2>4. RequestInv'
    BY <2>1, <2>2, <2>3, RequestSent DEF DialogInv
  <2>5. OutcomeInv'
    <3>1. \A c \in OutIds : peer'[c] = peer[c]
      BY <2>1, <2>2, DialogsAssumption DEF Dialogs
    <3> QED BY <2>1, <3>1, OutcomesStay DEF DialogInv
  <2>6. BridgeInv'
    <3>1. Busy => call.id # d
      BY <2>1, CallFacts DEF PeerOfCall, CalleeStates
    <3>2. Busy' = Busy /\ (Busy => PeerOfCall')
      BY <2>1, <2>2, <3>1, CallFacts DEF Busy, PeerOfCall
    <3>3. /\ cdr[d] \notin {"completed", "missed"} /\ peer'[d] \notin CalleeStates
      BY <2>1, <2>2 DEF DialogInv, BridgeInv, CalleeStates
    <3> QED BY <2>1, <2>2, <3>2, <3>3 DEF DialogInv, BridgeInv, call_id_matches, Dialogs, Busy
  <2> QED BY <2>4, <2>5, <2>6 DEF DialogInv
<1>3. CASE CallerCancels(d) \/ PeerHangsUp(d)
  <2>1. PICK m \in {"CANCEL", "BYE"} :
          /\ ~Sending(d) /\ Send(m, d) /\ peer[d] \notin {"idle", "inviting"}
          /\ m = "BYE" => peer[d] \in PastTheFinal
          /\ UNCHANGED <<running, call, tasks, cdr, internalQ, peer, spurious>>
    BY <1>3 DEF CallerCancels, PeerHangsUp, Quiet, PastTheFinal
  <2>2. RequestInv'
    BY <2>1, RequestSent DEF DialogInv
  <2> QED BY <2>1, <2>2 DEF DialogInv, OutcomeInv, BridgeInv, Busy, PeerOfCall, call_id_matches
<1>4. CASE CallerLeaves(d)
  <2>1. /\ d \in SipIds /\ peer[d] = "proceeding" /\ SetPeer(d, "leaving") /\ Send("BYE", d)
        /\ ~Sending(d) /\ call_id_matches(d)
        /\ UNCHANGED <<running, call, tasks, cdr, internalQ>>
    BY <1>4 DEF CallerLeaves, Quiet
  <2>2. /\ peer'[d] = "leaving" /\ spurious' = spurious
        /\ \A c \in Dialogs : c # d => peer'[c] = peer[c]
    BY <1>1, <2>1 DEF PeerStates
  <2>3. RequestInv'
    BY <2>1, <2>2, RequestSent DEF DialogInv, PastTheFinal
  <2>4. OutcomeInv'
    <3>1. \A c \in OutIds : peer'[c] = peer[c]
      BY <2>1, <2>2, DialogsAssumption DEF Dialogs
    <3> QED BY <2>1, <3>1, OutcomesStay DEF DialogInv
  <2>5. BridgeInv'
    <3>1. /\ Busy /\ call.id = d /\ call.role = "FromSip" /\ PeerOfCall /\ ~call.answered
      BY <2>1, CallFacts DEF call_id_matches, PeerOfCall
    <3>2. Busy' /\ PeerOfCall'
      BY <2>1, <2>2, <3>1 DEF Busy, PeerOfCall
    <3>3. /\ cdr[d] = "open" /\ peer'[d] \notin CalleeStates
      BY <2>2, <3>1 DEF DialogInv, BridgeInv, CalleeStates
    <3> QED BY <2>1, <2>2, <3>1, <3>2, <3>3 DEF DialogInv, BridgeInv, call_id_matches, Dialogs, Busy
  <2> QED BY <2>3, <2>4, <2>5 DEF DialogInv
<1>5. ASSUME NEW s \in {"answered", "refused", "challenged"}, NEW e \in {"SipAnswered", "SipFailed"},
             CalleeResponds(d, s, e)
      PROVE  DialogInv'
  <2>1. /\ peer[d] = "invited" /\ SetPeer(d, s)
        /\ UNCHANGED <<running, call, cdr, sipQ>>
        /\ \/ /\ d \in tasks /\ tasks' = tasks \ {d}
              /\ internalQ' = Append(internalQ, [ev |-> e, id |-> d])
           \/ UNCHANGED <<tasks, internalQ>>
    BY <1>5 DEF CalleeResponds
  <2>2. /\ peer'[d] = s /\ spurious' = spurious
        /\ \A c \in Dialogs : c # d => peer'[c] = peer[c]
    BY <1>1, <2>1 DEF PeerStates
  <2>3. RequestInv'
    BY <2>1, <2>2, RequestsStay DEF DialogInv, PastTheFinal
  <2>4. OutcomeInv'
    <3>1. \A c \in OutIds : peer'[c] = peer[c] \/ peer'[c] \notin {"idle", "connected"}
      BY <2>2 DEF Dialogs
    <3>2. CASE UNCHANGED <<tasks, internalQ>>
      BY <3>1, <3>2, OutcomesStay DEF DialogInv
    <3>3. CASE d \in tasks /\ tasks' = tasks \ {d} /\ internalQ' = Append(internalQ, [ev |-> e, id |-> d])
      BY <2>2, <3>3, OutcomeReported DEF DialogInv
    <3> QED BY <2>1, <3>2, <3>3
  <2>5. BridgeInv'
    <3>1. d \in OutIds /\ d \notin SipIds
      BY <2>1, DialogsAssumption DEF DialogInv, BridgeInv, CalleeStates
    <3>2. Busy' = Busy /\ (Busy => PeerOfCall')
      <4>1. CASE Busy /\ call.id = d
        BY <2>1, <2>2, <3>1, <4>1, CallFacts DEF Busy, PeerOfCall, CalleeStates
      <4>2. CASE ~(Busy /\ call.id = d)
        BY <2>1, <2>2, <4>2, CallFacts DEF Busy, PeerOfCall
      <4> QED BY <4>1, <4>2
    <3>3. peer'[d] \notin CallerStates \cup {"proceeding", "connected"}
      BY <2>2 DEF CallerStates
    <3> QED BY <2>1, <2>2, <3>1, <3>2, <3>3 DEF DialogInv, BridgeInv, call_id_matches, Dialogs, Busy
  <2> QED BY <2>3, <2>4, <2>5 DEF DialogInv
<1>6. CASE RingTimeout(d)
  <2>1. /\ d \in tasks /\ tasks' = tasks \ {d}
        /\ internalQ' = Append(internalQ, [ev |-> "RingTimeout", id |-> d])
        /\ UNCHANGED <<running, call, cdr, peer, spurious, sipQ>>
    BY <1>6 DEF RingTimeout
  <2>2. OutcomeInv'
    BY <2>1, OutcomeReported DEF DialogInv, OutcomeInv
  <2> QED BY <2>1, <2>2 DEF DialogInv, RequestInv, BridgeInv, Busy, PeerOfCall, call_id_matches
<1> QED BY <1>2, <1>3, <1>4, <1>5, <1>6
        DEF Peer, CallerCopy, CalleeAnswers, CalleeRefuses, CalleeChallenges

\* Every step keeps DialogInv.
LEMMA NextDialog ==
    ASSUME TypeOK, TypeOK', DialogInv, SetupInv, [Next]_vars, Env \cap {"copies", "crash"} = {}
    PROVE  DialogInv'
<1>1. CASE ModemEvent
  BY <1>1, ModemEventDialog
<1>2. CASE SipRequest
  BY <1>2, SipRequestDialog
<1>3. CASE InternalEvent
  BY <1>3, InternalDialog
<1>4. CASE check_media
  BY <1>4, EndSipSideLeaves, CallOver DEF check_media, teardown_call, TakesRequest
<1>5. CASE HearAudio
  <2>1. /\ Busy /\ call.listening /\ call \in ActiveCall /\ PeerOfCall
        /\ call.role \in {"FromSip", "ToSip"}
        /\ UNCHANGED <<running, tasks, cdr, peer, spurious, sipQ>>
        /\ call' = [call EXCEPT !.listening = FALSE]
        /\ internalQ' = Append(internalQ, [ev |-> "EarlyMediaAudio", id |-> call.id])
    BY <1>5, CallFacts DEF HearAudio
  <2>2. call.role = "FromSip" /\ call.id \in SipIds
    BY <2>1 DEF PeerOfCall
  <2>3. /\ call' \in ActiveCall /\ call'.id = call.id /\ call'.role = call.role
        /\ call'.answered = call.answered
    BY <2>1 DEF ActiveCall
  <2>4. BridgeInv'
    BY <2>1, <2>2, <2>3, BridgeNoted
  <2>5. OutcomeInv'
    BY <2>1, <2>2, AudioReported DEF DialogInv
  <2> QED BY <2>1, <2>4, <2>5 DEF DialogInv, RequestInv
<1>6. CASE Shutdown
  <2>1. CASE Busy
    BY <1>6, <2>1, EndSipSideLeaves, CallOver DEF Shutdown, teardown_call, TakesRequest
  <2>2. CASE ~Busy
    BY <1>6, <2>2, DialogsStay DEF Shutdown, TakesRequest
  <2> QED BY <2>1, <2>2
<1>7. CASE Restart
  <2>1. ~running
    BY <1>7 DEF Restart
  <2>2. ~Busy /\ ~Busy'
    BY <1>7, <2>1 DEF Restart, Busy, DialogInv, BridgeInv
  <2>3. sipQ' = << >> /\ internalQ' = << >> /\ tasks' = {} /\ UNCHANGED <<cdr, peer, spurious>>
    BY <1>7 DEF Restart
  <2> QED BY <2>2, <2>3 DEF DialogInv, BridgeInv, RequestInv, OutcomeInv, call_id_matches
<1>8. CASE Watcher \/ \E l \in Legs : Network(l)
  BY <1>8, DialogsStay DEF Watcher, Network, gwVars, TakesRequest, DialogInv, BridgeInv
<1>9. CASE \E d \in Dialogs : Peer(d)
  BY <1>9, PeerDialog
<1>10. CASE UNCHANGED vars
  BY <1>10, DialogsStay DEF vars, gwVars, TakesRequest, DialogInv, BridgeInv
<1> QED BY <1>1, <1>2, <1>3, <1>4, <1>5, <1>6, <1>7, <1>8, <1>9, <1>10 DEF Next

\* The process does not crash, no path is reused early, no INVITE is copied.
OrderlyEnv == Env \cap {"copies", "crash", "reuse"} = {}

\* The invariants hold from the start.
LEMMA DialogInit ==
    ASSUME Init
    PROVE  DialogInv /\ SetupInv
<1>1. /\ modemQ = << >> /\ sipQ = << >> /\ internalQ = << >> /\ tasks = {} /\ spurious = {}
      /\ ~Busy
      /\ \A d \in Dialogs : cdr[d] = "none" /\ peer[d] = "idle"
  BY DEF Init, LinkInit, Busy
<1> QED BY <1>1 DEF DialogInv, BridgeInv, RequestInv, OutcomeInv, SetupInv, CallerStates,
                    CalleeStates, Dialogs

(***************************************************************************)
(* The call, its SIP peer, its row in the calls table, the request and the *)
(* outcome under way agree, however the handlers, the peers, the modem's   *)
(* losses and an orderly shutdown and restart interleave.                  *)
(***************************************************************************)
THEOREM DialogInvHolds ==
    ASSUME OrderlyEnv
    PROVE  Spec => []DialogInv
<1>1. Init => DialogInv /\ SetupInv
  BY DialogInit
<1>2. TypeOK /\ TypeOK' /\ DialogInv /\ SetupInv /\ [Next]_vars => DialogInv' /\ SetupInv'
  BY NextDialog, NextSetup DEF OrderlyEnv
<1> QED BY <1>1, <1>2, TypeCorrect, PTL DEF Spec

(***************************************************************************)
(* No connected SIP dialog is forgotten: teardown_call still owes it a BYE *)
(* and its own BYE still finds the call.                                   *)
(***************************************************************************)
THEOREM NoDialogIsForgotten ==
    ASSUME OrderlyEnv
    PROVE  Spec => []NoForgottenDialog
<1>1. TypeOK /\ DialogInv => NoForgottenDialog
  <2> SUFFICES ASSUME TypeOK, DialogInv, NEW d \in Dialogs, peer[d] = "connected"
               PROVE  call_id_matches(d) /\ call.answered
    BY DEF NoForgottenDialog
  <2>1. call_id_matches(d)
    BY DEF DialogInv, BridgeInv
  <2>2. call_id_matches(d) => PeerOfCall /\ call.id = d
    BY CallFacts DEF call_id_matches
  <2> QED BY <2>1, <2>2 DEF PeerOfCall, CalleeStates
<1> QED BY <1>1, DialogInvHolds, TypeCorrect, PTL

(***************************************************************************)
(* A caller that was told 100 Trying and had no final response - whether   *)
(* it waits or its BYE is on the way - has an unanswered call of its own   *)
(* in the gateway: the answer to that BYE is the only step that finishes   *)
(* a call without one (on_sip_invite, on_sip_bye, finish_call).            *)
(***************************************************************************)
THEOREM EveryTryingIsPending ==
    ASSUME OrderlyEnv
    PROVE  Spec => []TryingIsPending
<1>1. TypeOK /\ DialogInv => TryingIsPending
  <2> SUFFICES ASSUME TypeOK, DialogInv, NEW d \in SipIds,
                      peer[d] \in {"proceeding", "leaving"}
               PROVE  call_id_matches(d) /\ call.role = "FromSip" /\ ~call.answered
    BY DEF TryingIsPending
  <2>1. call_id_matches(d)
    BY DEF DialogInv, BridgeInv, Dialogs
  <2>2. call_id_matches(d) => PeerOfCall /\ call.id = d /\ call.role \in {"FromSip", "ToSip"}
    BY CallFacts DEF call_id_matches
  <2> QED BY <2>1, <2>2 DEF PeerOfCall, CalleeStates
<1> QED BY <1>1, DialogInvHolds, TypeCorrect, PTL

(***************************************************************************)
(* No caller gets any response to its INVITE after the final one: not the  *)
(* 183 of late audio, the 180 of a late event, nor the 487 of a CANCEL     *)
(* that crossed the answer.                                                *)
(***************************************************************************)
THEOREM NothingAfterTheFinal ==
    ASSUME OrderlyEnv
    PROVE  Spec => []NoResponseAfterFinal
<1>1. DialogInv => NoResponseAfterFinal
  BY DEF DialogInv, BridgeInv, NoResponseAfterFinal
<1> QED BY <1>1, DialogInvHolds, PTL

(***************************************************************************)
(* The calls table tells the truth: only the call in progress has an open  *)
(* row, and a finished row of a caller says answered exactly when it was   *)
(* (start_call, call_answered, call_ended).                                *)
(***************************************************************************)
THEOREM CallsTableIsRight ==
    ASSUME OrderlyEnv
    PROVE  Spec => []CdrTellsTheTruth
<1>1. TypeOK /\ DialogInv => CdrTellsTheTruth
  BY CallFacts DEF DialogInv, BridgeInv, CdrTellsTheTruth, call_id_matches
<1> QED BY <1>1, DialogInvHolds, TypeCorrect, PTL

(***************************************************************************)
(* A callee is left ringing only by a call the gateway took for answered,  *)
(* and which the calls table has as answered: every other end of an offer  *)
(* sends the CANCEL (cancel_outgoing_invite).                              *)
(***************************************************************************)
THEOREM NoCalleeIsAbandoned ==
    ASSUME OrderlyEnv
    PROVE  Spec => []NoAbandonedCallee
<1>1. DialogInv => NoAbandonedCallee
  BY DEF DialogInv, BridgeInv, NoAbandonedCallee, Dialogs
<1> QED BY <1>1, DialogInvHolds, PTL
=============================================================================
