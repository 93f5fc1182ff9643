-------------------------- MODULE SipServerProofs --------------------------
(***************************************************************************)
(* Proofs about SipServer, for any number of requests: type correctness, a *)
(* request is handled once, and the 2xx of an INVITE is repeated until its *)
(* caller has it.                                                          *)
(***************************************************************************)
EXTENDS SipServer, TLAPS

\* What a handler answers is a final response.
LEMMA AnswersAreFinal == \A t \in Requests : \A r \in Answers(t) : r \in Finals
  BY DEF Answers, Finals

\* A datagram of a request is one.
LEMMA DgramType ==
    ASSUME NEW t \in Requests, NEW k \in {"request", "ack", "provisional"} \cup Finals
    PROVE  Dgram(k, t) \in Dgrams
BY DEF Dgram, Dgrams

\* Datagrams are told apart by kind and by transaction.
LEMMA DgramEq ==
    ASSUME NEW j, NEW k, NEW t, NEW u, Dgram(j, t) = Dgram(k, u)
    PROVE  j = k /\ t = u
BY DEF Dgram

\* The type invariant needs to know that only finals are about to be sent.
LEMMA TypeStep == TypeOK /\ UnsentInv /\ [Next]_vars => TypeOK' /\ UnsentInv'
<1> SUFFICES ASSUME TypeOK, UnsentInv, [Next]_vars PROVE TypeOK' /\ UnsentInv'
  OBVIOUS
<1> USE DEF TypeOK, UnsentInv, Take, TakeAndSend
<1>1. CASE Lose
  BY <1>1 DEF Lose
<1>2. ASSUME NEW t \in Requests, Step(t) PROVE TypeOK' /\ UnsentInv'
  <2>0. \A k \in {"request", "ack", "provisional"} \cup Finals : Dgram(k, t) \in Dgrams
    BY DgramType
  <2>1. CASE CallerSends(t)
    BY <2>0, <2>1 DEF CallerSends, CallerStates
  <2>2. CASE CallerResends(t)
    BY <2>0, <2>2 DEF CallerResends
  <2>3. CASE CallerGivesUp(t)
    BY <2>3 DEF CallerGivesUp, CallerStates
  <2>4. CASE CallerHearsProvisional(t)
    BY <2>4 DEF CallerHearsProvisional, CallerStates
  <2>5. ASSUME NEW r \in Finals, CallerHearsFinal(t, r) PROVE TypeOK' /\ UnsentInv'
    BY <2>0, <2>5 DEF CallerHearsFinal, CallerStates
  <2>6. CASE StartHandler(t)
    BY <2>6 DEF StartHandler, Fresh, Finals
  <2>7. CASE Replay(t)
    BY <2>0, <2>7 DEF Replay, Fresh, Finals
  <2>8. CASE RespondProvisional(t)
    BY <2>0, <2>8 DEF RespondProvisional, Finals
  <2>9. ASSUME NEW r \in Finals, RespondFinal(t, r) PROVE TypeOK' /\ UnsentInv'
    BY <2>9 DEF RespondFinal
  <2>10. CASE SendFinal(t)
    BY <2>0, <2>10 DEF SendFinal
  <2>11. CASE Repeat(t)
    BY <2>0, <2>11 DEF Repeat, Finals
  <2>12. CASE GiveUp(t)
    BY <2>12 DEF GiveUp
  <2>13. CASE ReceiveAck(t)
    BY <2>13 DEF ReceiveAck
  <2>14. CASE Expire(t)
    BY <2>14 DEF Expire
  <2> QED
    BY <1>2, <2>1, <2>2, <2>3, <2>4, <2>5, <2>6, <2>7, <2>8, <2>9, <2>10, <2>11,
       <2>12, <2>13, <2>14, AnswersAreFinal DEF Step, ReceiveRequest
<1>3. CASE UNCHANGED vars
  BY <1>3 DEF vars
<1> QED
  BY <1>1, <1>2, <1>3 DEF Next

\* The initial state is well typed.
LEMMA InitType == Init => TypeOK /\ UnsentInv
BY DEF Init, TypeOK, UnsentInv, CallerStates

(***************************************************************************)
(* Every variable keeps its type.                                          *)
(***************************************************************************)
THEOREM ServerTypeCorrect == Spec => []TypeOK
BY InitType, TypeStep, PTL DEF Spec

----------------------------------------------------------------------------
(* A request is handled once.                                              *)

\* What OnceInv says of one request.
OnceFor(u) ==
    /\ handled[u] <= 1
    /\ cache[u] # "absent" \/ u \in working => handled[u] = 1
    /\ caller[u] = "idle" => handled[u] = 0 /\ Dgram("request", u) \notin net
    /\ cache[u] = "absent" /\ handled[u] = 1 =>
         caller[u] \notin {"idle", "calling"} /\ Dgram("request", u) \notin net

\* Every step preserves OnceInv, request by request.
LEMMA OnceStep ==
    ASSUME TypeOK, UnsentInv, OnceInv, [Next]_vars, NEW u \in Requests
    PROVE  OnceFor(u)'
<1> USE DEF TypeOK, Take, TakeAndSend
<1>0. OnceFor(u) /\ handled[u] \in Nat
  BY DEF OnceInv, OnceFor
\* Steps that send no request and leave u alone.
<1>1. ASSUME handled'[u] = handled[u], cache'[u] = cache[u], caller'[u] = caller[u],
             u \in working' => u \in working,
             Dgram("request", u) \in net' => Dgram("request", u) \in net
      PROVE  OnceFor(u)'
  BY <1>0, <1>1 DEF OnceFor
<1>2. CASE Lose
  BY <1>1, <1>2 DEF Lose
<1>3. ASSUME NEW t \in Requests, Step(t) PROVE OnceFor(u)'
  <2>0. \A k : Dgram("request", u) = Dgram(k, t) => k = "request" /\ u = t
    BY DgramEq
  <2>1. CASE CallerSends(t)
    BY <1>0, <2>0, <2>1 DEF CallerSends, OnceFor
  <2>2. CASE CallerResends(t)
    BY <1>0, <2>0, <2>2 DEF CallerResends, OnceFor
  <2>3. CASE CallerGivesUp(t)
    BY <1>0, <2>3 DEF CallerGivesUp, OnceFor
  <2>4. CASE CallerHearsProvisional(t)
    BY <1>0, <2>4 DEF CallerHearsProvisional, OnceFor
  <2>5. ASSUME NEW r \in Finals, CallerHearsFinal(t, r) PROVE OnceFor(u)'
    BY <1>0, <2>0, <2>5 DEF CallerHearsFinal, OnceFor
  <2>6. CASE StartHandler(t)
    <3>1. CASE u = t
      BY <1>0, <2>6, <3>1 DEF StartHandler, Fresh, OnceFor
    <3>2. CASE u # t
      BY <1>1, <2>6, <3>2 DEF StartHandler
    <3> QED
      BY <3>1, <3>2
  <2>7. CASE Replay(t)
    <3>1. cache[t] # "request"
      BY DEF Finals
    <3> QED
      BY <1>1, <2>0, <2>7, <3>1 DEF Replay
  <2>8. CASE RespondProvisional(t)
    BY <1>0, <2>0, <2>8 DEF RespondProvisional, OnceFor
  <2>9. ASSUME NEW r \in Finals, RespondFinal(t, r) PROVE OnceFor(u)'
    BY <1>0, <2>9 DEF RespondFinal, OnceFor, Finals
  <2>10. CASE SendFinal(t)
    <3>1. cache[t] # "request"
      BY <2>10 DEF Finals
    <3> QED
      BY <1>1, <2>0, <2>10, <3>1 DEF SendFinal
  <2>11. CASE Repeat(t)
    BY <1>1, <2>0, <2>11 DEF Repeat
  <2>12. CASE GiveUp(t)
    BY <1>1, <2>12 DEF GiveUp
  <2>13. CASE ReceiveAck(t)
    BY <1>1, <2>13 DEF ReceiveAck
  <2>14. CASE Expire(t)
    BY <1>0, <2>14 DEF Expire, OnceFor
  <2> QED
    BY <1>3, <2>1, <2>2, <2>3, <2>4, <2>5, <2>6, <2>7, <2>8, <2>9, <2>10, <2>11,
       <2>12, <2>13, <2>14, AnswersAreFinal DEF Step, ReceiveRequest
<1>4. CASE UNCHANGED vars
  BY <1>1, <1>4 DEF vars
<1> QED
  BY <1>2, <1>3, <1>4 DEF Next

\* No request has been handled at first.
LEMMA OnceInit == Init => OnceInv
BY DEF Init, OnceInv

\* OnceInv is inductive.
LEMMA OnceNext == TypeOK /\ UnsentInv /\ OnceInv /\ [Next]_vars => OnceInv'
<1> SUFFICES ASSUME TypeOK, UnsentInv, OnceInv, [Next]_vars PROVE OnceInv'
  OBVIOUS
<1>1. \A u \in Requests : OnceFor(u)'
  BY OnceStep
<1> QED
  BY <1>1 DEF OnceInv, OnceFor

(***************************************************************************)
(* "a retransmitted request is never executed twice" (ServerTxn): for any  *)
(* requests, and any loss, duplication and reordering of datagrams.        *)
(***************************************************************************)
THEOREM RequestIsHandledOnce == Spec => []HandledOnce
<1>1. Init => OnceInv
  BY OnceInit
<1>2. TypeOK /\ UnsentInv /\ OnceInv /\ [Next]_vars => OnceInv'
  BY OnceNext
<1>3. OnceInv => HandledOnce
  BY DEF OnceInv, HandledOnce
<1> QED
  BY <1>1, <1>2, <1>3, InitType, TypeStep, PTL DEF Spec

----------------------------------------------------------------------------
(* The 2xx of an INVITE is repeated.                                       *)

\* What AnswerInv says of one INVITE.
AnswerFor(u) ==
    /\ Dgram("ack", u) \in net => caller[u] = "done"
    /\ cache[u] = "ok" /\ caller[u] # "done" => u \in unsent \cup repeating \cup exhausted

\* Every step preserves AnswerInv, INVITE by INVITE.
LEMMA AnswerStep ==
    ASSUME TypeOK, UnsentInv, AnswerInv, [Next]_vars, NEW u \in Invites
    PROVE  AnswerFor(u)'
<1> USE DEF TypeOK, Take, TakeAndSend
<1>0. AnswerFor(u) /\ u \in Requests
  BY DEF AnswerInv, AnswerFor, Requests
<1>1. ASSUME cache'[u] = cache[u] \/ cache'[u] # "ok", caller'[u] = caller[u],
             unsent \cup repeating \cup exhausted \subseteq unsent' \cup repeating' \cup exhausted',
             Dgram("ack", u) \in net' => Dgram("ack", u) \in net
      PROVE  AnswerFor(u)'
  BY <1>0, <1>1 DEF AnswerFor
<1>2. CASE Lose
  BY <1>1, <1>2 DEF Lose
<1>3. ASSUME NEW t \in Requests, Step(t) PROVE AnswerFor(u)'
  <2>0. \A k : Dgram("ack", u) = Dgram(k, t) => k = "ack" /\ u = t
    BY DgramEq
  <2>1. CASE CallerSends(t)
    BY <1>0, <2>0, <2>1 DEF CallerSends, AnswerFor
  <2>2. CASE CallerResends(t)
    BY <1>1, <2>0, <2>2 DEF CallerResends
  <2>3. CASE CallerGivesUp(t)
    BY <1>0, <2>3 DEF CallerGivesUp, AnswerFor
  <2>4. CASE CallerHearsProvisional(t)
    BY <1>0, <2>4 DEF CallerHearsProvisional, AnswerFor
  <2>5. ASSUME NEW r \in Finals, CallerHearsFinal(t, r) PROVE AnswerFor(u)'
    BY <1>0, <2>0, <2>5 DEF CallerHearsFinal, AnswerFor
  <2>6. CASE StartHandler(t)
    BY <1>1, <2>6 DEF StartHandler
  <2>7. CASE Replay(t)
    <3>1. cache[t] # "ack"
      BY DEF Finals
    <3> QED
      BY <1>1, <2>0, <2>7, <3>1 DEF Replay
  <2>8. CASE RespondProvisional(t)
    BY <1>1, <2>0, <2>8 DEF RespondProvisional
  <2>9. ASSUME NEW r \in Finals, RespondFinal(t, r) PROVE AnswerFor(u)'
    BY <1>0, <2>9 DEF RespondFinal, AnswerFor
  <2>10. CASE SendFinal(t)
    <3>1. cache[t] # "ack"
      BY <2>10 DEF Finals
    <3> QED
      BY <1>0, <2>0, <2>10, <3>1 DEF SendFinal, AnswerFor
  <2>11. CASE Repeat(t)
    BY <1>1, <2>0, <2>11 DEF Repeat
  <2>12. CASE GiveUp(t)
    BY <1>1, <2>12 DEF GiveUp
  <2>13. CASE ReceiveAck(t)
    BY <1>0, <2>13 DEF ReceiveAck, Confirmed, AnswerFor
  <2>14. CASE Expire(t)
    BY <1>1, <2>14 DEF Expire
  <2> QED
    BY <1>3, <2>1, <2>2, <2>3, <2>4, <2>5, <2>6, <2>7, <2>8, <2>9, <2>10, <2>11,
       <2>12, <2>13, <2>14, AnswersAreFinal DEF Step, ReceiveRequest
<1>4. CASE UNCHANGED vars
  BY <1>1, <1>4 DEF vars
<1> QED
  BY <1>2, <1>3, <1>4 DEF Next

(***************************************************************************)
(* The 2xx that answers an INVITE is repeated until its caller has it or   *)
(* the 32 s are over: for any number of INVITEs in a dialog, an ACK only   *)
(* ends the retransmission of the answer it confirms.                      *)
(***************************************************************************)
THEOREM AnswerIsAlwaysRepeated == Spec => []AnswerIsRepeated
<1>1. Init => AnswerInv
  BY DEF Init, AnswerInv, Requests
<1>2. TypeOK /\ UnsentInv /\ AnswerInv /\ [Next]_vars => AnswerInv'
  <2> SUFFICES ASSUME TypeOK, UnsentInv, AnswerInv, [Next]_vars PROVE AnswerInv'
    OBVIOUS
  <2>1. \A u \in Invites : AnswerFor(u)'
    BY AnswerStep
  <2> QED
    BY <2>1 DEF AnswerInv, AnswerFor
<1>3. AnswerInv => AnswerIsRepeated
  BY DEF AnswerInv, AnswerIsRepeated
<1> QED
  BY <1>1, <1>2, <1>3, InitType, TypeStep, PTL DEF Spec

----------------------------------------------------------------------------
(* The core implements AtMostOnce.                                         *)

\* What EndedInv says of one request.
EndedFor(u) == Answered(u) => handled[u] = 1 /\ u \notin working

\* Every step preserves EndedInv, request by request.
LEMMA EndedStep ==
    ASSUME TypeOK, UnsentInv, OnceInv, EndedInv, [Next]_vars, NEW u \in Requests
    PROVE  EndedFor(u)'
<1> USE DEF TypeOK, Take, TakeAndSend
<1>0. EndedFor(u) /\ OnceFor(u)
  BY DEF EndedInv, EndedFor, OnceInv, OnceFor
\* Steps that start no handler of u and make no answer of their own.
<1>1. ASSUME handled'[u] = handled[u], u \in working' => u \in working,
             Answered(u)' => Answered(u)
      PROVE  EndedFor(u)'
  BY <1>0, <1>1 DEF EndedFor
<1>2. ASSUME handled'[u] = handled[u], u \in working' => u \in working,
             cache'[u] = cache[u] \/ cache'[u] \notin Finals,
             u \in unsent' \cup repeating' => u \in unsent \cup repeating,
             caller'[u] = "done" => caller[u] = "done",
             \A r \in Finals : Dgram(r, u) \in net' => Dgram(r, u) \in net
      PROVE  EndedFor(u)'
  BY <1>1, <1>2 DEF Answered
<1>3. CASE Lose
  BY <1>2, <1>3 DEF Lose
<1>4. ASSUME NEW t \in Requests, Step(t) PROVE EndedFor(u)'
  <2>0. \A k, r : Dgram(r, u) = Dgram(k, t) => k = r /\ u = t
    BY DgramEq
  <2>1. CASE CallerSends(t)
    <3>1. "request" \notin Finals
      BY DEF Finals
    <3> QED
      BY <1>2, <2>0, <2>1, <3>1 DEF CallerSends
  <2>2. CASE CallerResends(t)
    <3>1. "request" \notin Finals
      BY DEF Finals
    <3> QED
      BY <1>2, <2>0, <2>2, <3>1 DEF CallerResends
  <2>3. CASE CallerGivesUp(t)
    BY <1>2, <2>3 DEF CallerGivesUp
  <2>4. CASE CallerHearsProvisional(t)
    BY <1>2, <2>4 DEF CallerHearsProvisional
  <2>5. ASSUME NEW r \in Finals, CallerHearsFinal(t, r) PROVE EndedFor(u)'
    <3>1. "ack" \notin Finals
      BY DEF Finals
    <3>2. u = t => Answered(u)
      BY <2>5 DEF CallerHearsFinal, Answered
    <3>3. Answered(u)' => Answered(u)
      BY <2>0, <2>5, <3>1, <3>2 DEF CallerHearsFinal, Answered
    <3> QED
      BY <1>1, <2>5, <3>3 DEF CallerHearsFinal
  <2>6. CASE StartHandler(t)
    <3>1. CASE u = t
      <4>1. handled[u] \in Nat /\ cache[u] = "absent" /\ Dgram("request", u) \in net
        BY <2>6, <3>1 DEF StartHandler, Fresh
      <4>2. handled[u] = 0
        BY <1>0, <4>1 DEF OnceFor
      <4>3. ~Answered(u)
        BY <1>0, <4>2 DEF EndedFor
      <4>4. ~Answered(u)'
        BY <2>6, <3>1, <4>3 DEF StartHandler, Answered, Finals
      <4> QED
        BY <4>4 DEF EndedFor
    <3>2. CASE u # t
      BY <1>2, <2>6, <3>2 DEF StartHandler
    <3> QED
      BY <3>1, <3>2
  <2>7. CASE Replay(t)
    <3>1. ASSUME NEW r \in Finals, Dgram(r, u) \in net', Dgram(r, u) \notin net
          PROVE  cache[u] \in Finals
      BY <2>0, <2>7, <3>1 DEF Replay
    <3>2. Answered(u)' => Answered(u)
      BY <2>7, <3>1 DEF Replay, Answered
    <3> QED
      BY <1>1, <2>7, <3>2 DEF Replay
  <2>8. CASE RespondProvisional(t)
    <3>1. "provisional" \notin Finals
      BY DEF Finals
    <3> QED
      BY <1>2, <2>0, <2>8, <3>1 DEF RespondProvisional
  <2>9. ASSUME NEW r \in Finals, RespondFinal(t, r) PROVE EndedFor(u)'
    <3>1. CASE u = t
      <4>1. handled[u] = 1
        BY <1>0, <2>9, <3>1 DEF RespondFinal, OnceFor
      <4> QED
        BY <2>9, <3>1, <4>1 DEF RespondFinal, EndedFor
    <3>2. CASE u # t
      BY <1>2, <2>9, <3>2 DEF RespondFinal
    <3> QED
      BY <3>1, <3>2
  <2>10. CASE SendFinal(t)
    <3>1. u = t => Answered(u)
      BY <2>10 DEF SendFinal, Answered
    <3>2. Answered(u)' => Answered(u)
      BY <2>0, <2>10, <3>1 DEF SendFinal, Answered
    <3> QED
      BY <1>1, <2>10, <3>2 DEF SendFinal
  <2>11. CASE Repeat(t)
    <3>1. u = t => Answered(u)
      BY <2>11 DEF Repeat, Answered
    <3>2. Answered(u)' => Answered(u)
      BY <2>0, <2>11, <3>1 DEF Repeat, Answered
    <3> QED
      BY <1>1, <2>11, <3>2 DEF Repeat
  <2>12. CASE GiveUp(t)
    BY <1>2, <2>12 DEF GiveUp
  <2>13. CASE ReceiveAck(t)
    BY <1>2, <2>13 DEF ReceiveAck
  <2>14. CASE Expire(t)
    BY <1>2, <2>14 DEF Expire, Finals
  <2> QED
    BY <1>4, <2>1, <2>2, <2>3, <2>4, <2>5, <2>6, <2>7, <2>8, <2>9, <2>10, <2>11,
       <2>12, <2>13, <2>14, AnswersAreFinal DEF Step, ReceiveRequest
<1>5. CASE UNCHANGED vars
  BY <1>2, <1>5 DEF vars
<1> QED
  BY <1>3, <1>4, <1>5 DEF Next

\* A step of the core and its network is a step of the service or none: an
\* asker asks, a handler starts or ends, an asker learns; the rest is hidden.
LEMMA ServiceStep ==
    ASSUME TypeOK, OnceInv, EndedInv, [Next]_vars
    PROVE  [Service!Next]_(Service!vars)
<1> DEFINE Asked == {t \in Requests : caller[t] # "idle"}
           Learned == {t \in Requests : caller[t] = "done"}
<1> USE DEF TypeOK, Take, TakeAndSend
\* Hidden steps.
<1>1. ASSUME handled' = handled, working' = working, Asked' = Asked, Learned' = Learned
      PROVE  UNCHANGED Service!vars
  BY <1>1 DEF Service!vars
<1>2. ASSUME UNCHANGED <<caller, handled, working>> PROVE UNCHANGED Service!vars
  BY <1>1, <1>2
<1>3. ASSUME NEW t \in Requests, Step(t) PROVE [Service!Next]_(Service!vars)
  <2>1. CASE CallerSends(t)
    <3>1. Asked' = Asked \cup {t} /\ t \notin Asked /\ Learned' = Learned
      BY <2>1 DEF CallerSends
    <3>2. Service!Ask(t)
      BY <2>1, <3>1 DEF CallerSends, Service!Ask
    <3> QED
      BY <3>2 DEF Service!Next
  <2>2. CASE CallerResends(t)
    BY <1>2, <2>2 DEF CallerResends
  <2>3. CASE CallerGivesUp(t)
    <3>1. Asked' = Asked /\ Learned' = Learned
      BY <2>3 DEF CallerGivesUp
    <3> QED
      BY <1>1, <2>3, <3>1 DEF CallerGivesUp
  <2>4. CASE CallerHearsProvisional(t)
    <3>1. Asked' = Asked /\ Learned' = Learned
      BY <2>4 DEF CallerHearsProvisional
    <3> QED
      BY <1>1, <2>4, <3>1 DEF CallerHearsProvisional
  <2>5. ASSUME NEW r \in Finals, CallerHearsFinal(t, r)
        PROVE  [Service!Next]_(Service!vars)
    <3>1. Answered(t)
      BY <2>5 DEF CallerHearsFinal, Answered
    <3>2. handled[t] = 1 /\ t \notin working
      BY <3>1 DEF EndedInv
    <3>3. caller[t] # "idle"
      BY <3>2 DEF OnceInv
    <3>4. Asked' = Asked /\ Learned' = Learned \cup {t}
      BY <2>5, <3>3 DEF CallerHearsFinal
    <3>5. CASE t \in Learned
      BY <1>1, <2>5, <3>4, <3>5 DEF CallerHearsFinal
    <3>6. CASE t \notin Learned
      <4>1. Service!Learn(t)
        BY <2>5, <3>2, <3>4, <3>6 DEF CallerHearsFinal, Service!Learn
      <4> QED
        BY <4>1 DEF Service!Next
    <3> QED
      BY <3>5, <3>6
  <2>6. CASE StartHandler(t)
    <3>1. cache[t] = "absent" /\ Dgram("request", t) \in net /\ handled[t] \in Nat
      BY <2>6 DEF StartHandler, Fresh
    <3>2. handled[t] = 0 /\ t \in Asked
      BY <3>1 DEF OnceInv
    <3>3. handled' = [handled EXCEPT ![t] = 1]
      BY <2>6, <3>2 DEF StartHandler
    <3>4. Service!Execute(t)
      BY <2>6, <3>2, <3>3 DEF StartHandler, Service!Execute
    <3> QED
      BY <3>4 DEF Service!Next
  <2>7. CASE Replay(t)
    BY <1>2, <2>7 DEF Replay
  <2>8. CASE RespondProvisional(t)
    BY <1>2, <2>8 DEF RespondProvisional
  <2>9. ASSUME NEW r \in Finals, RespondFinal(t, r) PROVE [Service!Next]_(Service!vars)
    <3>1. Service!Finish(t)
      BY <2>9 DEF RespondFinal, Service!Finish
    <3> QED
      BY <3>1 DEF Service!Next
  <2>10. CASE SendFinal(t)
    BY <1>2, <2>10 DEF SendFinal
  <2>11. CASE Repeat(t)
    BY <1>2, <2>11 DEF Repeat
  <2>12. CASE GiveUp(t)
    BY <1>2, <2>12 DEF GiveUp
  <2>13. CASE ReceiveAck(t)
    BY <1>2, <2>13 DEF ReceiveAck
  <2>14. CASE Expire(t)
    BY <1>2, <2>14 DEF Expire
  <2> QED
    BY <1>3, <2>1, <2>2, <2>3, <2>4, <2>5, <2>6, <2>7, <2>8, <2>9, <2>10, <2>11,
       <2>12, <2>13, <2>14, AnswersAreFinal DEF Step, ReceiveRequest
<1>4. CASE Lose
  BY <1>2, <1>4 DEF Lose
<1>5. CASE UNCHANGED vars
  BY <1>2, <1>5 DEF vars
<1> QED
  BY <1>3, <1>4, <1>5 DEF Next

(***************************************************************************)
(* The server transactions (claim_txn, on_request, respond) implement      *)
(* AtMostOnce for any requests: whatever the network does, a request is    *)
(* executed at most once, and a caller learns of an answer only from an    *)
(* execution that has ended.                                               *)
(***************************************************************************)
THEOREM CoreImplementsService == Spec => ImplementsService
<1>1. Init => Service!Init
  BY DEF Init, Service!Init
<1>2. Init => EndedInv
  BY DEF Init, EndedInv, Answered, Finals
<1>3. TypeOK /\ UnsentInv /\ OnceInv /\ EndedInv /\ [Next]_vars => EndedInv'
  <2> SUFFICES ASSUME TypeOK, UnsentInv, OnceInv, EndedInv, [Next]_vars PROVE EndedInv'
    OBVIOUS
  <2>1. \A u \in Requests : EndedFor(u)'
    BY EndedStep
  <2> QED
    BY <2>1 DEF EndedInv, EndedFor
<1>4. TypeOK /\ OnceInv /\ EndedInv /\ [Next]_vars => [Service!Next]_(Service!vars)
  BY ServiceStep
<1> QED
  BY <1>1, <1>2, <1>3, <1>4, InitType, TypeStep, OnceInit, OnceNext,
     PTL DEF Spec, ImplementsService, Service!Spec
=============================================================================
