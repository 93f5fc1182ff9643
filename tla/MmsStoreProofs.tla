--------------------------- MODULE MmsStoreProofs ---------------------------
(***************************************************************************)
(* Proofs about MmsStore: the type invariant, and that what is reported as *)
(* received, or acknowledged to the MMSC, has all its parts.               *)
(***************************************************************************)
EXTENDS MmsStore, TLAPS

(***************************************************************************)
(* Every variable keeps its type: the loop of store_retrieved counts no    *)
(* part the message does not have.                                         *)
(***************************************************************************)
THEOREM MmsTypeCorrect == Spec => []TypeOK
<1> USE PartsAssumption
<1> USE DEF TypeOK, Configs, Copies, Statuses, Running, Stages, Parts
<1>1. Init => TypeOK
  BY DEF Init
<1>2. TypeOK /\ [Next]_vars => TypeOK'
  <2> SUFFICES ASSUME TypeOK, [Next]_vars
               PROVE TypeOK'
    OBVIOUS
  <2>1. CASE UNCHANGED vars
    BY <2>1 DEF vars
  <2>2. ASSUME NEW m \in Mms, Notify(m) PROVE TypeOK'
    BY <2>2 DEF Notify, Goto, Tasks
  <2>3. ASSUME NEW m \in Mms, retrieve_stored(m) PROVE TypeOK'
    BY <2>3 DEF retrieve_stored, Goto, Tasks
  <2>4. ASSUME NEW m \in Mms, Expire(m) PROVE TypeOK'
    BY <2>4 DEF Expire
  <2>5. ASSUME Restart PROVE TypeOK'
    BY <2>5 DEF Restart
  <2>6. ASSUME NEW k \in Tasks, NEW m \in Mms, Step(k, m) PROVE TypeOK'
    <3>1. CASE Insert(k, m)
      BY <3>1 DEF Insert, Goto, End
    <3>2. CASE Duplicate(k, m)
      BY <3>2 DEF Duplicate, Goto, End
    <3>3. CASE notify_resp(k, m)
      BY <3>3 DEF notify_resp, End
    <3>4. CASE Fetch(k, m)
      BY <3>4 DEF Fetch, Goto
    <3>5. CASE StorePart(k, m)
      BY <3>5 DEF StorePart, Stored, At
    <3>6. CASE Finish(k, m)
      BY <3>6 DEF Finish, Goto
    <3>7. CASE Acknowledge(k, m)
      BY <3>7 DEF Acknowledge, End
    <3>8. CASE RetrieveFails(k, m)
      BY <3>8 DEF RetrieveFails, Goto
    <3>9. CASE MarkFailed(k, m)
      BY <3>9 DEF MarkFailed, End
    <3>10. CASE GiveUp(k, m)
      BY <3>10 DEF GiveUp, End
    <3>11. CASE Deadline(k, m)
      BY <3>11 DEF Deadline, End
    <3> QED
      BY <2>6, <3>1, <3>2, <3>3, <3>4, <3>5, <3>6, <3>7, <3>8, <3>9, <3>10, <3>11 DEF Step
  <2> QED
    BY <2>1, <2>2, <2>3, <2>4, <2>5, <2>6 DEF Next
<1> QED
  BY <1>1, <1>2, PTL DEF Spec

----------------------------------------------------------------------------

(***************************************************************************)
(* The invariant behind both: a task has really stored the parts it has    *)
(* counted, whatever the other tasks on the same message do.               *)
(***************************************************************************)
THEOREM StoreInvariant == Spec => []StoreInv
<1> USE PartsAssumption
<1> USE DEF StoreInv, ReceivedIsComplete, AcknowledgedIsKept, Progress, Parts
<1>1. Init => StoreInv
  BY DEF Init, At
<1>2. TypeOK /\ StoreInv /\ [Next]_vars => StoreInv'
  <2> SUFFICES ASSUME TypeOK, StoreInv, [Next]_vars
               PROVE StoreInv'
    OBVIOUS
  <2> USE DEF TypeOK, Copies, Statuses, Running, Stages, At
  <2>1. CASE UNCHANGED vars
    BY <2>1 DEF vars
  <2>2. ASSUME NEW m \in Mms, Notify(m) PROVE StoreInv'
    BY <2>2 DEF Notify, Goto, Tasks
  <2>3. ASSUME NEW m \in Mms, retrieve_stored(m) PROVE StoreInv'
    BY <2>3 DEF retrieve_stored, Goto, Tasks
  <2>4. ASSUME NEW m \in Mms, Expire(m) PROVE StoreInv'
    BY <2>4 DEF Expire
  <2>5. ASSUME Restart PROVE StoreInv'
    BY <2>5 DEF Restart
  <2>6. ASSUME NEW k \in Tasks, NEW m \in Mms, Step(k, m) PROVE StoreInv'
    <3>1. CASE Insert(k, m)
      BY <3>1 DEF Insert, Goto, End
    <3>2. CASE Duplicate(k, m)
      BY <3>2 DEF Duplicate, Goto, End
    <3>3. CASE notify_resp(k, m)
      BY <3>3 DEF notify_resp, End
    <3>4. CASE Fetch(k, m)
      BY <3>4 DEF Fetch, Goto
    <3>5. CASE StorePart(k, m)
      <4>1. task[k].stored \in 0..LastPart /\ task[k].stored + 1 \in Parts
        BY <3>5 DEF StorePart
      <4>2. /\ attached'[m] = attached[m] \cup {task[k].stored + 1}
            /\ \A n \in Mms : attached[n] = Parts => attached'[n] = Parts
            /\ \A n \in Mms : attached[n] \subseteq attached'[n]
        BY <3>5, <4>1 DEF StorePart
      <4>3. ReceivedIsComplete' /\ AcknowledgedIsKept'
        BY <3>5, <4>2 DEF StorePart
      <4>4. Progress'
        <5> SUFFICES ASSUME NEW j \in Tasks, NEW n \in Mms
                     PROVE  /\ At(j, n, "store")' => (1..task[j].stored)' \subseteq attached'[n]
                            /\ At(j, n, "ack")' => attached'[n] = Parts
          OBVIOUS
        <5>1. CASE j # k
          BY <3>5, <4>2, <5>1 DEF StorePart, Stored
        <5>2. CASE j = k /\ n = m
          <6>1. task'[k] = [mms |-> m, at |-> "store", stored |-> task[k].stored + 1]
            BY <3>5 DEF StorePart, Stored
          <6>2. 1..(task[k].stored + 1) = (1..task[k].stored) \cup {task[k].stored + 1}
            BY <4>1
          <6>3. 1..task[k].stored \subseteq attached[m]
            BY <3>5 DEF StorePart
          <6> QED
            BY <4>2, <5>2, <6>1, <6>2, <6>3
        <5>3. CASE j = k /\ n # m
          BY <3>5, <5>3 DEF StorePart, Stored
        <5> QED
          BY <5>1, <5>2, <5>3
      <4> QED
        BY <4>3, <4>4
    <3>6. CASE Finish(k, m)
      BY <3>6 DEF Finish, Goto
    <3>7. CASE Acknowledge(k, m)
      BY <3>7 DEF Acknowledge, End
    <3>8. CASE RetrieveFails(k, m)
      BY <3>8 DEF RetrieveFails, Goto
    <3>9. CASE MarkFailed(k, m)
      BY <3>9 DEF MarkFailed, End
    <3>10. CASE GiveUp(k, m)
      BY <3>10 DEF GiveUp, End
    <3>11. CASE Deadline(k, m)
      BY <3>11 DEF Deadline, End
    <3> QED
      BY <2>6, <3>1, <3>2, <3>3, <3>4, <3>5, <3>6, <3>7, <3>8, <3>9, <3>10, <3>11 DEF Step
  <2> QED
    BY <2>1, <2>2, <2>3, <2>4, <2>5, <2>6 DEF Next
<1> QED
  BY <1>1, <1>2, MmsTypeCorrect, PTL DEF Spec

(***************************************************************************)
(* A message that is listed as received has all its parts, for any number  *)
(* of messages, parts and tasks, with crashes between any two steps.       *)
(***************************************************************************)
THEOREM ReceivedMessagesAreComplete == Spec => []ReceivedIsComplete
<1>1. StoreInv => ReceivedIsComplete
  BY DEF StoreInv
<1> QED
  BY <1>1, StoreInvariant, PTL

(***************************************************************************)
(* The MMSC is told to drop its copy only of a message whose parts are all *)
(* in the attachments table, and they stay there.                          *)
(***************************************************************************)
THEOREM AcknowledgedMessagesAreKept == Spec => []AcknowledgedIsKept
<1>1. StoreInv => AcknowledgedIsKept
  BY DEF StoreInv
<1> QED
  BY <1>1, StoreInvariant, PTL
=============================================================================
