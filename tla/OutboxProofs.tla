---------------------------- MODULE OutboxProofs ----------------------------
(***************************************************************************)
(* Proofs about Outbox, for any submissions and any configuration: type    *)
(* correctness, what a submitter is told agrees with the table and the     *)
(* network, and messages are kept on the modem for their reports.          *)
(***************************************************************************)
EXTENDS Outbox, TLAPS

\* Kinds of requests do not mix.
LEMMA Disjoint == \A r \in Sms : r \notin Mms /\ r \in Requests
BY RequestsAssumption DEF Requests

----------------------------------------------------------------------------
(* Types.                                                                  *)

\* The initial state is well typed.
LEMMA InitType == Init => TypeOK
<1> SUFFICES ASSUME Init PROVE TypeOK
  OBVIOUS
<1> USE AttemptsAssumption DEF Init
<1>1. left \in [Sms -> 0..Attempts] /\ refused \in [Sms -> 0..MaxRefusals]
  OBVIOUS
<1>2. object \in [Sms -> {"none", "created", "sent"}] /\ announced \subseteq Sms
  OBVIOUS
<1>3. pc \in [Requests -> {"new"} \cup SmsSteps \cup MmsSteps \cup Over]
  OBVIOUS
<1>4. /\ verdict \in [Requests -> {"none", "ok", "unclear", "refused", "error"}]
      /\ row \in [Requests -> {"none", "sending", "sent", "failed"}]
      /\ told \in [Requests -> {0, 202, 500, 503}]
  OBVIOUS
<1> QED
  BY <1>1, <1>2, <1>3, <1>4 DEF TypeOK

\* Every step keeps the types.
LEMMA TypeStep == TypeOK /\ [Next]_vars => TypeOK'
<1> SUFFICES ASSUME TypeOK, [Next]_vars PROVE TypeOK'
  OBVIOUS
<1> USE DEF TypeOK, SmsSteps, MmsSteps, Over
<1>1. ASSUME NEW r \in Requests, Submit(r) PROVE TypeOK'
  BY <1>1 DEF Submit, Goto, Answer, world, objects
<1>2. ASSUME NEW r \in Requests, Task(r) PROVE TypeOK'
  <2> USE DEF At, Goto, Answer, world, objects
  <2>1. CASE r \in Sms /\ Create(r)
    BY <2>1 DEF Create
  <2>2. CASE r \in Sms /\ Send(r)
    BY <2>2 DEF Send
  <2>3. CASE r \in Sms /\ Record(r)
    BY <2>3, AttemptsAssumption DEF Record, delete_from_modem
  <2>4. CASE Load(r)
    BY <2>4 DEF Load
  <2>5. CASE Insert(r)
    BY <2>5 DEF Insert
  <2>6. CASE Prepare(r)
    BY <2>6 DEF Prepare
  <2>7. CASE Post(r)
    BY <2>7 DEF Post
  <2>8. CASE Settle(r)
    BY <2>8 DEF Settle
  <2> QED
    BY <1>2, <2>1, <2>2, <2>3, <2>4, <2>5, <2>6, <2>7, <2>8 DEF Task
<1>3. ASSUME NEW r \in Requests, Deadline(r) PROVE TypeOK'
  BY <1>3 DEF Deadline, Goto, world, objects
<1>4. ASSUME NEW r \in Sms, OnSmsAdded(r) PROVE TypeOK'
  BY <1>4, AttemptsAssumption DEF OnSmsAdded, delete_from_modem, world, tasks
<1>5. ASSUME NEW r \in Sms, Deleter(r) PROVE TypeOK'
  <2>1. CASE Deleted(r)
    BY <2>1, AttemptsAssumption DEF Deleted, world, tasks
  <2>2. CASE DeleteRefused(r)
    BY <2>2, AttemptsAssumption DEF DeleteRefused, world, tasks
  <2> QED
    BY <1>5, <2>1, <2>2 DEF Deleter
<1>6. CASE ModemVanishes \/ ModemReturns \/ SessionDown \/ SessionUp
  <2>1. CASE ModemVanishes
    BY <2>1 DEF ModemVanishes, tasks
  <2>2. CASE ModemReturns
    BY <2>2 DEF ModemReturns, objects, tasks
  <2>3. CASE SessionDown
    BY <2>3 DEF SessionDown, objects, tasks
  <2>4. CASE SessionUp
    BY <2>4 DEF SessionUp, tasks
  <2> QED
    BY <1>6, <2>1, <2>2, <2>3, <2>4
<1>7. CASE Restart
  <2>1. left' \in [Sms -> 0..Attempts]
    BY <1>7, AttemptsAssumption DEF Restart
  <2>2. pc' \in [Requests -> {"new"} \cup SmsSteps \cup MmsSteps \cup Over]
    BY <1>7 DEF Restart
  <2> QED
    BY <1>7, <2>1, <2>2 DEF Restart
<1>8. CASE UNCHANGED vars
  BY <1>8 DEF vars, world, objects, tasks
<1> QED
  BY <1>1, <1>2, <1>3, <1>4, <1>5, <1>6, <1>7, <1>8 DEF Next

(***************************************************************************)
(* Every variable keeps its type.                                          *)
(***************************************************************************)
THEOREM OutboxTypeCorrect == Spec => []TypeOK
BY InitType, TypeStep, PTL DEF Spec

----------------------------------------------------------------------------
(* What the submitter is told.                                             *)

\* What OutboxInv says of one submission.
TruthFor(r) ==
    /\ told[r] = 202 => Accepted(verdict[r]) /\ row[r] \notin {"sending", "failed"}
    /\ told[r] = 202 /\ r \in Mms => row[r] = "sent"
    /\ row[r] = "sent" => verdict[r] \in {"ok", "unclear"} /\ told[r] # 500
    /\ row[r] = "failed" => verdict[r] \in {"refused", "error"}

KindFor(r) ==
    /\ pc[r] \in SmsSteps => r \in Sms
    /\ pc[r] \in MmsSteps => r \in Mms

InvFor(r) == TruthFor(r) /\ KindFor(r) /\ Steps(r)

\* Every step preserves OutboxInv, submission by submission.
LEMMA OutboxStep ==
    ASSUME TypeOK, OutboxInv, [Next]_vars, NEW u \in Requests
    PROVE  InvFor(u)'
<1> USE DEF TypeOK, SmsSteps, MmsSteps, Over, InvFor, TruthFor, KindFor, Steps
<1>0. InvFor(u)
  BY DEF OutboxInv, ToldTheTruth, Kinds
\* Steps of other submissions and of none.
<1>1. ASSUME pc'[u] = pc[u], told'[u] = told[u], verdict'[u] = verdict[u], row'[u] = row[u]
      PROVE  InvFor(u)'
  BY <1>0, <1>1 DEF Accepted
<1>2. ASSUME NEW r \in Requests, Submit(r) PROVE InvFor(u)'
  <2>1. CASE r = u
    BY <1>0, <1>2, <2>1 DEF Submit, At, Goto, Answer, Requests
  <2>2. CASE r # u
    BY <1>1, <1>2, <2>2 DEF Submit, Goto, Answer
  <2> QED
    BY <2>1, <2>2
<1>3. ASSUME NEW r \in Requests, Task(r) PROVE InvFor(u)'
  <2> USE DEF At, Goto, Answer
  <2>1. CASE r # u
    <3>1. pc'[u] = pc[u] /\ told'[u] = told[u] /\ verdict'[u] = verdict[u] /\ row'[u] = row[u]
      BY <1>3, <2>1 DEF Task, Create, Send, Record, Load, Insert, Prepare, Post, Settle
    <3> QED
      BY <1>1, <3>1
  <2>2. CASE r = u /\ u \in Sms
    <3>0. u \notin Mms
      BY <2>2, Disjoint
    <3>1. CASE Create(u)
      BY <1>0, <2>2, <3>0, <3>1 DEF Create
    <3>2. CASE Send(u)
      BY <1>0, <2>2, <3>0, <3>2 DEF Send
    <3>3. CASE Record(u)
      BY <1>0, <2>2, <3>0, <3>3 DEF Record, Accepted
    <3> QED
      BY <1>3, <2>2, <3>0, <3>1, <3>2, <3>3 DEF Task
  <2>3. CASE r = u /\ u \in Mms
    <3>0. u \notin Sms
      BY <2>3, Disjoint
    <3>1. CASE Load(u)
      BY <1>0, <2>3, <3>0, <3>1 DEF Load
    <3>2. CASE Insert(u)
      BY <1>0, <2>3, <3>0, <3>2 DEF Insert
    <3>3. CASE Prepare(u)
      BY <1>0, <2>3, <3>0, <3>3 DEF Prepare
    <3>4. CASE Post(u)
      BY <1>0, <2>3, <3>0, <3>4 DEF Post
    <3>5. CASE Settle(u)
      BY <1>0, <2>3, <3>0, <3>5 DEF Settle, Accepted
    <3> QED
      BY <1>3, <2>3, <3>0, <3>1, <3>2, <3>3, <3>4, <3>5 DEF Task
  <2> QED
    BY <2>1, <2>2, <2>3 DEF Requests
<1>4. ASSUME NEW r \in Requests, Deadline(r) PROVE InvFor(u)'
  <2>1. CASE r = u
    BY <1>0, <1>4, <2>1 DEF Deadline, At, Goto, Accepted
  <2>2. CASE r # u
    BY <1>1, <1>4, <2>2 DEF Deadline, Goto
  <2> QED
    BY <2>1, <2>2
<1>5. ASSUME NEW r \in Sms, OnSmsAdded(r) \/ Deleter(r) PROVE InvFor(u)'
  BY <1>1, <1>5 DEF OnSmsAdded, Deleter, Deleted, DeleteRefused, tasks
<1>6. CASE ModemVanishes \/ ModemReturns \/ SessionDown \/ SessionUp
  BY <1>1, <1>6 DEF ModemVanishes, ModemReturns, SessionDown, SessionUp, tasks
<1>7. CASE Restart
  BY <1>0, <1>7 DEF Restart, Accepted
<1>8. CASE UNCHANGED vars
  BY <1>1, <1>8 DEF vars, tasks
<1> QED
  BY <1>2, <1>3, <1>4, <1>5, <1>6, <1>7, <1>8 DEF Next

(***************************************************************************)
(* The answer to a submission, its row and the verdict of ModemManager or  *)
(* the MMSC agree, for any number of submissions and whichever steps fail, *)
(* are dropped by a deadline or die with the process.                      *)
(***************************************************************************)
THEOREM SubmittersAreToldTheTruth == Spec => []ToldTheTruth
<1>1. Init => OutboxInv
  BY DEF Init, OutboxInv, ToldTheTruth, Kinds, Steps, SmsSteps, MmsSteps
<1>2. TypeOK /\ OutboxInv /\ [Next]_vars => OutboxInv'
  <2> SUFFICES ASSUME TypeOK, OutboxInv, [Next]_vars PROVE OutboxInv'
    OBVIOUS
  <2>1. \A u \in Requests : InvFor(u)'
    BY OutboxStep
  <2> QED
    BY <2>1 DEF OutboxInv, ToldTheTruth, Kinds, InvFor, TruthFor, KindFor
<1>3. OutboxInv => ToldTheTruth
  BY DEF OutboxInv
<1> QED
  BY <1>1, <1>2, <1>3, InitType, TypeStep, PTL DEF Spec

----------------------------------------------------------------------------
(* Delivery reports.                                                       *)

\* Nobody deletes with reports on, through every step.
LEMMA DeleterStep ==
    ASSUME TypeOK, NoDeleterWithReports, [Next]_vars
    PROVE  NoDeleterWithReports'
<1> USE DEF TypeOK, NoDeleterWithReports
\* Steps that spawn no deleter.
<1>1. ASSUME reports' = reports, left' = left PROVE NoDeleterWithReports'
  BY <1>1
\* Steps that may spawn one, if Tidies.
<1>2. ASSUME NEW r \in Sms, reports' = reports,
             left' = left \/ (Tidies /\ delete_from_modem(r))
      PROVE  NoDeleterWithReports'
  BY <1>2 DEF Tidies
<1>3. ASSUME NEW r \in Requests, Submit(r) \/ Deadline(r) PROVE NoDeleterWithReports'
  BY <1>1, <1>3 DEF Submit, Deadline, world, objects
<1>4. ASSUME NEW r \in Requests, Task(r) PROVE NoDeleterWithReports'
  <2>1. CASE r \in Sms /\ Record(r)
    BY <1>2, <2>1 DEF Record, world
  <2>2. CASE r \in Sms /\ (Create(r) \/ Send(r))
    BY <1>1, <2>2 DEF Create, Send, world
  <2>3. CASE r \in Mms /\ (Load(r) \/ Insert(r) \/ Prepare(r) \/ Post(r) \/ Settle(r))
    BY <1>1, <2>3 DEF Load, Insert, Prepare, Post, Settle, world, objects
  <2> QED
    BY <1>4, <2>1, <2>2, <2>3 DEF Task
<1>5. ASSUME NEW r \in Sms, OnSmsAdded(r) PROVE NoDeleterWithReports'
  <2>1. left' = left \/ (Tidies /\ delete_from_modem(r))
    BY <1>5 DEF OnSmsAdded
  <2> QED
    BY <1>2, <1>5, <2>1 DEF OnSmsAdded, world
<1>6. ASSUME NEW r \in Sms, Deleter(r) PROVE NoDeleterWithReports'
  <2>1. left[r] > 0 /\ reports' = reports
    BY <1>6 DEF Deleter, Deleted, DeleteRefused, world
  <2> QED
    BY <2>1
<1>7. CASE ModemVanishes \/ ModemReturns \/ SessionDown \/ SessionUp
  BY <1>1, <1>7 DEF ModemVanishes, ModemReturns, SessionDown, SessionUp, objects
<1>8. CASE Restart
  BY <1>8 DEF Restart
<1>9. CASE UNCHANGED vars
  BY <1>1, <1>9 DEF vars, world, objects
<1> QED
  BY <1>3, <1>4, <1>5, <1>6, <1>7, <1>8, <1>9 DEF Next

\* No object is sent before its task has sent it.
LEMMA SentStep ==
    ASSUME TypeOK, SentByItsTask, [Next]_vars, NEW u \in Sms
    PROVE  pc'[u] \in {"new", "create", "send"} => object'[u] # "sent"
<1> USE DEF TypeOK, SentByItsTask, Over
<1>0. u \in Requests /\ u \notin Mms
  BY Disjoint
<1>1. ASSUME pc'[u] = pc[u] \/ pc'[u] \notin {"new", "create", "send"} \/ pc[u] = "new",
             object'[u] = object[u] \/ object'[u] # "sent"
      PROVE  pc'[u] \in {"new", "create", "send"} => object'[u] # "sent"
  BY <1>1
<1>2. ASSUME NEW r \in Requests, Submit(r)
      PROVE  pc'[u] \in {"new", "create", "send"} => object'[u] # "sent"
  BY <1>0, <1>2 DEF Submit, At, Goto, Answer, objects
<1>3. ASSUME NEW r \in Sms, Create(r) \/ Send(r) \/ Record(r)
      PROVE  pc'[u] \in {"new", "create", "send"} => object'[u] # "sent"
  BY <1>0, <1>3 DEF Create, Send, Record, At, Goto, Answer
<1>4. ASSUME NEW r \in Mms, Load(r) \/ Insert(r) \/ Prepare(r) \/ Post(r) \/ Settle(r)
      PROVE  pc'[u] \in {"new", "create", "send"} => object'[u] # "sent"
  <2>1. pc'[u] = pc[u] /\ object' = object
    BY <1>0, <1>4 DEF Load, Insert, Prepare, Post, Settle, Goto, Answer, objects
  <2> QED
    BY <1>1, <2>1
<1>5. ASSUME NEW r \in Requests, Deadline(r)
      PROVE  pc'[u] \in {"new", "create", "send"} => object'[u] # "sent"
  BY <1>0, <1>1, <1>5 DEF Deadline, Goto, objects
<1>6. ASSUME NEW r \in Sms, OnSmsAdded(r) \/ Deleter(r)
      PROVE  pc'[u] \in {"new", "create", "send"} => object'[u] # "sent"
  BY <1>1, <1>6 DEF OnSmsAdded, Deleter, Deleted, DeleteRefused, tasks
<1>7. CASE ModemVanishes \/ ModemReturns \/ SessionDown \/ SessionUp
  BY <1>1, <1>7 DEF ModemVanishes, ModemReturns, SessionDown, SessionUp, tasks, objects
<1>8. CASE Restart
  BY <1>0, <1>1, <1>8 DEF Restart
<1>9. CASE UNCHANGED vars
  BY <1>1, <1>9 DEF vars, tasks, objects
<1> QED
  BY <1>2, <1>3, <1>4, <1>5, <1>6, <1>7, <1>8, <1>9 DEF Next, Task

\* With reports on, a sent object stays as long as the modem does.
LEMMA KeepStep ==
    ASSUME TypeOK, NoDeleterWithReports, SentByItsTask, [Next]_vars,
           NEW u \in Sms, object[u] = "sent", reports
    PROVE  object'[u] = "sent" \/ ~present'
<1> USE DEF TypeOK
<1>1. ASSUME NEW r \in Requests, Submit(r) \/ Deadline(r) PROVE object'[u] = "sent"
  BY <1>1 DEF Submit, Deadline, objects
<1>2. ASSUME NEW r \in Sms, Create(r) \/ Send(r) \/ Record(r) PROVE object'[u] = "sent"
  <2>1. CASE r = u
    BY <1>2, <2>1 DEF Create, Send, Record, At, SentByItsTask
  <2>2. CASE r # u
    BY <1>2, <2>2 DEF Create, Send, Record
  <2> QED
    BY <2>1, <2>2
<1>3. ASSUME NEW r \in Mms, Load(r) \/ Insert(r) \/ Prepare(r) \/ Post(r) \/ Settle(r)
      PROVE  object'[u] = "sent"
  BY <1>3 DEF Load, Insert, Prepare, Post, Settle, objects
<1>4. ASSUME NEW r \in Sms, OnSmsAdded(r) PROVE object'[u] = "sent"
  BY <1>4 DEF OnSmsAdded
<1>5. ASSUME NEW r \in Sms, Deleter(r) PROVE object'[u] = "sent"
  <2>1. left[r] = 0
    BY DEF NoDeleterWithReports
  <2> QED
    BY <1>5, <2>1 DEF Deleter, Deleted, DeleteRefused
<1>6. CASE ModemVanishes
  BY <1>6 DEF ModemVanishes
<1>7. CASE ModemReturns \/ SessionDown \/ SessionUp \/ Restart
  BY <1>7 DEF ModemReturns, SessionDown, SessionUp, Restart, objects
<1>8. CASE UNCHANGED vars
  BY <1>8 DEF vars, objects
<1> QED
  BY <1>1, <1>2, <1>3, <1>4, <1>5, <1>6, <1>7, <1>8 DEF Next, Task

(***************************************************************************)
(* With delivery reports on, no step of the gateway removes the object of  *)
(* a sent message (delete_from_modem, on_sms_added): for any submissions,  *)
(* and although the configuration may change with every restart.           *)
(***************************************************************************)
THEOREM ObjectsAreKeptForReports == Spec => KeptForReports
<1>1. Init => NoDeleterWithReports /\ SentByItsTask
  BY DEF Init, NoDeleterWithReports, SentByItsTask
<1>2. TypeOK /\ NoDeleterWithReports /\ [Next]_vars => NoDeleterWithReports'
  BY DeleterStep
<1>3. TypeOK /\ SentByItsTask /\ [Next]_vars => SentByItsTask'
  <2> SUFFICES ASSUME TypeOK, SentByItsTask, [Next]_vars PROVE SentByItsTask'
    OBVIOUS
  <2> QED
    BY SentStep DEF SentByItsTask
<1>4. TypeOK /\ NoDeleterWithReports /\ SentByItsTask /\ [Next]_vars =>
        [\A r \in Sms : object[r] = "sent" /\ reports => object'[r] = "sent" \/ ~present']_vars
  BY KeepStep
<1> QED
  BY <1>1, <1>2, <1>3, <1>4, InitType, TypeStep, PTL DEF Spec, KeptForReports
=============================================================================
