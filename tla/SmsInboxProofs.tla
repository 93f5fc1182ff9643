-------------------------- MODULE SmsInboxProofs ---------------------------
(***************************************************************************)
(* Type correctness of SmsInbox, and: no text message is lost, for any     *)
(* number of messages, paths and faults, as long as ModemManager does not  *)
(* hand out a path twice and no two text messages are alike.               *)
(***************************************************************************)
EXTENDS SmsInbox, TLAPS

\* A retry that is set up counts up to the limit.
LEMMA AssemblyType ==
    ASSUME NEW p \in Paths, NEW attempt \in 0..Attempts
    PROVE  Assembly(p, attempt) \subseteq [path : Paths, attempt : 1..Attempts]
BY BoundsAssumption DEF Assembly

\* The row of a message is one.
LEMMA RowType ==
    ASSUME NEW m \in Messages, NEW p \in Paths
    PROVE  Row(m, p) \in Rows
BY BoundsAssumption, MessagesAssumption
   DEF Row, Rows, ExternalIds, incoming_sms_id, transaction_id, Paths

\* insert_message keeps the table a table.
LEMMA InsertType ==
    ASSUME NEW row \in Rows, db \in Seq(Rows), insert_message(row)
    PROVE  db' \in Seq(Rows)
BY DEF insert_message

\* on_sms_added preserves the type of what it touches.
LEMMA SmsAddedType ==
    ASSUME TypeOK, NEW p \in Paths, NEW attempt \in 0..Attempts,
           NEW others \in SUBSET timers, on_sms_added(p, attempt, others)
    PROVE  /\ timers' \in SUBSET [path : Paths, attempt : 1..Attempts]
           /\ pushes' \in SUBSET [path : Paths, msg : Messages]
           /\ deleters' \in SUBSET Paths
           /\ db' \in Seq(Rows)
<1> USE DEF TypeOK
<1>1. CASE ~Readable(p)
  BY <1>1 DEF on_sms_added
<1>2. CASE Readable(p) /\ object[p] \notin whole
  BY <1>2, AssemblyType DEF on_sms_added
<1>3. CASE Readable(p) /\ object[p] \in whole /\ object[p].push
  <2>1. object[p] \in Messages
    BY <1>3 DEF Readable
  <2> QED
    BY <1>3, <2>1 DEF on_sms_added, handle_mms_push
<1>4. CASE Readable(p) /\ object[p] \in whole /\ ~object[p].push
  <2>1. object[p] \in Messages
    BY <1>4 DEF Readable
  <2>2. Row(object[p], p) \in Rows
    BY <2>1, RowType
  <2>3. insert_message(Row(object[p], p)) => db' \in Seq(Rows)
    BY <2>2, InsertType
  <2> QED
    BY <1>4, <2>3 DEF on_sms_added, handle_text_sms, StoreFails
<1> QED
  BY <1>1, <1>2, <1>3, <1>4

\* The events of the queue are Events.
LEMMA EventType ==
    /\ Up \in Events
    /\ Down \in Events
    /\ \A p \in Paths : SmsAdded(p) \in Events
BY BoundsAssumption DEF Up, Down, SmsAdded, Events, Paths

\* Every step preserves the types.
LEMMA TypeStep == TypeOK /\ [Next]_vars => TypeOK'
<1> SUFFICES ASSUME TypeOK, [Next]_vars PROVE TypeOK'
  OBVIOUS
<1> USE DEF TypeOK, worldVars, watchVars, taskVars
<1>1. ASSUME NEW m \in Messages, NetDelivers(m) PROVE TypeOK'
  <2>1. nextPath \in Paths /\ nextPath' \in 1..(MaxPath + 1)
    BY <1>1, BoundsAssumption DEF NetDelivers, Paths
  <2> QED
    BY <1>1, <2>1 DEF NetDelivers
<1>2. ASSUME NEW m \in Messages, PartArrives(m) PROVE TypeOK'
  BY <1>2 DEF PartArrives
<1>3. CASE ModemVanishes
  BY <1>3 DEF ModemVanishes
<1>4. CASE ModemReturns
  <2> DEFINE Numbered(next, new) ==
               /\ object' = [p \in Paths |-> IF p \in DOMAIN new THEN new[p] ELSE NoMessage]
               /\ nextPath' = next
  <2>1. PICK first \in {nextPath} \cup (IF "mm_restart" \in Env THEN {1} ELSE {}) :
          \E next \in first..(MaxPath + 1) :
          \E new \in [first..(next - 1) -> sim] : Numbered(next, new)
    BY <1>4 DEF ModemReturns
  <2>2. PICK next \in first..(MaxPath + 1) :
          \E new \in [first..(next - 1) -> sim] : Numbered(next, new)
    BY <2>1
  <2>3. PICK new \in [first..(next - 1) -> sim] : Numbered(next, new)
    BY <2>2
  <2>4. object' \in [Paths -> Messages \cup {NoMessage}]
    BY <2>3
  <2>5. nextPath' \in 1..(MaxPath + 1)
    BY <2>3, BoundsAssumption
  <2> QED
    BY <1>4, <2>4, <2>5 DEF ModemReturns
<1>5. CASE SessionUp
  BY <1>5, EventType DEF SessionUp
<1>6. CASE Subscribe
  BY <1>6 DEF Subscribe
<1>7. CASE ListSms
  BY <1>7 DEF ListSms
<1>8. CASE SessionDown
  BY <1>8, EventType DEF SessionDown
<1>9. ASSUME NEW p \in Paths, AnnounceListed(p) PROVE TypeOK'
  BY <1>9, EventType DEF AnnounceListed
<1>10. ASSUME NEW p \in Paths, Forward(p) PROVE TypeOK'
  BY <1>10, EventType DEF Forward
<1>11. CASE OnUp
  BY <1>11 DEF OnUp, NextEvent
<1>12. CASE OnDown
  <2>1. modem' \in BOOLEAN
    BY <1>12, Zenon DEF OnDown
  <2>2. queue' \in Seq(Events)
    BY <1>12 DEF OnDown, NextEvent
  <2> QED
    BY <1>12, <2>1, <2>2 DEF OnDown
<1>13. ASSUME NEW p \in Paths, OnSmsAdded(p) PROVE TypeOK'
  <2>1. 0 \in 0..Attempts
    BY BoundsAssumption
  <2>2. on_sms_added(p, 0, timers)
    BY <1>13 DEF OnSmsAdded
  <2>3. /\ timers' \in SUBSET [path : Paths, attempt : 1..Attempts]
        /\ pushes' \in SUBSET [path : Paths, msg : Messages]
        /\ deleters' \in SUBSET Paths
        /\ db' \in Seq(Rows)
    BY <2>1, <2>2, SmsAddedType
  <2>4. queue' \in Seq(Events)
    BY <1>13 DEF OnSmsAdded, NextEvent
  <2> QED
    BY <1>13, <2>3, <2>4 DEF OnSmsAdded
<1>14. ASSUME NEW t \in timers, OnSmsRetry(t) PROVE TypeOK'
  <2>1. t.path \in Paths /\ t.attempt \in 0..Attempts
    BY BoundsAssumption
  <2>2. on_sms_added(t.path, t.attempt, timers \ {t})
    BY <1>14 DEF OnSmsRetry
  <2>3. /\ timers' \in SUBSET [path : Paths, attempt : 1..Attempts]
        /\ pushes' \in SUBSET [path : Paths, msg : Messages]
        /\ deleters' \in SUBSET Paths
        /\ db' \in Seq(Rows)
    BY <2>1, <2>2, SmsAddedType
  <2> QED
    BY <1>14, <2>3 DEF OnSmsRetry
<1>15. ASSUME NEW x \in pushes, PushTask(x) PROVE TypeOK'
  <2>1. x.path \in Paths /\ Row(x.msg, x.path) \in Rows
    BY RowType
  <2>2. db' \in Seq(Rows)
    BY <1>15, <2>1, InsertType DEF PushTask
  <2> QED
    BY <1>15, <2>1, <2>2 DEF PushTask
<1>16. ASSUME NEW p \in Paths, delete_from_modem(p) PROVE TypeOK'
  BY <1>16 DEF delete_from_modem
<1>17. ASSUME NEW p \in Paths, DeleteRefused(p) PROVE TypeOK'
  BY <1>17 DEF DeleteRefused
<1>18. CASE Restart
  <2>1. modem' \in BOOLEAN
    BY <1>18, Zenon DEF Restart
  <2>2. queue' \in Seq(Events)
    BY <1>18 DEF Restart
  <2> QED
    BY <1>18, <2>1, <2>2 DEF Restart
<1>19. CASE UNCHANGED vars
  BY <1>19 DEF vars
<1> QED
  BY <1>1, <1>2, <1>3, <1>4, <1>5, <1>6, <1>7, <1>8, <1>9, <1>10, <1>11, <1>12,
     <1>13, <1>14, <1>15, <1>16, <1>17, <1>18, <1>19
  DEF Next, Watcher, Loop

(***************************************************************************)
(* Every variable keeps its type, whatever the messages and the faults.    *)
(***************************************************************************)
THEOREM InboxTypeCorrect == Spec => []TypeOK
<1>1. Init => TypeOK
  <2> SUFFICES ASSUME Init PROVE TypeOK
    OBVIOUS
  <2>1. present \in BOOLEAN /\ modem \in BOOLEAN
    BY Zenon DEF Init
  <2>2. queue \in Seq(Events) /\ db \in Seq(Rows)
    BY DEF Init
  <2>3. nextPath \in 1..(MaxPath + 1)
    BY BoundsAssumption DEF Init
  <2>4. object \in [Paths -> Messages \cup {NoMessage}]
    BY DEF Init
  <2> QED
    BY <2>1, <2>2, <2>3, <2>4 DEF Init, TypeOK
<1> QED
  BY <1>1, TypeStep, PTL DEF Spec

----------------------------------------------------------------------------
(* No text message is lost.                                                *)

\* A message that is stored stays stored.
LEMMA StoredStays ==
    ASSUME db \in Seq(Rows), NEW row \in Rows, insert_message(row), NEW m, Stored(m)
    PROVE  Stored(m)'
BY DEF insert_message, Stored

\* A text message that insert_message has seen is stored, as the row just
\* written or as the row it was compared with.
LEMMA InsertStores ==
    ASSUME db \in Seq(Rows), Unlike, RowsTell, NEW m \in Messages, ~m.push, NEW p \in Paths,
           insert_message(Row(m, p))
    PROVE  Stored(m)'
<1>0. Row(m, p) \in Rows
  BY RowType
<1>1. CASE ~Known(Row(m, p))
  BY <1>0, <1>1 DEF insert_message, Stored, Row
<1>2. CASE Known(Row(m, p))
  <2>1. PICK i \in 1..Len(db) :
          /\ db[i].kind = "sms"
          /\ \/ db[i].external_id = incoming_sms_id(m, p)
             \/ /\ m.stamp # NoStamp
                /\ db[i].msg.stamp = m.stamp
                /\ db[i].msg.text = m.text
    BY <1>2 DEF Known, Row
  <2>a. db[i] \in Rows
    OBVIOUS
  <2>b. db[i].msg \in Messages
    BY <2>a DEF Rows
  <2>c. ~db[i].msg.push
    BY <2>1, Zenon DEF RowsTell
  <2>2. db[i].msg \in Messages /\ ~db[i].msg.push
    BY <2>b, <2>c
  <2>3. CASE db[i].external_id = incoming_sms_id(m, p)
    <3>1. /\ db[i].msg.stamp = m.stamp
          /\ db[i].msg.text = m.text
          /\ db[i].msg.data = m.data
      BY <2>1, <2>3 DEF RowsTell, incoming_sms_id
    <3>2. db[i].msg = m
      BY <2>2, <3>1, MessagesAssumption
    <3> QED
      BY <1>2, <3>2 DEF insert_message, Stored
  <2>4. CASE /\ m.stamp # NoStamp
             /\ db[i].msg.stamp = m.stamp
             /\ db[i].msg.text = m.text
    <3>1. db[i].msg = m
      BY <2>2, <2>4 DEF Unlike
    <3> QED
      BY <1>2, <3>1 DEF insert_message, Stored
  <2> QED
    BY <2>1, <2>3, <2>4
<1> QED
  BY <1>1, <1>2

\* Rows stay truthful.
LEMMA RowsTellStep ==
    ASSUME db \in Seq(Rows), RowsTell, NEW m \in Messages, NEW p \in Paths,
           insert_message(Row(m, p))
    PROVE  RowsTell'
<1>0. Row(m, p) \in Rows
  BY RowType
<1>1. Row(m, p).kind = "sms" =>
        /\ ~Row(m, p).msg.push
        /\ Row(m, p).external_id.stamp = Row(m, p).msg.stamp
        /\ Row(m, p).external_id.text = Row(m, p).msg.text
        /\ Row(m, p).external_id.data = Row(m, p).msg.data
  BY DEF Row, incoming_sms_id
<1> DEFINE row == Row(m, p)
<1> HIDE DEF row
<1>2. CASE Known(row)
  BY <1>2 DEF insert_message, RowsTell, row
<1>3. CASE ~Known(row)
  <2>1. db' = Append(db, row)
    BY <1>3 DEF insert_message, row
  <2>2. Len(db') = Len(db) + 1 /\ db'[Len(db) + 1] = row
    BY <1>0, <2>1 DEF row
  <2>3. \A i \in 1..Len(db) : db'[i] = db[i]
    BY <1>0, <2>1 DEF row
  <2> SUFFICES ASSUME NEW i \in 1..Len(db'), db'[i].kind = "sms"
               PROVE  /\ ~db'[i].msg.push
                      /\ db'[i].external_id.stamp = db'[i].msg.stamp
                      /\ db'[i].external_id.text = db'[i].msg.text
                      /\ db'[i].external_id.data = db'[i].msg.data
    BY DEF RowsTell
  <2>4. CASE i \in 1..Len(db)
    BY <2>3, <2>4, Zenon DEF RowsTell
  <2>5. CASE i = Len(db) + 1
    BY <1>1, <2>2, <2>5, Zenon DEF row
  <2> QED
    BY <2>2, <2>4, <2>5
<1> QED
  BY <1>2, <1>3

\* A step that leaves the modem alone and stores at most the row of a message
\* it puts a deleter on, or of a push, keeps the invariant.
LEMMA SmsAddedStep ==
    ASSUME TypeOK, InboxInv, Unlike, NEW p \in Paths, NEW attempt, NEW others,
           on_sms_added(p, attempt, others), UNCHANGED <<worldVars, erased>>
    PROVE  InboxInv'
<1> USE DEF TypeOK, worldVars
<1>1. CASE UNCHANGED <<pushes, deleters, db>>
  BY <1>1 DEF InboxInv, NothingLost, RowsTell, PathsAreFresh, DeletersAreSafe,
              PushesAreSafe, Stored
<1>2. ASSUME Readable(p), object[p].push, handle_mms_push(p) PROVE InboxInv'
  <2>1. p < nextPath
    BY <1>2 DEF Readable, InboxInv, PathsAreFresh
  <2>2. NothingLost' /\ RowsTell' /\ PathsAreFresh' /\ DeletersAreSafe'
    BY <1>2 DEF handle_mms_push, InboxInv, NothingLost, RowsTell, PathsAreFresh,
                DeletersAreSafe, Stored
  <2>3. PushesAreSafe'
    <3> SUFFICES ASSUME NEW x \in pushes'
                 PROVE  x.path < nextPath /\ x.msg.push /\ object[x.path] \in {x.msg, NoMessage}
      BY DEF PushesAreSafe
    <3>1. CASE x \in pushes
      BY <3>1, Zenon DEF InboxInv, PushesAreSafe
    <3>2. CASE x = [path |-> p, msg |-> object[p]]
      BY <1>2, <2>1, <3>2
    <3> QED
      BY <1>2, <3>1, <3>2 DEF handle_mms_push
  <2> QED
    BY <2>2, <2>3 DEF InboxInv
<1>3. ASSUME Readable(p), ~object[p].push, insert_message(Row(object[p], p)),
             deleters' = deleters \cup {p}, UNCHANGED pushes
      PROVE  InboxInv'
  <2>1. p < nextPath /\ object[p] \in Messages
    BY <1>3 DEF Readable, InboxInv, PathsAreFresh
  <2>2. Row(object[p], p) \in Rows
    BY <2>1, RowType
  <2>3. \A m : Stored(m) => Stored(m)'
    BY <1>3, <2>2, StoredStays
  <2>4. Stored(object[p])'
    BY <1>3, <2>1, InsertStores DEF InboxInv
  <2>5. RowsTell'
    BY <1>3, <2>1, RowsTellStep DEF InboxInv
  <2>6. NothingLost'
    BY <2>3 DEF InboxInv, NothingLost
  <2>7. PathsAreFresh' /\ PushesAreSafe'
    BY <1>3 DEF InboxInv, PathsAreFresh, PushesAreSafe
  <2>8. DeletersAreSafe'
    BY <1>3, <2>1, <2>3, <2>4 DEF InboxInv, DeletersAreSafe
  <2> QED
    BY <2>5, <2>6, <2>7, <2>8 DEF InboxInv
<1> QED
  BY <1>1, <1>2, <1>3 DEF on_sms_added, handle_text_sms, StoreFails

\* Every step preserves InboxInv.
LEMMA InboxStep ==
    ASSUME TypeOK, InboxInv, Unlike, "mm_restart" \notin Env, [Next]_vars
    PROVE  InboxInv'
<1> USE DEF TypeOK, worldVars, watchVars, taskVars
\* Steps that touch neither the modem, the table nor the tasks.
<1>0. ASSUME UNCHANGED <<object, nextPath, pushes, deleters, db, erased>> PROVE InboxInv'
  BY <1>0 DEF InboxInv, NothingLost, RowsTell, PathsAreFresh, DeletersAreSafe,
              PushesAreSafe, Stored
<1>1. ASSUME NEW m \in Messages, NetDelivers(m) PROVE InboxInv'
  <2>1. NothingLost' /\ RowsTell'
    BY <1>1 DEF NetDelivers, InboxInv, NothingLost, RowsTell, Stored
  <2>2. nextPath \in Nat /\ nextPath' = nextPath + 1
    BY <1>1 DEF NetDelivers
  <2>3. \A p \in Paths : p # nextPath => object'[p] = object[p]
    BY <1>1 DEF NetDelivers
  <2>4. PathsAreFresh'
    BY <2>2, <2>3 DEF InboxInv, PathsAreFresh, Paths
  <2>5. DeletersAreSafe'
    <3> SUFFICES ASSUME NEW p \in deleters'
                 PROVE  /\ p < nextPath'
                        /\ (object[p] # NoMessage /\ ~object[p].push => Stored(object[p]))'
      BY DEF DeletersAreSafe
    <3>1. p \in deleters /\ p \in Paths /\ p < nextPath
      BY <1>1 DEF NetDelivers, InboxInv, DeletersAreSafe
    <3>2. object'[p] = object[p] /\ p < nextPath'
      BY <2>2, <2>3, <3>1 DEF Paths
    <3>3. object[p] # NoMessage /\ ~object[p].push => Stored(object[p])
      BY <3>1, Zenon DEF InboxInv, DeletersAreSafe
    <3>4. db' = db
      BY <1>1 DEF NetDelivers
    <3> QED
      BY <3>2, <3>3, <3>4 DEF Stored
  <2>6. PushesAreSafe'
    <3> SUFFICES ASSUME NEW x \in pushes'
                 PROVE  /\ x.path < nextPath'
                        /\ x.msg.push
                        /\ object'[x.path] \in {x.msg, NoMessage}
      BY DEF PushesAreSafe
    <3>1. x \in pushes /\ x.path \in Paths
      BY <1>1 DEF NetDelivers
    <3>2. x.path < nextPath /\ x.msg.push /\ object[x.path] \in {x.msg, NoMessage}
      BY <3>1, Zenon DEF InboxInv, PushesAreSafe
    <3>3. object'[x.path] = object[x.path] /\ x.path < nextPath'
      BY <2>2, <2>3, <3>1, <3>2 DEF Paths
    <3> QED
      BY <3>2, <3>3
  <2> QED
    BY <2>1, <2>4, <2>5, <2>6 DEF InboxInv
<1>2. ASSUME NEW m \in Messages, PartArrives(m) PROVE InboxInv'
  BY <1>0, <1>2 DEF PartArrives
<1>3. CASE ModemVanishes
  <2>1. \A p \in Paths : object'[p] = NoMessage
    BY <1>3 DEF ModemVanishes
  <2>2. NothingLost' /\ RowsTell' /\ PathsAreFresh'
    BY <1>3, <2>1 DEF ModemVanishes, InboxInv, NothingLost, RowsTell, PathsAreFresh, Stored
  <2>3. DeletersAreSafe'
    BY <1>3, <2>1 DEF ModemVanishes, InboxInv, DeletersAreSafe
  <2>4. PushesAreSafe'
    BY <1>3, <2>1 DEF ModemVanishes, InboxInv, PushesAreSafe
  <2> QED
    BY <2>2, <2>3, <2>4 DEF InboxInv
<1>4. CASE ModemReturns
  <2> DEFINE Numbered(next, new) ==
               /\ object' = [p \in Paths |-> IF p \in DOMAIN new THEN new[p] ELSE NoMessage]
               /\ nextPath' = next
  <2>1. PICK next \in nextPath..(MaxPath + 1) :
          \E new \in [nextPath..(next - 1) -> sim] : Numbered(next, new)
    BY <1>4 DEF ModemReturns
  <2>2. PICK new \in [nextPath..(next - 1) -> sim] : Numbered(next, new)
    BY <2>1
  <2>3. nextPath <= nextPath' /\ nextPath' \in Nat
    BY <2>2
  <2>4. \A p \in Paths : object'[p] # NoMessage => nextPath <= p /\ p < nextPath'
    <3> SUFFICES ASSUME NEW p \in Paths, object'[p] # NoMessage
                 PROVE  nextPath <= p /\ p < nextPath'
      OBVIOUS
    <3>1. p \in nextPath..(next - 1)
      BY <2>2
    <3>2. p \in Nat
      BY DEF Paths
    <3> QED
      BY <2>2, <2>3, <3>1, <3>2
  <2>5. NothingLost' /\ RowsTell'
    BY <1>4 DEF ModemReturns, InboxInv, NothingLost, RowsTell, Stored
  <2>6. PathsAreFresh'
    BY <2>4 DEF PathsAreFresh
  <2>7. DeletersAreSafe'
    <3>1. deleters' = deleters
      BY <1>4 DEF ModemReturns
    <3>2. \A p \in deleters : p \in Paths /\ p < nextPath
      BY DEF InboxInv, DeletersAreSafe
    <3>3. \A p \in deleters : object'[p] = NoMessage /\ p < nextPath'
      <4> SUFFICES ASSUME NEW p \in deleters PROVE object'[p] = NoMessage /\ p < nextPath'
        OBVIOUS
      <4>1. p \in Nat /\ p < nextPath /\ nextPath \in Nat
        BY <3>2 DEF Paths
      <4> QED
        BY <2>3, <2>4, <3>2, <4>1
    <3> QED
      BY <3>1, <3>3 DEF DeletersAreSafe
  <2>8. PushesAreSafe'
    <3>1. pushes' = pushes
      BY <1>4 DEF ModemReturns
    <3>2. \A x \in pushes : x.path \in Paths
      OBVIOUS
    <3>3. \A x \in pushes : x.path < nextPath /\ x.msg.push
      BY Zenon DEF InboxInv, PushesAreSafe
    <3>4. \A x \in pushes : object'[x.path] = NoMessage /\ x.path < nextPath'
      <4> SUFFICES ASSUME NEW x \in pushes
                   PROVE  object'[x.path] = NoMessage /\ x.path < nextPath'
        OBVIOUS
      <4>1. x.path \in Nat /\ x.path < nextPath /\ nextPath \in Nat
        BY <3>2, <3>3 DEF Paths
      <4> QED
        BY <2>3, <2>4, <3>2, <4>1
    <3> QED
      BY <3>1, <3>3, <3>4 DEF PushesAreSafe
  <2> QED
    BY <2>5, <2>6, <2>7, <2>8 DEF InboxInv
<1>5. ASSUME NEW p \in Paths, OnSmsAdded(p) PROVE InboxInv'
  BY <1>5, SmsAddedStep DEF OnSmsAdded
<1>6. ASSUME NEW t \in timers, OnSmsRetry(t) PROVE InboxInv'
  BY <1>6, SmsAddedStep DEF OnSmsRetry
<1>7. ASSUME NEW x \in pushes, PushTask(x) PROVE InboxInv'
  <2>1. x.path \in Paths /\ x.msg \in Messages /\ Row(x.msg, x.path) \in Rows
    BY RowType
  <2>2. x.path < nextPath /\ x.msg.push /\ object[x.path] \in {x.msg, NoMessage}
    BY <1>7, Zenon DEF InboxInv, PushesAreSafe
  <2>3. RowsTell'
    <3>1. CASE insert_message(Row(x.msg, x.path))
      BY <2>1, <3>1, RowsTellStep DEF InboxInv
    <3>2. CASE db' = db
      BY <3>2 DEF InboxInv, RowsTell
    <3> QED
      BY <1>7, <3>1, <3>2 DEF PushTask
  <2>4. \A m : Stored(m) => Stored(m)'
    <3>1. CASE insert_message(Row(x.msg, x.path))
      BY <2>1, <3>1, StoredStays
    <3>2. CASE db' = db
      BY <3>2 DEF Stored
    <3> QED
      BY <1>7, <3>1, <3>2 DEF PushTask
  <2>5. NothingLost' /\ PathsAreFresh'
    BY <1>7, <2>4 DEF PushTask, InboxInv, NothingLost, PathsAreFresh
  <2>6. PushesAreSafe'
    BY <1>7 DEF PushTask, InboxInv, PushesAreSafe
  <2>7. DeletersAreSafe'
    BY <1>7, <2>2, <2>4 DEF PushTask, InboxInv, DeletersAreSafe
  <2> QED
    BY <2>3, <2>5, <2>6, <2>7 DEF InboxInv
<1>8. ASSUME NEW p \in Paths, delete_from_modem(p) PROVE InboxInv'
  <2>1. \A q \in Paths : object'[q] \in {object[q], NoMessage}
    BY <1>8 DEF delete_from_modem
  <2>2. ~object[p].push => Stored(object[p])
    BY <1>8 DEF delete_from_modem, InboxInv, DeletersAreSafe
  <2>3. NothingLost' /\ RowsTell'
    BY <1>8, <2>2 DEF delete_from_modem, InboxInv, NothingLost, RowsTell, Stored
  <2>4. PathsAreFresh'
    BY <1>8, <2>1 DEF delete_from_modem, InboxInv, PathsAreFresh
  <2>5. DeletersAreSafe'
    BY <1>8, <2>1 DEF delete_from_modem, InboxInv, DeletersAreSafe, Stored
  <2>6. PushesAreSafe'
    BY <1>8, <2>1 DEF delete_from_modem, InboxInv, PushesAreSafe
  <2> QED
    BY <2>3, <2>4, <2>5, <2>6 DEF InboxInv
<1>9. ASSUME NEW p \in Paths, DeleteRefused(p) PROVE InboxInv'
  BY <1>9 DEF DeleteRefused, InboxInv, NothingLost, RowsTell, PathsAreFresh,
              DeletersAreSafe, PushesAreSafe, Stored
<1>10. CASE Restart
  BY <1>10 DEF Restart, InboxInv, NothingLost, RowsTell, PathsAreFresh,
               DeletersAreSafe, PushesAreSafe, Stored
<1>11. CASE Watcher
  BY <1>0, <1>11 DEF Watcher, SessionUp, Subscribe, ListSms, SessionDown, AnnounceListed, Forward
<1>12. CASE OnUp \/ OnDown
  BY <1>0, <1>12 DEF OnUp, OnDown
<1>13. CASE UNCHANGED vars
  BY <1>0, <1>13 DEF vars
<1> QED
  BY <1>1, <1>2, <1>3, <1>4, <1>5, <1>6, <1>7, <1>8, <1>9, <1>10, <1>11, <1>12, <1>13
  DEF Next, Loop

(***************************************************************************)
(* "They are deleted from the modem/SIM only after the database write      *)
(* succeeds" (README): for any messages, faults and crashes, provided that *)
(* ModemManager does not restart its numbering under a pending deletion    *)
(* and no two text messages share sender, timestamp and text.              *)
(***************************************************************************)
THEOREM NothingIsLost ==
    ASSUME Unlike, "mm_restart" \notin Env
    PROVE  Spec => []NothingLost
<1>1. Init => InboxInv
  BY DEF Init, InboxInv, NothingLost, RowsTell, PathsAreFresh, DeletersAreSafe, PushesAreSafe
<1>2. TypeOK /\ InboxInv /\ [Next]_vars => InboxInv'
  BY InboxStep
<1>3. InboxInv => NothingLost
  BY DEF InboxInv
<1> QED
  BY <1>1, <1>2, <1>3, InboxTypeCorrect, PTL DEF Spec

----------------------------------------------------------------------------
(* No stamped message is stored twice.                                     *)

\* The table a message is in is the one for its sort.
KindTells ==
    \A i \in 1..Len(db) : db[i].kind = IF db[i].msg.push THEN "mms" ELSE "sms"

\* A message of which insert_message has a row is known to it under any path:
\* sender, timestamp and text are compared beside the external id.
LEMMA StampedIsKnown ==
    ASSUME KindTells, NEW m \in Messages, NEW p \in Paths, m.stamp # NoStamp, Stored(m)
    PROVE  Known(Row(m, p))
<1>1. PICK i \in 1..Len(db) : db[i].msg = m
  BY DEF Stored
<1>2. db[i].kind = IF m.push THEN "mms" ELSE "sms"
  BY <1>1, Zenon DEF KindTells
<1>3. Row(m, p).msg = m /\ Row(m, p).kind = IF m.push THEN "mms" ELSE "sms"
  BY DEF Row
<1> QED
  BY <1>1, <1>2, <1>3 DEF Known

\* What the table has once, insert_message does not put there again.
LEMMA InsertOnce ==
    ASSUME db \in Seq(Rows), KindTells, StoredOnce, NEW m \in Messages, NEW p \in Paths,
           insert_message(Row(m, p))
    PROVE  KindTells' /\ StoredOnce'
<1> DEFINE row == Row(m, p)
<1>1. /\ row \in Rows /\ row.msg = m
      /\ row.kind = IF m.push THEN "mms" ELSE "sms"
  BY RowType DEF Row
<1>2. m.stamp # NoStamp /\ Stored(m) => Known(row)
  BY StampedIsKnown
<1>3. insert_message(row)
  OBVIOUS
<1> HIDE DEF row
<1>4. CASE Known(row)
  BY <1>3, <1>4 DEF insert_message, KindTells, StoredOnce
<1>5. CASE ~Known(row)
  <2>1. /\ Len(db) \in Nat /\ Len(db') = Len(db) + 1 /\ db'[Len(db) + 1] = row
        /\ \A i \in 1..Len(db) : db'[i] = db[i]
    BY <1>1, <1>3, <1>5 DEF insert_message
  <2>2. \A i \in 1..Len(db') : i \in 1..Len(db) \/ i = Len(db) + 1
    BY <2>1
  <2>3. KindTells'
    <3> SUFFICES ASSUME NEW i \in 1..Len(db')
                 PROVE  db'[i].kind = IF db'[i].msg.push THEN "mms" ELSE "sms"
      BY DEF KindTells
    <3>1. CASE i \in 1..Len(db)
      BY <2>1, <3>1 DEF KindTells
    <3>2. CASE i = Len(db) + 1
      BY <1>1, <2>1, <3>2
    <3> QED
      BY <2>2, <3>1, <3>2
  <2>4. \A i \in 1..Len(db) : ~(db[i].msg = m /\ m.stamp # NoStamp)
    BY <1>2, <1>5 DEF Stored
  <2>5. StoredOnce'
    <3> SUFFICES ASSUME NEW i \in 1..Len(db'), NEW j \in 1..Len(db'),
                        db'[i].msg = db'[j].msg, db'[i].msg.stamp # NoStamp
                 PROVE  i = j
      BY DEF StoredOnce
    <3>1. CASE i \in 1..Len(db) /\ j \in 1..Len(db)
      BY <2>1, <3>1 DEF StoredOnce
    <3>2. CASE i \in 1..Len(db) /\ j = Len(db) + 1
      BY <1>1, <2>1, <2>4, <3>2
    <3>3. CASE i = Len(db) + 1 /\ j \in 1..Len(db)
      BY <1>1, <2>1, <2>4, <3>3
    <3> QED
      BY <2>2, <3>1, <3>2, <3>3
  <2> QED
    BY <2>3, <2>5
<1> QED
  BY <1>4, <1>5

\* Rows are only ever written by handle_text_sms and by the task of a push.
LEMMA WhoWrites ==
    ASSUME TypeOK, [Next]_vars
    PROVE  \/ UNCHANGED db
           \/ \E m \in Messages, p \in Paths : insert_message(Row(m, p))
<1> USE DEF TypeOK
<1>1. ASSUME NEW p \in Paths, NEW attempt, NEW others, on_sms_added(p, attempt, others)
      PROVE  UNCHANGED db \/ \E m \in Messages : insert_message(Row(m, p))
  <2>1. CASE Readable(p) /\ insert_message(Row(object[p], p))
    BY <2>1 DEF Readable
  <2> QED
    BY <1>1, <2>1 DEF on_sms_added, handle_mms_push, handle_text_sms, StoreFails
<1>2. CASE \E p \in Paths : OnSmsAdded(p)
  BY <1>1, <1>2 DEF OnSmsAdded
<1>3. CASE \E t \in timers : OnSmsRetry(t)
  BY <1>1, <1>3 DEF OnSmsRetry
<1>4. CASE \E x \in pushes : PushTask(x)
  BY <1>4 DEF PushTask
<1> QED
  BY <1>2, <1>3, <1>4
  DEF Next, Watcher, Loop, vars, NetDelivers, PartArrives, ModemVanishes, ModemReturns,
      SessionUp, Subscribe, ListSms, SessionDown, AnnounceListed, Forward, OnUp, OnDown,
      delete_from_modem, DeleteRefused, Restart

(***************************************************************************)
(* A message with a timestamp of the network is in the table once at most, *)
(* whatever the messages and the faults: although it is announced again    *)
(* after a restart of the gateway, of ModemManager or of the modem, under  *)
(* any path, and whatever else looks like it (insert_message).             *)
(***************************************************************************)
THEOREM StampedIsStoredOnce == Spec => []StoredOnce
<1>1. Init => KindTells /\ StoredOnce
  BY DEF Init, KindTells, StoredOnce
<1>2. TypeOK /\ KindTells /\ StoredOnce /\ [Next]_vars => (KindTells /\ StoredOnce)'
  <2> SUFFICES ASSUME TypeOK, KindTells, StoredOnce, [Next]_vars
               PROVE  KindTells' /\ StoredOnce'
    OBVIOUS
  <2>1. CASE UNCHANGED db
    BY <2>1 DEF KindTells, StoredOnce
  <2>2. CASE \E m \in Messages, p \in Paths : insert_message(Row(m, p))
    BY <2>2, InsertOnce DEF TypeOK
  <2> QED
    BY <2>1, <2>2, WhoWrites
<1> QED
  BY <1>1, <1>2, InboxTypeCorrect, PTL DEF Spec

----------------------------------------------------------------------------
(* No step lets go of a message that is not stored.                        *)

\* What Tail and Append leave where.
LEMMA TailAt ==
    ASSUME NEW q \in Seq(Events), q # << >>
    PROVE  /\ Len(q) \in Nat \ {0}
           /\ Len(Tail(q)) = Len(q) - 1
           /\ Head(q) = q[1]
           /\ \A i \in 1..(Len(q) - 1) : Tail(q)[i] = q[i + 1]
OBVIOUS

LEMMA AppendAt ==
    ASSUME NEW q \in Seq(Events), NEW e \in Events
    PROVE  /\ Len(q) \in Nat
           /\ Len(Append(q, e)) = Len(q) + 1
           /\ Append(q, e)[Len(q) + 1] = e
           /\ \A i \in 1..Len(q) : Append(q, e)[i] = q[i]
OBVIOUS

\* An event of one sort is none of another.
LEMMA EventsDiffer ==
    /\ Up # Down
    /\ \A p \in Paths : SmsAdded(p) # Up /\ SmsAdded(p) # Down
    /\ \A p, q \in Paths : SmsAdded(p) = SmsAdded(q) => p = q
BY DEF Up, Down, SmsAdded

\* Paths are handed out from the counter on, which may itself have restarted.
LEMMA PathsStep ==
    ASSUME TypeOK, PathsAreFresh, [Next]_vars
    PROVE  PathsAreFresh'
<1> USE DEF TypeOK, worldVars, watchVars, taskVars
<1>1. CASE UNCHANGED <<object, nextPath>>
  BY <1>1 DEF PathsAreFresh
<1>2. ASSUME NEW m \in Messages, NetDelivers(m) PROVE PathsAreFresh'
  <2>1. nextPath \in Nat /\ nextPath' = nextPath + 1
    BY <1>2 DEF NetDelivers
  <2>2. \A p \in Paths : p # nextPath => object'[p] = object[p]
    BY <1>2 DEF NetDelivers
  <2> QED
    BY <2>1, <2>2 DEF PathsAreFresh, Paths
<1>3. CASE ModemVanishes
  BY <1>3 DEF ModemVanishes, PathsAreFresh
<1>4. CASE ModemReturns
  <2> DEFINE Numbered(next, new) ==
               /\ object' = [p \in Paths |-> IF p \in DOMAIN new THEN new[p] ELSE NoMessage]
               /\ nextPath' = next
  <2>1. PICK first \in {nextPath} \cup (IF "mm_restart" \in Env THEN {1} ELSE {}) :
          \E next \in first..(MaxPath + 1) :
          \E new \in [first..(next - 1) -> sim] : Numbered(next, new)
    BY <1>4 DEF ModemReturns
  <2>2. PICK next \in first..(MaxPath + 1) :
          \E new \in [first..(next - 1) -> sim] : Numbered(next, new)
    BY <2>1
  <2>3. PICK new \in [first..(next - 1) -> sim] : Numbered(next, new)
    BY <2>2
  <2>4. \A p \in Paths : object'[p] # NoMessage => p \in first..(next - 1)
    BY <2>3
  <2>5. first \in Nat /\ next \in Nat
    BY <2>1
  <2> QED
    BY <2>3, <2>4, <2>5 DEF PathsAreFresh
<1>5. ASSUME NEW p \in Paths, delete_from_modem(p) PROVE PathsAreFresh'
  BY <1>5 DEF delete_from_modem, PathsAreFresh
<1> QED
  BY <1>1, <1>2, <1>3, <1>4, <1>5
  DEF Next, Watcher, Loop, vars, PartArrives, SessionUp, Subscribe, ListSms, SessionDown,
      AnnounceListed, Forward, OnUp, OnDown, OnSmsAdded, OnSmsRetry, PushTask,
      DeleteRefused, Restart

\* A modem that is there shows all it has stored.
LEMMA ShownStep ==
    ASSUME TypeOK, PathsAreFresh, SimIsShown, [Next]_vars
    PROVE  SimIsShown'
<1> USE DEF TypeOK, worldVars, watchVars, taskVars
<1>1. CASE UNCHANGED <<sim, object, present>>
  BY <1>1 DEF SimIsShown
<1>2. ASSUME NEW m \in Messages, NetDelivers(m) PROVE SimIsShown'
  <2>1. nextPath \in Paths /\ object'[nextPath] = m
    BY <1>2 DEF NetDelivers, Paths
  <2>2. \A p \in Paths : p # nextPath => object'[p] = object[p]
    BY <1>2 DEF NetDelivers
  <2>3. object[nextPath] = NoMessage
    BY <2>1 DEF PathsAreFresh, Paths
  <2>4. \A n \in sim : \E p \in Paths : object'[p] = n
    BY <1>2, <2>2, <2>3, NoMessageAssumption DEF NetDelivers, SimIsShown
  <2> QED
    BY <1>2, <2>1, <2>4 DEF NetDelivers, SimIsShown
<1>3. CASE ModemVanishes
  BY <1>3 DEF ModemVanishes, SimIsShown
<1>4. CASE ModemReturns
  <2> DEFINE Numbered(new) ==
               /\ \A m \in sim : \E p \in DOMAIN new : new[p] = m
               /\ object' = [p \in Paths |-> IF p \in DOMAIN new THEN new[p] ELSE NoMessage]
  <2>1. PICK first \in {nextPath} \cup (IF "mm_restart" \in Env THEN {1} ELSE {}) :
          \E next \in first..(MaxPath + 1) :
          \E new \in [first..(next - 1) -> sim] : Numbered(new)
    BY <1>4 DEF ModemReturns
  <2>2. PICK next \in first..(MaxPath + 1) :
          \E new \in [first..(next - 1) -> sim] : Numbered(new)
    BY <2>1
  <2>3. PICK new \in [first..(next - 1) -> sim] : Numbered(new)
    BY <2>2
  <2>4. first \in Nat /\ 1 <= first /\ next \in Nat /\ next - 1 <= MaxPath
    BY <2>1, <2>2, BoundsAssumption
  <2>5. DOMAIN new = first..(next - 1) /\ DOMAIN new \subseteq Paths
    BY <2>3, <2>4, BoundsAssumption DEF Paths
  <2>6. \A p \in DOMAIN new : object'[p] = new[p]
    BY <2>3, <2>5
  <2>7. \A m \in sim : \E p \in Paths : object'[p] = m
    BY <2>3, <2>5, <2>6
  <2> QED
    BY <1>4, <2>7 DEF ModemReturns, SimIsShown
<1>5. ASSUME NEW p \in Paths, delete_from_modem(p) PROVE SimIsShown'
  <2>1. \A q \in Paths : q # p => object'[q] = object[q]
    BY <1>5 DEF delete_from_modem
  <2> QED
    BY <1>5, <2>1 DEF delete_from_modem, SimIsShown
<1> QED
  BY <1>1, <1>2, <1>3, <1>4, <1>5
  DEF Next, Watcher, Loop, vars, PartArrives, SessionUp, Subscribe, ListSms, SessionDown,
      AnnounceListed, Forward, OnUp, OnDown, OnSmsAdded, OnSmsRetry, PushTask,
      DeleteRefused, Restart

\* A session loses its modem knowingly.
LEMMA SessionStep ==
    ASSUME TypeOK, SessionHasModem, [Next]_vars
    PROVE  SessionHasModem'
BY DEF SessionHasModem, TypeOK, Next, Watcher, Loop, vars, worldVars, watchVars, taskVars,
       NetDelivers, PartArrives, ModemVanishes, ModemReturns, SessionUp, Subscribe, ListSms,
       SessionDown, AnnounceListed, Forward, OnUp, OnDown, OnSmsAdded, OnSmsRetry, PushTask,
       delete_from_modem, DeleteRefused, Restart

\* A step that appends something other than the end of a session.
LEMMA HandleAppend ==
    ASSUME TypeOK, HandleForSession, NEW e \in Events, e # Down, queue' = Append(queue, e),
           UNCHANGED modem, session # "down" \/ e = Up
    PROVE  HandleForSession'
<1> USE DEF TypeOK
<1>1. /\ Len(queue) \in Nat /\ Len(queue') = Len(queue) + 1
      /\ queue'[Len(queue) + 1] = e
      /\ \A i \in 1..Len(queue) : queue'[i] = queue[i]
  BY AppendAt
<1>2. CASE e = Up
  <2>1. Len(queue) + 1 \in 1..Len(queue')
    BY <1>1
  <2>2. \A j \in (Len(queue) + 1)..Len(queue') : queue'[j] # Down
    BY <1>1, <1>2, EventsDiffer
  <2> QED
    BY <1>1, <1>2, <2>1, <2>2 DEF HandleForSession
<1>3. CASE modem /\ \A j \in 1..Len(queue) : queue[j] # Down
  <2>1. modem'
    BY <1>3, Zenon
  <2>2. \A j \in 1..Len(queue') : queue'[j] # Down
    BY <1>1, <1>3
  <2> QED
    BY <2>1, <2>2 DEF HandleForSession
<1>4. ASSUME NEW k \in 1..Len(queue), queue[k] = Up,
             \A j \in k..Len(queue) : queue[j] # Down
      PROVE  HandleForSession'
  <2>1. k \in 1..Len(queue') /\ queue'[k] = Up
    BY <1>1, <1>4
  <2>2. \A j \in k..Len(queue') : queue'[j] # Down
    <3> SUFFICES ASSUME NEW j \in k..Len(queue') PROVE queue'[j] # Down
      OBVIOUS
    <3>1. CASE j \in k..Len(queue)
      BY <1>1, <1>4, <3>1
    <3>2. CASE j = Len(queue) + 1
      BY <1>1, <3>2
    <3> QED
      BY <1>1, <3>1, <3>2
  <2> QED
    BY <2>1, <2>2 DEF HandleForSession
<1> QED
  BY <1>2, <1>3, <1>4 DEF HandleForSession

\* A step that takes the next event, and the handle with Up or Down.
LEMMA HandleTail ==
    ASSUME TypeOK, HandleForSession, queue # << >>, queue' = Tail(queue), UNCHANGED session,
           \/ Head(queue) = Up /\ modem'
           \/ Head(queue) = Down
           \/ Head(queue) # Up /\ UNCHANGED modem
    PROVE  HandleForSession'
<1> USE DEF TypeOK
<1>1. /\ Len(queue) \in Nat \ {0} /\ Len(queue') = Len(queue) - 1 /\ Head(queue) = queue[1]
      /\ \A i \in 1..Len(queue') : queue'[i] = queue[i + 1]
  BY TailAt
<1>2. CASE session = "down"
  BY <1>2 DEF HandleForSession
<1>3. CASE modem /\ \A j \in 1..Len(queue) : queue[j] # Down
  <2>a. Head(queue) # Down
    BY <1>1, <1>3
  <2>1. modem'
    BY <1>3, <2>a, Zenon
  <2>2. \A j \in 1..Len(queue') : queue'[j] # Down
    BY <1>1, <1>3
  <2> QED
    BY <2>1, <2>2 DEF HandleForSession
<1>4. ASSUME NEW k \in 1..Len(queue), queue[k] = Up,
             \A j \in k..Len(queue) : queue[j] # Down
      PROVE  HandleForSession'
  <2>1. CASE k = 1
    <3>1. modem'
      BY <1>1, <1>4, <2>1, EventsDiffer
    <3>2. \A j \in 1..Len(queue') : queue'[j] # Down
      BY <1>1, <1>4, <2>1
    <3> QED
      BY <3>1, <3>2 DEF HandleForSession
  <2>2. CASE k # 1
    <3>1. k - 1 \in 1..Len(queue') /\ queue'[k - 1] = Up
      BY <1>1, <1>4, <2>2
    <3>2. \A j \in (k - 1)..Len(queue') : queue'[j] # Down
      <4> SUFFICES ASSUME NEW j \in (k - 1)..Len(queue') PROVE queue'[j] # Down
        OBVIOUS
      <4>1. j \in 1..Len(queue') /\ j + 1 \in k..Len(queue)
        BY <1>1, <2>2
      <4> QED
        BY <1>1, <1>4, <4>1
    <3> QED
      BY <3>1, <3>2 DEF HandleForSession
  <2> QED
    BY <2>1, <2>2
<1> QED
  BY <1>2, <1>3, <1>4 DEF HandleForSession

\* The handle comes back before what the session announces.
LEMMA HandleStep ==
    ASSUME TypeOK, HandleForSession, [Next]_vars
    PROVE  HandleForSession'
<1>1. CASE UNCHANGED <<queue, modem>> /\ (session' # "down" => session # "down")
  BY <1>1 DEF HandleForSession
<1>2. CASE session' = "down"
  BY <1>2 DEF HandleForSession
<1>3. CASE SessionUp
  BY <1>3, EventType, EventsDiffer, HandleAppend DEF SessionUp
<1>4. ASSUME NEW p \in Paths, AnnounceListed(p) \/ Forward(p), session # "down"
      PROVE  HandleForSession'
  BY <1>4, EventType, EventsDiffer, HandleAppend DEF AnnounceListed, Forward
<1>5. ASSUME NEW p \in Paths, AnnounceListed(p) \/ Forward(p), session = "down"
      PROVE  session' = "down"
  BY <1>5 DEF AnnounceListed, Forward
<1>6. CASE OnUp
  BY <1>6, HandleTail DEF OnUp, NextEvent, watchVars
<1>7. CASE OnDown
  BY <1>7, HandleTail DEF OnDown, NextEvent, watchVars
<1>8. ASSUME NEW p \in Paths, OnSmsAdded(p) PROVE HandleForSession'
  BY <1>8, HandleTail, EventsDiffer DEF OnSmsAdded, NextEvent, watchVars
<1> QED
  BY <1>1, <1>2, <1>3, <1>4, <1>5, <1>6, <1>7, <1>8
  DEF Next, Watcher, Loop, vars, worldVars, watchVars, NetDelivers, PartArrives,
      ModemVanishes, ModemReturns, Subscribe, ListSms, SessionDown, OnSmsRetry, PushTask,
      delete_from_modem, DeleteRefused, Restart

\* Behind event k of the queue, path p is still to be announced.
Announced(k, p) ==
    \/ p \in signalled \cup listed
    \/ \E j \in (k + 1)..Len(queue) : queue[j] = SmsAdded(p)

\* What the end of the queue gains is announced behind all that is there.
LEMMA AnnouncedAppend ==
    ASSUME TypeOK, AnnouncedAfterUp, NEW q \in Paths, queue' = Append(queue, SmsAdded(q)),
           UNCHANGED <<session, object>>,
           (signalled \cup listed) \ {q} \subseteq signalled' \cup listed'
    PROVE  AnnouncedAfterUp'
<1> USE DEF TypeOK
<1>1. /\ Len(queue) \in Nat /\ Len(queue') = Len(queue) + 1
      /\ queue'[Len(queue) + 1] = SmsAdded(q)
      /\ \A i \in 1..Len(queue) : queue'[i] = queue[i]
  BY AppendAt, EventType
<1> SUFFICES ASSUME session = "supervising", NEW k \in 1..Len(queue'), queue'[k] = Up,
                    NEW p \in Paths, object[p] # NoMessage
             PROVE  Announced(k, p)'
  BY DEF AnnouncedAfterUp, Announced
<1>2. k \in 1..Len(queue) /\ queue[k] = Up
  BY <1>1, EventsDiffer
<1>3. CASE p = q
  BY <1>1, <1>2, <1>3 DEF Announced
<1>4. CASE p # q /\ p \in signalled \cup listed
  BY <1>4 DEF Announced
<1>5. ASSUME NEW j \in (k + 1)..Len(queue), queue[j] = SmsAdded(p) PROVE Announced(k, p)'
  <2>1. j \in (k + 1)..Len(queue') /\ queue'[j] = SmsAdded(p)
    BY <1>1, <1>2, <1>5
  <2> QED
    BY <2>1 DEF Announced, SmsAdded
<1> QED
  BY <1>2, <1>3, <1>4, <1>5 DEF AnnouncedAfterUp

\* What is behind an Up stays there when the loop takes the head.
LEMMA AnnouncedTail ==
    ASSUME TypeOK, AnnouncedAfterUp, queue # << >>, queue' = Tail(queue),
           UNCHANGED <<session, signalled, listed, object>>
    PROVE  AnnouncedAfterUp'
<1> USE DEF TypeOK
<1>1. /\ Len(queue) \in Nat \ {0} /\ Len(queue') = Len(queue) - 1
      /\ \A i \in 1..Len(queue') : queue'[i] = queue[i + 1]
  BY TailAt
<1> SUFFICES ASSUME session = "supervising", NEW k \in 1..Len(queue'), queue'[k] = Up,
                    NEW p \in Paths, object[p] # NoMessage
             PROVE  Announced(k, p)'
  BY DEF AnnouncedAfterUp, Announced
<1>2. k + 1 \in 1..Len(queue) /\ queue[k + 1] = Up
  BY <1>1
<1>3. CASE p \in signalled \cup listed
  BY <1>3 DEF Announced
<1>4. ASSUME NEW j \in (k + 2)..Len(queue), queue[j] = SmsAdded(p) PROVE Announced(k, p)'
  <2>1. j - 1 \in (k + 1)..Len(queue') /\ j - 1 \in 1..Len(queue') /\ (j - 1) + 1 = j
    BY <1>1, <1>4
  <2>2. queue'[j - 1] = SmsAdded(p)
    BY <1>1, <1>4, <2>1
  <2> QED
    BY <2>1, <2>2 DEF Announced, SmsAdded
<1>5. (k + 1) + 1 = k + 2
  OBVIOUS
<1> QED
  BY <1>2, <1>3, <1>4, <1>5 DEF AnnouncedAfterUp

\* A session announces what is on the modem behind every Up.
LEMMA AnnouncedStep ==
    ASSUME TypeOK, PathsAreFresh, SessionHasModem, AnnouncedAfterUp, [Next]_vars
    PROVE  AnnouncedAfterUp'
<1> USE DEF TypeOK, worldVars, watchVars, taskVars
<1>1. CASE session' # "supervising"
  BY <1>1 DEF AnnouncedAfterUp
<1>2. CASE UNCHANGED <<session, signalled, listed, queue, object>>
  BY <1>2 DEF AnnouncedAfterUp
<1>3. ASSUME NEW m \in Messages, NetDelivers(m), session' = "supervising"
      PROVE  AnnouncedAfterUp'
  <2>1. /\ queue' = queue /\ listed' = listed /\ session = "supervising"
        /\ signalled' = signalled \cup {nextPath}
        /\ \A p \in Paths : p # nextPath => object'[p] = object[p]
    BY <1>3 DEF NetDelivers
  <2> QED
    BY <2>1, Zenon DEF AnnouncedAfterUp
<1>4. CASE ModemReturns
  <2>1. session' # "supervising"
    BY <1>4 DEF ModemReturns, SessionHasModem
  <2> QED
    BY <1>1, <2>1
<1>5. CASE ListSms
  <2>1. listed' = {p \in Paths : object[p] # NoMessage} /\ object' = object
    BY <1>5 DEF ListSms
  <2> QED
    BY <2>1 DEF AnnouncedAfterUp
<1>6. ASSUME NEW p \in Paths, AnnounceListed(p) PROVE AnnouncedAfterUp'
  BY <1>6, AnnouncedAppend DEF AnnounceListed
<1>7. ASSUME NEW p \in Paths, Forward(p) PROVE AnnouncedAfterUp'
  BY <1>7, AnnouncedAppend DEF Forward
<1>8. CASE Loop
  BY <1>8, AnnouncedTail DEF Loop, OnUp, OnDown, OnSmsAdded, NextEvent
<1>9. ASSUME NEW p \in Paths, delete_from_modem(p) PROVE AnnouncedAfterUp'
  <2>1. UNCHANGED <<session, signalled, listed, queue>>
    BY <1>9 DEF delete_from_modem
  <2>2. \A q \in Paths : object'[q] # NoMessage => object[q] # NoMessage
    BY <1>9 DEF delete_from_modem
  <2> QED
    BY <2>1, <2>2 DEF AnnouncedAfterUp
<1> QED
  BY <1>1, <1>2, <1>3, <1>4, <1>5, <1>6, <1>7, <1>8, <1>9
  DEF Next, Watcher, vars, PartArrives, ModemVanishes, SessionUp, Subscribe, SessionDown,
      OnSmsRetry, PushTask, DeleteRefused, Restart

\* While the gateway waits for its handle, what is on the modem is announced
\* behind the next event.
LEMMA UpComesFirst ==
    ASSUME TypeOK, HandleForSession, AnnouncedAfterUp, session = "supervising", ~modem,
           NEW p \in Paths, object[p] # NoMessage
    PROVE  \/ p \in signalled \cup listed
           \/ \E j \in 2..Len(queue) : queue[j] = SmsAdded(p)
<1>1. PICK k \in 1..Len(queue) : queue[k] = Up
  BY DEF HandleForSession
<1>2. Announced(k, p)
  BY <1>1 DEF AnnouncedAfterUp, Announced
<1>3. (k + 1)..Len(queue) \subseteq 2..Len(queue)
  BY DEF TypeOK
<1> QED
  BY <1>2, <1>3 DEF Announced

\* Only the event that the loop takes stops pointing at a path.
LEMMA TailWatches ==
    ASSUME TypeOK, queue # << >>, queue' = Tail(queue), UNCHANGED <<signalled, listed>>,
           timers \subseteq timers', NEW p \in Paths,
           \/ Watched(p) /\ Head(queue) # SmsAdded(p)
           \/ p \in signalled \cup listed
           \/ \E j \in 2..Len(queue) : queue[j] = SmsAdded(p)
    PROVE  Watched(p)'
<1> USE DEF TypeOK
<1>1. /\ Len(queue) \in Nat \ {0} /\ Len(queue') = Len(queue) - 1 /\ Head(queue) = queue[1]
      /\ \A i \in 1..Len(queue') : queue'[i] = queue[i + 1]
  BY TailAt
<1>2. ASSUME NEW j \in 2..Len(queue), queue[j] = SmsAdded(p) PROVE Watched(p)'
  <2>1. j - 1 \in 1..Len(queue') /\ (j - 1) + 1 = j
    BY <1>1
  <2>2. queue'[j - 1] = SmsAdded(p)
    BY <1>1, <1>2, <2>1
  <2> QED
    BY <2>1, <2>2 DEF Watched, SmsAdded
<1>3. CASE p \in signalled \cup listed \/ \E t \in timers : t.path = p
  BY <1>3 DEF Watched
<1>4. ASSUME NEW i \in 1..Len(queue), queue[i] = SmsAdded(p), Head(queue) # SmsAdded(p)
      PROVE  Watched(p)'
  <2>1. i \in 2..Len(queue)
    BY <1>1, <1>4
  <2> QED
    BY <1>2, <1>4, <2>1
<1> QED
  BY <1>2, <1>3, <1>4 DEF Watched

\* An announcement passes its path on to the queue.
LEMMA AppendWatches ==
    ASSUME TypeOK, NEW q \in Paths, queue' = Append(queue, SmsAdded(q)), UNCHANGED timers,
           (signalled \cup listed) \ {q} \subseteq signalled' \cup listed',
           NEW p \in Paths, Watched(p)
    PROVE  Watched(p)'
<1> USE DEF TypeOK
<1>1. /\ Len(queue) \in Nat /\ Len(queue') = Len(queue) + 1
      /\ queue'[Len(queue) + 1] = SmsAdded(q)
      /\ \A i \in 1..Len(queue) : queue'[i] = queue[i]
  BY AppendAt, EventType
<1>2. CASE p = q
  BY <1>1, <1>2 DEF Watched
<1>3. CASE p # q /\ p \in signalled \cup listed
  BY <1>3 DEF Watched
<1>4. ASSUME NEW i \in 1..Len(queue), queue[i] = SmsAdded(p) PROVE Watched(p)'
  <2>1. i \in 1..Len(queue') /\ queue'[i] = SmsAdded(p)
    BY <1>1, <1>4
  <2> QED
    BY <2>1 DEF Watched, SmsAdded
<1> QED
  BY <1>2, <1>3, <1>4 DEF Watched

\* What on_sms_added does with a whole message it can read: a push gets its
\* task, a text message is stored, or the INSERT fails and nothing changes.
LEMMA ReadIsHandled ==
    ASSUME TypeOK, RowsTell, Unlike, NEW p \in Paths, NEW attempt, NEW others,
           NEW m \in Messages, object[p] = m,
           on_sms_added(p, attempt, others), Readable(p), m \in whole
    PROVE  \/ \E x \in pushes' : x.msg = m
           \/ Stored(m)'
           \/ UNCHANGED <<db, deleters, pushes>>
<1>1. CASE m.push
  BY <1>1 DEF on_sms_added, handle_mms_push
<1>2. CASE ~m.push /\ insert_message(Row(m, p))
  BY <1>2, InsertStores DEF TypeOK
<1>3. CASE ~m.push /\ StoreFails(p) /\ UNCHANGED pushes
  BY <1>3 DEF StoreFails
<1> QED
  BY <1>1, <1>2, <1>3 DEF on_sms_added, handle_text_sms

\* on_sms_added takes no push task away, and no timer but its own.
LEMMA HandlingKeeps ==
    ASSUME NEW p, NEW attempt, NEW others, on_sms_added(p, attempt, others)
    PROVE  others \subseteq timers' /\ pushes \subseteq pushes'
BY DEF on_sms_added, handle_mms_push, handle_text_sms

\* The task of a push stores it, or fails and leaves the table alone.
LEMMA PushIsHandled ==
    ASSUME TypeOK, NEW x \in pushes, PushTask(x), ~Stored(x.msg)
    PROVE  Stored(x.msg)' \/ PushStepFails
<1> USE DEF TypeOK
<1> DEFINE row == Row(x.msg, x.path)
<1>1. row \in Rows /\ row.msg = x.msg
  BY RowType DEF Row
<1> HIDE DEF row
<1>2. CASE db' = Append(db, row)
  <2>1. Len(db') = Len(db) + 1 /\ db'[Len(db) + 1] = row /\ Len(db) \in Nat
    BY <1>1, <1>2
  <2>2. Len(db) + 1 \in 1..Len(db')
    BY <2>1
  <2> QED
    BY <1>1, <2>1, <2>2 DEF Stored
<1>3. CASE db' = db
  BY <1>3 DEF PushStepFails
<1> QED
  BY <1>2, <1>3 DEF PushTask, insert_message, row

\* A message that the gateway watches, or has a task for, is not let go of.
LEMMA HeldStep ==
    ASSUME TypeOK, ViewInv, RowsTell, Unlike, [Next]_vars, session = "supervising",
           session' = "supervising", NEW m \in sim \cap whole, Due(m), ~Stored(m), m \in sim'
    PROVE  Due(m)' \/ Stored(m)' \/ StoreStepFails \/ PushStepFails
<1> USE DEF TypeOK, worldVars, watchVars, taskVars
<1>m. m \in Messages /\ m # NoMessage
  BY NoMessageAssumption
\* In the hands of a task.
<1>1. ASSUME NEW x \in pushes, x.msg = m
      PROVE  Due(m)' \/ Stored(m)' \/ PushStepFails
  <2>1. CASE PushTask(x)
    BY <1>1, <2>1, PushIsHandled
  <2>2. ASSUME NEW y \in pushes, PushTask(y), y # x PROVE x \in pushes'
    BY <2>2 DEF PushTask
  <2>3. ASSUME NEW p, NEW attempt, NEW others, on_sms_added(p, attempt, others)
        PROVE  x \in pushes'
    BY <2>3, HandlingKeeps
  <2>4. ~PushTask(x) => x \in pushes'
    BY <2>2, <2>3
    DEF Next, Watcher, Loop, vars, NetDelivers, PartArrives, ModemVanishes, ModemReturns,
        SessionUp, Subscribe, ListSms, SessionDown, AnnounceListed, Forward, OnUp, OnDown,
        OnSmsAdded, OnSmsRetry, delete_from_modem, DeleteRefused, Restart
  <2> QED
    BY <1>1, <2>1, <2>4 DEF Due
\* In view at a path.
<1>2. ASSUME NEW p \in Paths, object[p] = m, Watched(p)
      PROVE  Due(m)' \/ Stored(m)' \/ StoreStepFails
  <2>d. object'[p] = m /\ Watched(p)' => Due(m)'
    BY DEF Due
  <2>1. CASE UNCHANGED <<object, signalled, listed, queue, timers>>
    BY <1>2, <2>1, <2>d DEF Watched
  <2>2. ASSUME NEW n \in Messages, NetDelivers(n) PROVE Due(m)'
    <3>1. p # nextPath
      BY <1>m, <1>2 DEF ViewInv, PathsAreFresh, Paths
    <3>2. object'[p] = m
      BY <1>2, <2>2, <3>1 DEF NetDelivers
    <3>3. /\ signalled \subseteq signalled' /\ listed' = listed
          /\ queue' = queue /\ timers' = timers
      BY <2>2 DEF NetDelivers
    <3>4. Watched(p)'
      BY <1>2, <3>3 DEF Watched
    <3> QED
      BY <2>d, <3>2, <3>4
  <2>3. ~ModemVanishes /\ ~ModemReturns
    BY DEF ModemVanishes, ModemReturns, ViewInv, SessionHasModem
  <2>4. ~SessionUp /\ ~Subscribe /\ ~ListSms /\ ~SessionDown /\ ~Restart
    BY DEF SessionUp, Subscribe, ListSms, SessionDown, Restart
  <2>5. ASSUME NEW q \in Paths, AnnounceListed(q) \/ Forward(q) PROVE Due(m)'
    <3>1. /\ queue' = Append(queue, SmsAdded(q)) /\ UNCHANGED timers /\ object' = object
          /\ (signalled \cup listed) \ {q} \subseteq signalled' \cup listed'
      BY <2>5 DEF AnnounceListed, Forward
    <3>2. Watched(p)'
      BY <1>2, <3>1, AppendWatches
    <3> QED
      BY <1>2, <2>d, <3>1, <3>2
  <2>6. CASE OnUp \/ OnDown
    <3>1. /\ queue # << >> /\ queue' = Tail(queue) /\ Head(queue) # SmsAdded(p)
          /\ UNCHANGED <<signalled, listed, timers, object>>
      BY <2>6, EventsDiffer DEF OnUp, OnDown, NextEvent
    <3>2. Watched(p)'
      BY <1>2, <3>1, TailWatches
    <3> QED
      BY <1>2, <2>d, <3>1, <3>2
  \* Looking at p itself, when the gateway has its handle.
  <2>7. ASSUME modem, NEW attempt, NEW others, on_sms_added(p, attempt, others),
               OnSmsAdded(p) \/ \E t \in timers : t.path = p /\ OnSmsRetry(t)
        PROVE  Due(m)' \/ Stored(m)' \/ StoreStepFails
    <3>1. Readable(p) /\ object[p] \in whole
      BY <1>m, <1>2, <2>7 DEF Readable
    <3>2. CASE \E x \in pushes' : x.msg = m
      BY <3>2 DEF Due
    <3>3. CASE UNCHANGED <<db, deleters, pushes>>
      BY <2>7, <3>1, <3>3 DEF StoreStepFails
    <3> QED
      BY <1>m, <1>2, <2>7, <3>1, <3>2, <3>3, ReadIsHandled
  \* Without it, the path is announced again.
  <2>8. ~modem => \/ p \in signalled \cup listed
                  \/ \E j \in 2..Len(queue) : queue[j] = SmsAdded(p)
    BY <1>m, <1>2, UpComesFirst DEF ViewInv
  <2>9. ASSUME NEW q \in Paths, OnSmsAdded(q)
        PROVE  Due(m)' \/ Stored(m)' \/ StoreStepFails
    <3>1. /\ queue # << >> /\ queue' = Tail(queue) /\ Head(queue) = SmsAdded(q)
          /\ UNCHANGED <<signalled, listed, object>> /\ on_sms_added(q, 0, timers)
      BY <2>9 DEF OnSmsAdded, NextEvent
    <3>2. timers \subseteq timers'
      BY <3>1, HandlingKeeps
    <3>3. CASE q = p /\ modem
      BY <2>7, <2>9, <3>1, <3>3
    <3>4. CASE q # p \/ ~modem
      <4>1. Watched(p)'
        BY <1>2, <2>8, <3>1, <3>2, <3>4, EventsDiffer, TailWatches
      <4> QED
        BY <1>2, <2>d, <3>1, <4>1
    <3> QED
      BY <3>3, <3>4
  <2>10. ASSUME NEW t \in timers, OnSmsRetry(t)
         PROVE  Due(m)' \/ Stored(m)' \/ StoreStepFails
    <3>1. /\ UNCHANGED <<signalled, listed, queue, object>>
          /\ on_sms_added(t.path, t.attempt, timers \ {t})
      BY <2>10 DEF OnSmsRetry
    <3>2. timers \ {t} \subseteq timers'
      BY <3>1, HandlingKeeps
    <3>3. CASE t.path = p /\ modem
      BY <2>7, <2>10, <3>1, <3>3
    <3>4. CASE t.path # p
      <4>1. Watched(p)'
        BY <1>2, <3>1, <3>2, <3>4 DEF Watched
      <4> QED
        BY <1>2, <2>d, <3>1, <4>1
    <3>5. CASE ~modem
      <4>1. Watched(p)'
        BY <2>8, <3>1, <3>5 DEF Watched
      <4> QED
        BY <1>2, <2>d, <3>1, <4>1
    <3> QED
      BY <3>3, <3>4, <3>5
  <2>11. ASSUME NEW q \in Paths, delete_from_modem(q) PROVE Due(m)'
    <3>1. sim' = sim \ {object[q]} /\ UNCHANGED <<signalled, listed, queue, timers>>
      BY <2>11 DEF delete_from_modem
    <3>2. q # p
      BY <1>2, <3>1
    <3>3. object'[p] = m
      BY <1>2, <2>11, <3>2 DEF delete_from_modem
    <3> QED
      BY <1>2, <2>d, <3>1, <3>3 DEF Watched
  <2> QED
    BY <2>1, <2>2, <2>3, <2>4, <2>5, <2>6, <2>9, <2>10, <2>11
    DEF Next, Watcher, Loop, vars, PartArrives, PushTask, DeleteRefused
<1> QED
  BY <1>1, <1>2 DEF Due

\* A message that is somewhere on a modem with a running session is still due,
\* is stored, or was let go of by a failure.
LEMMA InViewStep ==
    ASSUME TypeOK, ViewInv, RowsTell, Unlike, [Next]_vars,
           NEW m \in sim \cap whole, Due(m), ~Stored(m), m \in sim'
    PROVE  Due(m)' \/ Stored(m)' \/ StoreStepFails \/ PushStepFails
<1> USE DEF TypeOK
<1> SUFFICES ASSUME session' = "supervising"
             PROVE  Due(m)' \/ Stored(m)' \/ StoreStepFails \/ PushStepFails
  BY DEF Due
<1>m. m \in Messages /\ m # NoMessage
  BY NoMessageAssumption
<1>1. CASE ListSms
  <2>1. present /\ listed' = {p \in Paths : object[p] # NoMessage} /\ object' = object
    BY <1>1 DEF ListSms, ViewInv, SessionHasModem, worldVars
  <2>2. PICK p \in Paths : object[p] = m
    BY <2>1 DEF ViewInv, SimIsShown
  <2>3. object'[p] = m /\ Watched(p)'
    BY <1>m, <2>1, <2>2 DEF Watched
  <2> QED
    BY <2>3 DEF Due
<1>2. CASE ~ListSms
  <2>1. session = "supervising"
    BY <1>2 DEF Next, Watcher, Loop, vars, worldVars, watchVars, NetDelivers, PartArrives,
       ModemVanishes, ModemReturns, SessionUp, Subscribe, SessionDown, AnnounceListed,
       Forward, OnUp, OnDown, OnSmsAdded, OnSmsRetry, PushTask, delete_from_modem,
       DeleteRefused, Restart
  <2> QED
    BY <2>1, HeldStep
<1> QED
  BY <1>1, <1>2

(***************************************************************************)
(* No step loses sight of a message that is complete on the modem and not  *)
(* stored yet: not an announcement taken while the gateway has no handle   *)
(* on the modem, a part that came late, a session that ended or was listed *)
(* anew, nor the deletion of another message.  Only a failure to store it  *)
(* does, for any messages, faults and restarts (supervise, on_sms_added).  *)
(***************************************************************************)
THEOREM MessagesStayInView == ASSUME Unlike PROVE Spec => KeptInView
<1> DEFINE Held == TypeOK /\ ViewInv /\ RowsTell
           Kept == \A m \in sim \cap whole :
                     Due(m) /\ ~Stored(m) /\ m \in sim' =>
                         Due(m)' \/ Stored(m)' \/ StoreStepFails \/ PushStepFails
<1>1. Init => ViewInv /\ RowsTell
  BY DEF Init, ViewInv, PathsAreFresh, SimIsShown, SessionHasModem, HandleForSession,
         AnnouncedAfterUp, RowsTell
<1>2. TypeOK /\ ViewInv /\ [Next]_vars => ViewInv'
  BY PathsStep, ShownStep, SessionStep, HandleStep, AnnouncedStep DEF ViewInv
<1>3. TypeOK /\ RowsTell /\ [Next]_vars => RowsTell'
  <2> SUFFICES ASSUME TypeOK, RowsTell, [Next]_vars PROVE RowsTell'
    OBVIOUS
  <2>1. CASE UNCHANGED db
    BY <2>1 DEF RowsTell
  <2> QED
    BY <2>1, WhoWrites, RowsTellStep DEF TypeOK
<1>4. Held /\ [Next]_vars => [Kept]_vars
  BY InViewStep
<1> HIDE DEF Held, Kept
<1>5. Spec => []Held
  BY <1>1, <1>2, <1>3, InboxTypeCorrect, PTL DEF Spec, Held
<1>6. Spec => [][Kept]_vars
  BY <1>4, <1>5, PTL DEF Spec
<1> QED
  BY <1>6 DEF KeptInView, Kept
=============================================================================
