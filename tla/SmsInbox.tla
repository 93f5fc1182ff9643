----------------------------- MODULE SmsInbox ------------------------------
(***************************************************************************)
(* Incoming SMS: from the modem's storage through the watcher and the      *)
(* gateway into the messages table, and off the modem again.               *)
(*                                                                         *)
(* The storage of the modem survives everything.  ModemManager names a     *)
(* stored message by an object path, taken from a counter that only a      *)
(* restart of ModemManager resets, and names it anew whenever the modem    *)
(* comes back.  The watcher announces paths; the gateway reads what is at  *)
(* a path, stores it and spawns a detached task that deletes by path.  A   *)
(* WAP push is stored by a task of its own (mms/manager.rs).               *)
(***************************************************************************)
EXTENDS Naturals, Sequences

CONSTANTS
    Messages,   \* the messages, by their content
    NoMessage,  \* what is at a path that names nothing
    Stamps,     \* timestamps of the network
    NoStamp,    \* the stamp of a message the network gave none
    Texts,      \* senders and texts
    NoText,     \* the text of a binary message
    Datas,      \* binary contents
    MaxPath,    \* bound: object paths ModemManager hands out
    MaxQueue,   \* bound: the outside world is quiet while so many events wait
    Attempts,   \* SMS_ASSEMBLY_ATTEMPTS
    Env         \* which faults may happen:
                \* "db": an INSERT fails, or a push cannot be decoded;
                \* "crash": the process dies and is started again;
                \* "late": a part arrives after the gateway has given up;
                \* "mm_restart": ModemManager's counter starts from zero

Paths == 1..MaxPath

ASSUME BoundsAssumption == MaxPath \in Nat /\ MaxQueue \in Nat /\ Attempts \in Nat
ASSUME NoMessageAssumption == NoMessage \notin Messages
ASSUME MessagesAssumption ==
    /\ Messages \subseteq [push : BOOLEAN, stamp : Stamps, text : Texts, data : Datas]
    /\ NoStamp \in Stamps
    /\ NoText \in Texts
ASSUME EnvAssumption == Env \subseteq {"db", "crash", "late", "mm_restart"}

VARIABLES
    sim,        \* the modem's storage
    whole,      \* messages all parts of which have arrived
    object,     \* object[p]: the message ModemManager shows at path p
    nextPath,   \* ModemManager's counter
    present,    \* the modem is reachable over D-Bus
    session,    \* the watcher's session
    signalled,  \* Messaging.Added signals supervise has not read
    listed,     \* paths of the listing that are not announced yet
    queue,      \* the ModemEvent channel
    modem,      \* Gateway.modem is Some
    timers,     \* sleeping or queued SmsRetry events
    pushes,     \* handle_mms_push tasks: the path, and what was read there
    deleters,   \* paths that delete_from_modem tasks work on
    db,         \* the messages table
    erased      \* messages a deleter has removed from the modem

worldVars == <<sim, whole, object, nextPath, present>>
watchVars == <<session, signalled, listed>>
taskVars == <<timers, pushes, deleters>>
vars == <<worldVars, watchVars, queue, modem, taskVars, db, erased>>

ExternalIds == [path : 0..MaxPath, stamp : Stamps, text : Texts, data : Datas]
Rows == [kind : {"sms", "mms"}, external_id : ExternalIds, msg : Messages]

Events == [ev : {"Up", "Down", "SmsAdded"}, path : 0..MaxPath]
Up == [ev |-> "Up", path |-> 0]
Down == [ev |-> "Down", path |-> 0]
SmsAdded(p) == [ev |-> "SmsAdded", path |-> p]

TypeOK ==
    /\ sim \in SUBSET Messages
    /\ whole \in SUBSET Messages
    /\ object \in [Paths -> Messages \cup {NoMessage}]
    /\ nextPath \in 1..(MaxPath + 1)
    /\ present \in BOOLEAN
    /\ session \in {"down", "activated", "subscribed", "supervising", "losing"}
    /\ signalled \in SUBSET Paths
    /\ listed \in SUBSET Paths
    /\ queue \in Seq(Events)
    /\ modem \in BOOLEAN
    /\ timers \in SUBSET [path : Paths, attempt : 1..Attempts]
    /\ pushes \in SUBSET [path : Paths, msg : Messages]
    /\ deleters \in SUBSET Paths
    /\ db \in Seq(Rows)
    /\ erased \in SUBSET Messages

Init ==
    /\ sim = {}
    /\ whole = {}
    /\ object = [p \in Paths |-> NoMessage]
    /\ nextPath = 1
    /\ present = FALSE
    /\ session = "down"
    /\ signalled = {}
    /\ listed = {}
    /\ queue = << >>
    /\ modem = FALSE
    /\ timers = {}
    /\ pushes = {}
    /\ deleters = {}
    /\ db = << >>
    /\ erased = {}

Room == Len(queue) < MaxQueue

----------------------------------------------------------------------------
(* The network and ModemManager.                                           *)

\* A message that was never here before, or its first part, and the signal.
NetDelivers(m) ==
    /\ present
    /\ Room
    /\ nextPath <= MaxPath
    /\ m \notin sim \cup erased
    /\ sim' = sim \cup {m}
    /\ \E parts \in {{}, {m}} : whole' = whole \cup parts
    /\ object' = [object EXCEPT ![nextPath] = m]
    /\ nextPath' = nextPath + 1
    /\ signalled' = IF session \in {"subscribed", "supervising", "losing"}
                      THEN signalled \cup {nextPath} ELSE signalled
    /\ UNCHANGED <<present, session, listed, queue, modem, taskVars, db, erased>>

\* The gateway still has an eye on the message at path p.
Watched(p) ==
    \/ p \in signalled \cup listed
    \/ \E i \in 1..Len(queue) : queue[i] = SmsAdded(p)
    \/ \E t \in timers : t.path = p

PartArrives(m) ==
    /\ m \in sim \ whole
    /\ "late" \in Env \/ \A p \in Paths : object[p] = m => session # "supervising" \/ Watched(p)
    /\ whole' = whole \cup {m}
    /\ UNCHANGED <<sim, object, nextPath, present, watchVars, queue, modem, taskVars, db, erased>>

ModemVanishes ==
    /\ present
    /\ Room
    /\ present' = FALSE
    /\ object' = [p \in Paths |-> NoMessage]
    /\ session' = IF session = "down" THEN "down" ELSE "losing"
    /\ UNCHANGED <<sim, whole, nextPath, signalled, listed, queue, modem, taskVars, db, erased>>

\* Every stored message gets a path, from the counter on, in any order.
ModemReturns ==
    /\ ~present
    /\ present' = TRUE
    /\ \E first \in {nextPath} \cup (IF "mm_restart" \in Env THEN {1} ELSE {}) :
       \E next \in first..(MaxPath + 1) :
       \E new \in [first..(next - 1) -> sim] :
         /\ \A m \in sim : \E p \in DOMAIN new : new[p] = m
         /\ \A p, q \in DOMAIN new : new[p] = new[q] => p = q
         /\ object' = [p \in Paths |-> IF p \in DOMAIN new THEN new[p] ELSE NoMessage]
         /\ nextPath' = next
    /\ UNCHANGED <<sim, whole, watchVars, queue, modem, taskVars, db, erased>>

----------------------------------------------------------------------------
(* The watcher.                                                            *)

SessionUp ==
    /\ session = "down"
    /\ present
    /\ Room
    /\ session' = "activated"
    /\ queue' = Append(queue, Up)
    /\ UNCHANGED <<worldVars, signalled, listed, modem, taskVars, db, erased>>

\* supervise subscribes before it lists, so nothing falls in between.
Subscribe ==
    /\ session = "activated"
    /\ session' = "subscribed"
    /\ UNCHANGED <<worldVars, signalled, listed, queue, modem, taskVars, db, erased>>

\* Mutant: what is stored already is not listed.
ListSmsNothing ==
    /\ session = "subscribed"
    /\ session' = "supervising"
    /\ UNCHANGED <<worldVars, signalled, listed, queue, modem, taskVars, db, erased>>

\* What was delivered in between is both signalled and listed.
ListSms ==
    /\ session = "subscribed"
    /\ session' = "supervising"
    /\ listed' = {p \in Paths : object[p] # NoMessage}
    /\ UNCHANGED <<worldVars, signalled, queue, modem, taskVars, db, erased>>

\* The listing is announced first, then supervise reads its signals.
AnnounceListed(p) ==
    /\ p \in listed
    /\ listed' = listed \ {p}
    /\ queue' = Append(queue, SmsAdded(p))
    /\ UNCHANGED <<worldVars, session, signalled, modem, taskVars, db, erased>>

Forward(p) ==
    /\ session \in {"supervising", "losing"}
    /\ listed = {}
    /\ p \in signalled
    /\ signalled' = signalled \ {p}
    /\ queue' = Append(queue, SmsAdded(p))
    /\ UNCHANGED <<worldVars, session, listed, modem, taskVars, db, erased>>

SessionDown ==
    /\ session = "losing"
    /\ listed = {}
    /\ session' = "down"
    /\ signalled' = {}
    /\ queue' = Append(queue, Down)
    /\ UNCHANGED <<worldVars, listed, modem, taskVars, db, erased>>

----------------------------------------------------------------------------
(* The gateway.                                                            *)

NextEvent(e) == queue # << >> /\ Head(queue) = e

OnUp ==
    /\ NextEvent(Up)
    /\ queue' = Tail(queue)
    /\ modem' = TRUE
    /\ UNCHANGED <<worldVars, watchVars, taskVars, db, erased>>

OnDown ==
    /\ NextEvent(Down)
    /\ queue' = Tail(queue)
    /\ modem' = FALSE
    /\ UNCHANGED <<worldVars, watchVars, taskVars, db, erased>>

\* incoming_sms_id: what the network said, or the path for want of a stamp.
incoming_sms_id(m, p) ==
    [path |-> IF m.stamp = NoStamp THEN p ELSE 0,
     stamp |-> m.stamp, text |-> m.text, data |-> m.data]

\* An MMS notification is identified by its transaction id.
transaction_id(m) == [path |-> 0, stamp |-> NoStamp, text |-> NoText, data |-> m.data]

Row(m, p) ==
    IF m.push THEN [kind |-> "mms", external_id |-> transaction_id(m), msg |-> m]
              ELSE [kind |-> "sms", external_id |-> incoming_sms_id(m, p), msg |-> m]

\* Mutant: nothing is compared.
KnownNever(row) == FALSE

\* insert_message: a row with this external id, or with the same sender,
\* timestamp and text, is there already.
Known(row) ==
    \E i \in 1..Len(db) :
        /\ db[i].kind = row.kind
        /\ \/ db[i].external_id = row.external_id
           \/ /\ row.msg.stamp # NoStamp
              /\ db[i].msg.stamp = row.msg.stamp
              /\ db[i].msg.text = row.msg.text

insert_message(row) == db' = IF Known(row) THEN db ELSE Append(db, row)

\* Mutant: the error of the INSERT is logged and the message deleted.
StoreFailsAndDeletes(p) ==
    /\ "db" \in Env
    /\ deleters' = deleters \cup {p}
    /\ UNCHANGED db

\* handle_text_sms when the INSERT fails: the message stays where it is.
StoreFails(p) == "db" \in Env /\ UNCHANGED <<deleters, db>>

handle_text_sms(p) ==
    /\ \/ insert_message(Row(object[p], p)) /\ deleters' = deleters \cup {p}
       \/ StoreFails(p)
    /\ UNCHANGED pushes

handle_mms_push(p) ==
    /\ pushes' = pushes \cup {[path |-> p, msg |-> object[p]]}
    /\ UNCHANGED <<deleters, db>>

\* A part is missing: look again in a second, or give up.
Assembly(p, attempt) ==
    IF attempt < Attempts THEN {[path |-> p, attempt |-> attempt + 1]} ELSE {}

\* Without a handle, or with nothing at the path any more, nothing is done.
Readable(p) == modem /\ object[p] # NoMessage

\* `others` are the SmsRetry events that remain.
on_sms_added(p, attempt, others) ==
    \/ /\ ~Readable(p)
       /\ timers' = others
       /\ UNCHANGED <<pushes, deleters, db>>
    \/ /\ Readable(p)
       /\ object[p] \notin whole
       /\ timers' = others \cup Assembly(p, attempt)
       /\ UNCHANGED <<pushes, deleters, db>>
    \/ /\ Readable(p)
       /\ object[p] \in whole
       /\ timers' = others
       /\ IF object[p].push THEN handle_mms_push(p) ELSE handle_text_sms(p)

OnSmsAdded(p) ==
    /\ NextEvent(SmsAdded(p))
    /\ queue' = Tail(queue)
    /\ on_sms_added(p, 0, timers)
    /\ UNCHANGED <<worldVars, watchVars, modem, erased>>

OnSmsRetry(t) ==
    /\ t \in timers
    /\ on_sms_added(t.path, t.attempt, timers \ {t})
    /\ UNCHANGED <<worldVars, watchVars, queue, modem, erased>>

----------------------------------------------------------------------------
(* Detached tasks.                                                         *)

\* handle_push: the notification is stored, or the task fails, on a push it
\* cannot decode or a table it cannot write; either way the push is deleted.
PushTask(x) ==
    /\ x \in pushes
    /\ insert_message(Row(x.msg, x.path)) \/ ("db" \in Env /\ UNCHANGED db)
    /\ pushes' = pushes \ {x}
    /\ deleters' = deleters \cup {x.path}
    /\ UNCHANGED <<worldVars, watchVars, queue, modem, timers, erased>>

\* delete_from_modem: Messaging.Delete goes through at last; what it removes
\* is whatever is at the path by then.
delete_from_modem(p) ==
    /\ p \in deleters
    /\ deleters' = deleters \ {p}
    /\ present
    /\ object[p] # NoMessage
    /\ sim' = sim \ {object[p]}
    /\ erased' = erased \cup {object[p]}
    /\ object' = [object EXCEPT ![p] = NoMessage]
    /\ UNCHANGED <<whole, nextPath, present, watchVars, queue, modem, timers, pushes, db>>

\* Five refusals, or nothing at the path: the message stays on the modem.
DeleteRefused(p) ==
    /\ p \in deleters
    /\ deleters' = deleters \ {p}
    /\ UNCHANGED <<worldVars, watchVars, queue, modem, timers, pushes, db, erased>>

\* The process dies and another starts: queues, timers and tasks are gone.
Restart ==
    /\ "crash" \in Env
    /\ session' = "down"
    /\ signalled' = {}
    /\ listed' = {}
    /\ queue' = << >>
    /\ modem' = FALSE
    /\ timers' = {}
    /\ pushes' = {}
    /\ deleters' = {}
    /\ UNCHANGED <<worldVars, db, erased>>

----------------------------------------------------------------------------

Watcher ==
    SessionUp \/ Subscribe \/ ListSms \/ SessionDown
    \/ \E p \in Paths : AnnounceListed(p) \/ Forward(p)

Loop == OnUp \/ OnDown \/ \E p \in Paths : OnSmsAdded(p)

Next ==
    \/ \E m \in Messages : NetDelivers(m) \/ PartArrives(m)
    \/ ModemVanishes
    \/ ModemReturns
    \/ Watcher
    \/ Loop
    \/ \E t \in timers : OnSmsRetry(t)
    \/ \E x \in pushes : PushTask(x)
    \/ \E p \in Paths : delete_from_modem(p) \/ DeleteRefused(p)
    \/ Restart

Spec == Init /\ [][Next]_vars

----------------------------------------------------------------------------
(* Properties.                                                             *)

Stored(m) == \E i \in 1..Len(db) : db[i].msg = m

(***************************************************************************)
(* "They are deleted from the modem/SIM only after the database write      *)
(* succeeds" (README), and what is written is that message: a text message *)
(* the gateway has deleted is in the messages table (handle_text_sms,      *)
(* insert_message, delete_from_modem).                                     *)
(***************************************************************************)
NothingLost == \A m \in erased : ~m.push => Stored(m)

(***************************************************************************)
(* A message the network has stamped is stored once, however often it is   *)
(* announced: signalled and listed, listed again under another path, or    *)
(* after a crash between the INSERT and the deletion (incoming_sms_id).    *)
(***************************************************************************)
StoredOnce ==
    \A i, j \in 1..Len(db) :
        db[i].msg = db[j].msg /\ db[i].msg.stamp # NoStamp => i = j

----------------------------------------------------------------------------
(* The inductive strengthening of NothingLost (proved in SmsInboxProofs).  *)

\* No two text messages look the same to insert_message.
Unlike ==
    \A m, n \in Messages :
        /\ ~m.push /\ ~n.push
        /\ m.stamp # NoStamp /\ m.stamp = n.stamp
        /\ m.text = n.text
        => m = n

\* The external id of a text message's row tells its content.
RowsTell ==
    \A i \in 1..Len(db) : db[i].kind = "sms" =>
        /\ ~db[i].msg.push
        /\ db[i].external_id.stamp = db[i].msg.stamp
        /\ db[i].external_id.text = db[i].msg.text
        /\ db[i].external_id.data = db[i].msg.data

\* Paths that were never handed out name nothing.
PathsAreFresh == \A p \in Paths : object[p] # NoMessage => p < nextPath

\* A deleter's path names nothing, a push, or a message that is stored.
DeletersAreSafe ==
    \A p \in deleters :
        /\ p < nextPath
        /\ object[p] # NoMessage /\ ~object[p].push => Stored(object[p])

\* A push task's path still names the push, or nothing.
PushesAreSafe ==
    \A x \in pushes :
        /\ x.path < nextPath
        /\ x.msg.push
        /\ object[x.path] \in {x.msg, NoMessage}

(***************************************************************************)
(* A deletion that is under way only ever hits what was stored: the delete *)
(* goes by path, so it rests on paths that are not handed out twice.       *)
(***************************************************************************)
InboxInv == NothingLost /\ RowsTell /\ PathsAreFresh /\ DeletersAreSafe /\ PushesAreSafe

----------------------------------------------------------------------------
(* Liveness.                                                               *)

(***************************************************************************)
(* The event loop, the watcher, the retry timers and the spawned tasks are *)
(* tokio tasks that run when they can.  Nothing is assumed of the network, *)
(* the modem or its willingness to delete.                                 *)
(***************************************************************************)
Fairness ==
    /\ WF_vars(Loop)
    /\ WF_vars(Watcher)
    /\ WF_vars(\E t \in timers : OnSmsRetry(t))
    /\ WF_vars(\E x \in pushes : PushTask(x))

FairSpec == Spec /\ Fairness

\* Somebody will still look at message m: its path is in view, it is in the
\* hands of a task, or the next listing is yet to come.
Due(m) ==
    \/ session # "supervising"
    \/ \E p \in Paths : object[p] = m /\ Watched(p)
    \/ \E x \in pushes : x.msg = m

\* Steps that should have stored a message and have not.
StoreStepFails ==
    /\ UNCHANGED <<db, deleters, pushes>>
    /\ \E p \in Paths :
        /\ Readable(p) /\ object[p] \in whole
        /\ OnSmsAdded(p) \/ \E t \in timers : t.path = p /\ OnSmsRetry(t)

PushStepFails == \E x \in pushes : PushTask(x) /\ ~Stored(x.msg) /\ UNCHANGED db

KeptInView ==
    [][\A m \in sim \cap whole :
        Due(m) /\ ~Stored(m) /\ m \in sim' =>
            Due(m)' \/ Stored(m)' \/ StoreStepFails \/ PushStepFails]_vars

(***************************************************************************)
(* A message that is complete on the modem gets into the table once the    *)
(* modem and the process stay up: an announcement that came before the     *)
(* last part, a session that ended under it, a listing that raced a signal *)
(* or a crash only delay it (on_sms_added, supervise).  No step but a      *)
(* failed INSERT lets go of it unstored (KeptInView), and it is not held   *)
(* for ever.                                                               *)
(***************************************************************************)
EventuallyStored ==
    /\ KeptInView
    /\ \A m \in Messages :
        <>[]present /\ <>[][~Restart]_vars =>
            []<>~(m \in sim \cap whole /\ Due(m) /\ ~Stored(m))


----------------------------------------------------------------------------
(* The inductive strengthening of KeptInView (proved in SmsInboxProofs).   *)

\* A modem that is there shows every message it has stored.
SimIsShown == present => \A m \in sim : \E p \in Paths : object[p] = m

\* A session has its modem until it has noticed the loss.
SessionHasModem == session \in {"activated", "subscribed", "supervising"} => present

\* The gateway has its handle back before it reads what a session announces.
HandleForSession ==
    session # "down" =>
        \/ modem /\ \A j \in 1..Len(queue) : queue[j] # Down
        \/ \E k \in 1..Len(queue) :
              queue[k] = Up /\ \A j \in k..Len(queue) : queue[j] # Down

\* What is on the modem is announced by its session, whatever sessions before
\* it have announced: its announcement comes behind every Up.
AnnouncedAfterUp ==
    session = "supervising" =>
        \A k \in 1..Len(queue) : queue[k] = Up =>
            \A p \in Paths : object[p] # NoMessage =>
                \/ p \in signalled \cup listed
                \/ \E j \in (k + 1)..Len(queue) : queue[j] = SmsAdded(p)

ViewInv ==
    /\ PathsAreFresh /\ SimIsShown
    /\ SessionHasModem /\ HandleForSession /\ AnnouncedAfterUp
=============================================================================
