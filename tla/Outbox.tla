------------------------------- MODULE Outbox -------------------------------
(***************************************************************************)
(* Outgoing SMS and MMS, submitted as a SIP MESSAGE or through the HTTP    *)
(* API.                                                                    *)
(*                                                                         *)
(* Every submission is a task.  An SMS becomes an object of ModemManager   *)
(* that is sent, then a row of the messages table, then the object is      *)
(* tidied up unless delivery reports need it.  An MMS becomes a row        *)
(* "sending" first, then a POST to the MMSC, whose answer settles the row. *)
(* A task of the HTTP API lives under a deadline that drops it wherever it *)
(* waits.                                                                  *)
(***************************************************************************)
EXTENDS Naturals

CONSTANTS
    Sms,            \* submissions of a text message
    Mms,            \* submissions of an MMS
    Http,           \* those that come through the HTTP API
    DeleteFromModem,\* sms.delete_from_modem
    Attempts,       \* tries of delete_from_modem: one, and one per RETRY_AFTER
    MaxRefusals,    \* bound: deletions of one object the modem refuses
    Env             \* which faults may happen:
                    \* "db": an INSERT or UPDATE fails;
                    \* "modem": the modem goes away and comes back;
                    \* "crash": the process dies and is started again;
                    \* "slow": a task of the HTTP API outlives its deadline

Requests == Sms \cup Mms

ASSUME RequestsAssumption == Sms \cap Mms = {} /\ Http \subseteq Requests
ASSUME DeleteAssumption == DeleteFromModem \in BOOLEAN
ASSUME AttemptsAssumption == Attempts \in Nat /\ MaxRefusals \in Nat /\ MaxRefusals < Attempts
ASSUME EnvAssumption == Env \subseteq {"db", "modem", "crash", "slow"}

VARIABLES
    present,    \* the modem is reachable over D-Bus
    modem,      \* the gateway has a handle, and the watcher a session
    reports,    \* sms.delivery_report, read when the process starts
    announced,  \* SmsAdded events in the queue, by submission
    object,     \* object[r]: ModemManager's object of an SMS
    left,       \* left[r]: tries delete_from_modem still has for it
    refused,    \* refused[r]: deletions the modem has refused
    pc,         \* pc[r]: what the task does next
    verdict,    \* verdict[r]: what ModemManager or the MMSC has said, heard or not
    row,        \* row[r]: status of the row in the messages table
    told        \* told[r]: the answer the submitter has, 0 for none yet

world == <<present, modem, reports>>
objects == <<announced, object, left, refused>>
tasks == <<pc, verdict, row, told>>
vars == <<world, objects, tasks>>

SmsSteps == {"create", "send", "record"}
MmsSteps == {"load", "insert", "prepare", "post", "settle"}
Over == {"done", "expired", "died"}

TypeOK ==
    /\ present \in BOOLEAN /\ modem \in BOOLEAN /\ reports \in BOOLEAN
    /\ announced \subseteq Sms
    /\ object \in [Sms -> {"none", "created", "sent"}]
    /\ left \in [Sms -> 0..Attempts]
    /\ refused \in [Sms -> 0..MaxRefusals]
    /\ pc \in [Requests -> {"new"} \cup SmsSteps \cup MmsSteps \cup Over]
    /\ verdict \in [Requests -> {"none", "ok", "unclear", "refused", "error"}]
    /\ row \in [Requests -> {"none", "sending", "sent", "failed"}]
    /\ told \in [Requests -> {0, 202, 500, 503}]

Init ==
    /\ present = TRUE /\ modem = FALSE
    /\ reports \in BOOLEAN
    /\ announced = {}
    /\ object = [r \in Sms |-> "none"]
    /\ left = [r \in Sms |-> 0]
    /\ refused = [r \in Sms |-> 0]
    /\ pc = [r \in Requests |-> "new"]
    /\ verdict = [r \in Requests |-> "none"]
    /\ row = [r \in Requests |-> "none"]
    /\ told = [r \in Requests |-> 0]

----------------------------------------------------------------------------
(* A task's own steps.                                                     *)

\* r is at step `from`; nothing is assumed of where it goes.
At(r, from) == pc[r] = from

Goto(r, to) ==
    /\ pc' = [pc EXCEPT ![r] = to]
    /\ UNCHANGED told

Answer(r, code) ==
    /\ pc' = [pc EXCEPT ![r] = "done"]
    /\ told' = [told EXCEPT ![r] = code]

\* on_sip_message, POST sms, POST mms: there must be a modem.
Submit(r) ==
    /\ At(r, "new")
    /\ IF modem THEN Goto(r, IF r \in Sms THEN "create" ELSE "load")
                ELSE Answer(r, 503)
    /\ UNCHANGED <<world, objects, verdict, row>>

----------------------------------------------------------------------------
(* SMS.                                                                    *)

\* Mutant: the configuration is forgotten where a message is recorded.
TidiesAlways == DeleteFromModem

\* The object of a sent message is of no use to anybody.
Tidies == DeleteFromModem /\ ~reports

\* delete_from_modem: a detached task.
delete_from_modem(r) == left' = [left EXCEPT ![r] = Attempts]

\* Messaging.Create; the watcher forwards the signal.
Create(r) ==
    /\ At(r, "create")
    /\ \/ /\ present
          /\ object' = [object EXCEPT ![r] = "created"]
          /\ announced' = IF modem THEN announced \cup {r} ELSE announced
          /\ Goto(r, "send")
       \/ Answer(r, 500) /\ UNCHANGED <<object, announced>>
    /\ UNCHANGED <<world, left, refused, verdict, row>>

\* Sms.Send; when it fails the object is deleted, or is left behind when
\* that fails too.
Send(r) ==
    /\ At(r, "send")
    /\ \/ /\ object[r] = "created"
          /\ object' = [object EXCEPT ![r] = "sent"]
          /\ verdict' = [verdict EXCEPT ![r] = "ok"]
          /\ Goto(r, "record")
       \/ /\ object' \in {object, [object EXCEPT ![r] = "none"]}
          /\ verdict' = [verdict EXCEPT ![r] = "error"]
          /\ Answer(r, 500)
    /\ UNCHANGED <<world, announced, left, refused, row>>

\* Mutant: the row is what counts, and without it nothing is tidied up.
RecordOrKeep(r) ==
    /\ At(r, "record")
    /\ \/ /\ row' = [row EXCEPT ![r] = "sent"]
          /\ IF Tidies THEN delete_from_modem(r) ELSE UNCHANGED left
       \/ "db" \in Env /\ UNCHANGED <<row, left>>
    /\ Answer(r, 202)
    /\ UNCHANGED <<world, announced, object, refused, verdict>>

\* The message is on the air; that it cannot be recorded changes nothing.
Record(r) ==
    /\ At(r, "record")
    /\ \/ row' = [row EXCEPT ![r] = "sent"]
       \/ "db" \in Env /\ UNCHANGED row
    /\ IF Tidies THEN delete_from_modem(r) ELSE UNCHANGED left
    /\ Answer(r, 202)
    /\ UNCHANGED <<world, announced, object, refused, verdict>>

\* on_sms_added, of an object that is no incoming message.
OnSmsAdded(r) ==
    /\ r \in announced
    /\ announced' = announced \ {r}
    /\ IF modem /\ object[r] = "sent" /\ Tidies
         THEN delete_from_modem(r) ELSE UNCHANGED left
    /\ UNCHANGED <<world, object, refused, tasks>>

Deleted(r) ==
    /\ left[r] > 0
    /\ object[r] # "none"
    /\ object' = [object EXCEPT ![r] = "none"]
    /\ left' = [left EXCEPT ![r] = 0]
    /\ UNCHANGED <<world, announced, refused, tasks>>

\* The modem has not settled the message yet, or has nothing there.
DeleteRefused(r) ==
    /\ left[r] > 0
    /\ left' = [left EXCEPT ![r] = @ - 1]
    /\ \/ object[r] = "none" /\ UNCHANGED refused
       \/ /\ object[r] # "none"
          /\ refused[r] < MaxRefusals
          /\ refused' = [refused EXCEPT ![r] = @ + 1]
    /\ UNCHANGED <<world, announced, object, tasks>>

----------------------------------------------------------------------------
(* MMS.                                                                    *)

\* The attachments are read and decoded, the message is encoded.
Load(r) ==
    /\ At(r, "load")
    /\ Goto(r, "insert") \/ Answer(r, 500)
    /\ UNCHANGED <<world, objects, verdict, row>>

Insert(r) ==
    /\ At(r, "insert")
    /\ \/ row' = [row EXCEPT ![r] = "sending"] /\ Goto(r, "prepare")
       \/ "db" \in Env /\ Answer(r, 500) /\ UNCHANGED row
    /\ UNCHANGED <<world, objects, verdict>>

\* add_attachment for every part, then run_setup_command: with an error of
\* either the row stays as it is.
Prepare(r) ==
    /\ At(r, "prepare")
    /\ Goto(r, "post") \/ Answer(r, 500)
    /\ UNCHANGED <<world, objects, verdict, row>>

\* The MMSC confirms, answers 200 with something that cannot be decoded,
\* rejects the message or the request, or does not answer.
Post(r) ==
    /\ At(r, "post")
    /\ \E v \in {"ok", "unclear", "refused", "error"} : verdict' = [verdict EXCEPT ![r] = v]
    /\ Goto(r, "settle")
    /\ UNCHANGED <<world, objects, row>>

\* No status at all is taken for acceptance, an explicit refusal is not.
Accepted(v) == v \in {"ok", "unclear"}

\* Mutant: an UPDATE that fails is only logged.
SettleAnyway(r) ==
    /\ At(r, "settle")
    /\ \/ row' = [row EXCEPT ![r] = IF Accepted(verdict[r]) THEN "sent" ELSE "failed"]
       \/ "db" \in Env /\ UNCHANGED row
    /\ Answer(r, IF Accepted(verdict[r]) THEN 202 ELSE 500)
    /\ UNCHANGED <<world, objects, verdict>>

Settle(r) ==
    /\ At(r, "settle")
    /\ \/ /\ row' = [row EXCEPT ![r] = IF Accepted(verdict[r]) THEN "sent" ELSE "failed"]
          /\ Answer(r, IF Accepted(verdict[r]) THEN 202 ELSE 500)
       \/ "db" \in Env /\ Answer(r, 500) /\ UNCHANGED row
    /\ UNCHANGED <<world, objects, verdict>>

----------------------------------------------------------------------------
(* The deadline, the modem and the process.                                *)

\* The timeout of the HTTP API drops the task where it waits; what it was
\* waiting for may have happened, and nobody answers the client.
Deadline(r) ==
    /\ "slow" \in Env
    /\ r \in Http
    /\ pc[r] \notin {"new"} \cup Over
    /\ Goto(r, "expired")
    /\ \/ UNCHANGED verdict
       \/ At(r, "post") /\ verdict' = [verdict EXCEPT ![r] = "ok"]
    /\ UNCHANGED <<world, objects, row>>

\* The objects go with the modem.
ModemVanishes ==
    /\ "modem" \in Env
    /\ present
    /\ present' = FALSE
    /\ object' = [r \in Sms |-> "none"]
    /\ UNCHANGED <<modem, reports, announced, left, refused, tasks>>

ModemReturns ==
    /\ ~present
    /\ ~modem
    /\ present' = TRUE
    /\ UNCHANGED <<modem, reports, objects, tasks>>

\* ModemEvent::Down.
SessionDown ==
    /\ modem
    /\ ~present
    /\ modem' = FALSE
    /\ UNCHANGED <<present, reports, objects, tasks>>

\* ModemEvent::Up, and the objects supervise lists.
SessionUp ==
    /\ ~modem
    /\ present
    /\ modem' = TRUE
    /\ announced' = announced \cup {r \in Sms : object[r] # "none"}
    /\ UNCHANGED <<present, reports, object, left, refused, tasks>>

\* The tasks and the queue are gone; the configuration is read again.
Restart ==
    /\ "crash" \in Env
    /\ modem' = FALSE
    /\ reports' \in BOOLEAN
    /\ announced' = {}
    /\ left' = [r \in Sms |-> 0]
    /\ pc' = [r \in Requests |-> IF pc[r] \in {"new"} \cup Over THEN pc[r] ELSE "died"]
    /\ UNCHANGED <<present, object, refused, verdict, row, told>>

----------------------------------------------------------------------------

Task(r) ==
    \/ r \in Sms /\ (Create(r) \/ Send(r) \/ Record(r))
    \/ r \in Mms /\ (Load(r) \/ Insert(r) \/ Prepare(r) \/ Post(r) \/ Settle(r))

Deleter(r) == Deleted(r) \/ DeleteRefused(r)

Next ==
    \/ \E r \in Requests : Submit(r) \/ Task(r) \/ Deadline(r)
    \/ \E r \in Sms : OnSmsAdded(r) \/ Deleter(r)
    \/ ModemVanishes \/ ModemReturns
    \/ SessionDown \/ SessionUp
    \/ Restart

Spec == Init /\ [][Next]_vars

(***************************************************************************)
(* tokio runs the tasks, the event loop and the watcher when they can run; *)
(* the retries of a deletion sleep for bounded times.  That a task gets on *)
(* means that D-Bus, the MMSC and the setup command end their calls, which *)
(* the code bounds for all but the setup command.                          *)
(***************************************************************************)
Fairness ==
    /\ \A r \in Requests : WF_vars(Task(r))
    /\ \A r \in Sms : WF_vars(OnSmsAdded(r)) /\ WF_vars(Deleter(r))
    /\ WF_vars(SessionUp) /\ WF_vars(SessionDown)

FairSpec == Spec /\ Fairness

----------------------------------------------------------------------------
(* Properties.                                                             *)

(***************************************************************************)
(* What the submitter has been told, what the table says and what the     *)
(* network has said agree, whichever of the steps of a submission failed,  *)
(* was dropped or died (on_sip_message, POST sms, send): 202 only for a    *)
(* message that was accepted, and never beside a row that is not settled;  *)
(* "sent" never beside a 500; "sent" and "failed" only as the answer was.  *)
(***************************************************************************)
ToldTheTruth ==
    \A r \in Requests :
        /\ told[r] = 202 => Accepted(verdict[r]) /\ row[r] \notin {"sending", "failed"}
        /\ told[r] = 202 /\ r \in Mms => row[r] = "sent"
        /\ row[r] = "sent" => verdict[r] \in {"ok", "unclear"} /\ told[r] # 500
        /\ row[r] = "failed" => verdict[r] \in {"refused", "error"}

(***************************************************************************)
(* "Delivery reports need the object to match them against"                *)
(* (on_sms_added): with reports on, the object of a sent message goes only *)
(* with the modem, though two places tidy up and the configuration may     *)
(* have changed with a restart while a message was on its way.             *)
(***************************************************************************)
KeptForReports ==
    [][\A r \in Sms : object[r] = "sent" /\ reports => object'[r] = "sent" \/ ~present']_vars

(***************************************************************************)
(* "They pile up for as long as the modem stays put" (on_sms_added): with  *)
(* reports off, the object of a sent message leaves the modem, recorded or *)
(* not, through refused deletions and restarts.  The one way to leave it   *)
(* to a later session is a deadline that strikes right after Send.         *)
(***************************************************************************)
SentLeavesTheModem ==
    \A r \in Sms :
        <>[][~Restart]_vars =>
            object[r] = "sent" ~> object[r] = "none" \/ reports \/ pc[r] = "expired"

----------------------------------------------------------------------------
(* The inductive strengthening (proved in OutboxProofs).                   *)

\* What each step of a submission may rely on.
Steps(r) ==
    /\ pc[r] = "done" <=> told[r] # 0
    /\ pc[r] \in {"new", "create", "send", "load", "insert"} =>
         verdict[r] = "none" /\ row[r] = "none"
    /\ pc[r] = "record" => verdict[r] = "ok" /\ row[r] = "none"
    /\ pc[r] \in {"prepare", "post"} => verdict[r] = "none" /\ row[r] = "sending"
    /\ pc[r] = "settle" => verdict[r] # "none" /\ row[r] = "sending"

\* A task is at steps of its own kind.
Kinds ==
    \A r \in Requests :
        /\ pc[r] \in SmsSteps => r \in Sms
        /\ pc[r] \in MmsSteps => r \in Mms

OutboxInv == ToldTheTruth /\ Kinds /\ \A r \in Requests : Steps(r)

\* With reports on nobody is deleting, and an object is sent by its task only.
NoDeleterWithReports == reports => \A r \in Sms : left[r] = 0

SentByItsTask == \A r \in Sms : pc[r] \in {"new", "create", "send"} => object[r] # "sent"
=============================================================================
