------------------------------ MODULE MmsStore ------------------------------
(***************************************************************************)
(* Incoming MMS (mms/manager.rs): a notification is stored, the body is    *)
(* fetched from the MMSC, its parts are stored, and the MMSC is told, who  *)
(* then drops its copy.  Every notification and every request for the      *)
(* retrieve page of the HTTP API runs in a task of its own, so several of  *)
(* them may work on one message, each database operation being a step.     *)
(*                                                                         *)
(* A message is named by its transaction id, under which its row is found. *)
(* No two have the sender and the date in common, so the second check of   *)
(* insert_message never fires.  The contents of files and rows are left    *)
(* out: a part is listed in the attachments table or it is not.  The MMSC  *)
(* sends the same parts each time, so there is nothing to prune.           *)
(***************************************************************************)
EXTENDS Naturals

CONSTANTS
    Mms,        \* messages the MMSC has for us
    LastPart,   \* each has the parts 1..LastPart that are not SMIL
    PushTasks,  \* bound: tasks of handle_mms_push that run at once
    HttpTasks,  \* bound: requests to the HTTP API at once
    Idle,       \* task[k] when k does not run
    Env         \* "crash": the process dies and is started again

Tasks == PushTasks \cup HttpTasks
Parts == 1..LastPart

\* Where a task is: in handle_push (insert, duplicate, notify_resp), in
\* retrieve (fetch, store, ack), or with an error to write down (failed).
Stages == {"insert", "duplicate", "notify_resp", "fetch", "store", "ack", "failed"}

\* stored: how many parts the loop of store_retrieved has stored.
Running == [mms : Mms, at : Stages, stored : 0..LastPart]

ASSUME PartsAssumption == LastPart \in Nat
ASSUME IdleAssumption == Idle \notin Running
ASSUME EnvAssumption == Env \subseteq {"crash"}

VARIABLES
    config,     \* mms.enabled and mms.auto_retrieve
    mmsc,       \* mmsc[m]: the MMSC's copy
    deferred,   \* messages the MMSC has been told are deferred
    status,     \* status[m]: the row of the messages table
    attached,   \* attached[m]: the parts in the attachments table
    task        \* task[k]

vars == <<config, mmsc, deferred, status, attached, task>>

Configs == {"auto", "manual", "disabled"}
Copies == {"unsent", "held", "acknowledged", "expired"}
Statuses == {"none", "notified", "retrieve_failed", "received"}

TypeOK ==
    /\ config \in Configs
    /\ mmsc \in [Mms -> Copies]
    /\ deferred \in SUBSET Mms
    /\ status \in [Mms -> Statuses]
    /\ attached \in [Mms -> SUBSET Parts]
    /\ task \in [Tasks -> Running \cup {Idle}]

Init ==
    /\ config \in Configs
    /\ mmsc = [m \in Mms |-> "unsent"]
    /\ deferred = {}
    /\ status = [m \in Mms |-> "none"]
    /\ attached = [m \in Mms |-> {}]
    /\ task = [k \in Tasks |-> Idle]

----------------------------------------------------------------------------
(* Tasks.                                                                  *)

\* Task k works on m and has got to s.
At(k, m, s) == task[k] # Idle /\ task[k].mms = m /\ task[k].at = s
Goto(k, m, s) == task' = [task EXCEPT ![k] = [mms |-> m, at |-> s, stored |-> 0]]
Stored(k, m) == task' = [task EXCEPT ![k] = [mms |-> m, at |-> "store", stored |-> task[k].stored + 1]]
End(k) == task' = [task EXCEPT ![k] = Idle]

\* The MMSC, or one that hears no answer and asks again, sends a push; the
\* gateway spawns a task for it.
Notify(m) ==
    /\ mmsc[m] \in {"unsent", "held"}
    /\ m \notin deferred
    /\ mmsc' = [mmsc EXCEPT ![m] = "held"]
    /\ \E k \in PushTasks : task[k] = Idle /\ Goto(k, m, "insert")
    /\ UNCHANGED <<config, deferred, status, attached>>

\* POST or GET /messages/<id>/retrieve.
retrieve_stored(m) ==
    /\ config # "disabled"
    /\ status[m] # "none"
    /\ \E k \in HttpTasks : task[k] = Idle /\ Goto(k, m, "fetch")
    /\ UNCHANGED <<config, mmsc, deferred, status, attached>>

\* An operation of the database or of the network fails and the task ends.
GiveUp(k, m) ==
    /\ \E s \in {"insert", "duplicate", "notify_resp", "ack", "failed"} : At(k, m, s)
    /\ End(k)
    /\ UNCHANGED <<config, mmsc, deferred, status, attached>>

\* handle: the deadline of a request drops the retrieval wherever it is.
Deadline(k, m) ==
    /\ k \in HttpTasks
    /\ \E s \in Stages : At(k, m, s)
    /\ End(k)
    /\ UNCHANGED <<config, mmsc, deferred, status, attached>>

\* handle_push: insert_message, and what follows for a new row.
Insert(k, m) ==
    /\ At(k, m, "insert")
    /\ IF status[m] # "none"
         THEN Goto(k, m, "duplicate") /\ UNCHANGED status
         ELSE /\ status' = [status EXCEPT ![m] = "notified"]
              /\ \/ config = "disabled" /\ End(k)
                 \/ config = "manual" /\ Goto(k, m, "notify_resp")
                 \/ config = "auto" /\ Goto(k, m, "fetch")
    /\ UNCHANGED <<config, mmsc, deferred, attached>>

\* Mutant: a notification that is known is ignored.
DuplicateIgnored(k, m) ==
    /\ At(k, m, "duplicate")
    /\ End(k)
    /\ UNCHANGED <<config, mmsc, deferred, status, attached>>

\* retriable_duplicate: a message whose body is still missing is fetched.
Duplicate(k, m) ==
    /\ At(k, m, "duplicate")
    /\ IF config = "auto" /\ status[m] \in {"notified", "retrieve_failed"}
         THEN Goto(k, m, "fetch")
         ELSE End(k)
    /\ UNCHANGED <<config, mmsc, deferred, status, attached>>

\* M-NotifyResp.ind with status deferred.
notify_resp(k, m) ==
    /\ At(k, m, "notify_resp")
    /\ deferred' = deferred \cup {m}
    /\ End(k)
    /\ UNCHANGED <<config, mmsc, status, attached>>

\* Mutant: the MMSC is told before the body is stored.
FetchAcknowledged(k, m) ==
    /\ At(k, m, "fetch")
    /\ mmsc[m] = "held"
    /\ mmsc' = [mmsc EXCEPT ![m] = "acknowledged"]
    /\ Goto(k, m, "store")
    /\ UNCHANGED <<config, deferred, status, attached>>

\* retrieve: a body that is an M-Retrieve.conf with status Ok.
Fetch(k, m) ==
    /\ At(k, m, "fetch")
    /\ mmsc[m] = "held"
    /\ Goto(k, m, "store")
    /\ UNCHANGED <<config, mmsc, deferred, status, attached>>

\* Mutant: a retry skips what an earlier attempt has begun.
StorePartSkipped(k, m) ==
    /\ At(k, m, "store")
    /\ task[k].stored < LastPart
    /\ attached' = [attached EXCEPT ![m] = IF @ = {} THEN {1} ELSE @]
    /\ Stored(k, m)
    /\ UNCHANGED <<config, mmsc, deferred, status>>

\* store_retrieved: one part, replacing what an earlier attempt stored.
StorePart(k, m) ==
    /\ At(k, m, "store")
    /\ task[k].stored < LastPart
    /\ attached' = [attached EXCEPT ![m] = @ \cup {task[k].stored + 1}]
    /\ Stored(k, m)
    /\ UNCHANGED <<config, mmsc, deferred, status>>

\* store_retrieved, after the loop: the row is marked.
Finish(k, m) ==
    /\ At(k, m, "store")
    /\ task[k].stored = LastPart
    /\ status' = [status EXCEPT ![m] = "received"]
    /\ Goto(k, m, "ack")
    /\ UNCHANGED <<config, mmsc, deferred, attached>>

\* retrieve: M-Acknowledge.ind.
Acknowledge(k, m) ==
    /\ At(k, m, "ack")
    /\ mmsc' = [mmsc EXCEPT ![m] = IF @ = "held" THEN "acknowledged" ELSE @]
    /\ End(k)
    /\ UNCHANGED <<config, deferred, status, attached>>

\* retrieve returns an error: no bearer, an MMSC that has nothing or sends
\* something else, a database or a disk that will not store.
RetrieveFails(k, m) ==
    /\ \E s \in {"fetch", "store"} : At(k, m, s)
    /\ Goto(k, m, "failed")
    /\ UNCHANGED <<config, mmsc, deferred, status, attached>>

\* ... and its callers write that down.
MarkFailed(k, m) ==
    /\ At(k, m, "failed")
    /\ status' = [status EXCEPT ![m] = "retrieve_failed"]
    /\ End(k)
    /\ UNCHANGED <<config, mmsc, deferred, attached>>

----------------------------------------------------------------------------
(* The MMSC and the process.                                               *)

Expire(m) ==
    /\ mmsc[m] = "held"
    /\ mmsc' = [mmsc EXCEPT ![m] = "expired"]
    /\ UNCHANGED <<config, deferred, status, attached, task>>

\* A new process, possibly with another configuration.
Restart ==
    /\ "crash" \in Env
    /\ config' \in Configs
    /\ task' = [k \in Tasks |-> Idle]
    /\ UNCHANGED <<mmsc, deferred, status, attached>>

----------------------------------------------------------------------------

Step(k, m) ==
    \/ Insert(k, m) \/ Duplicate(k, m) \/ notify_resp(k, m)
    \/ Fetch(k, m) \/ StorePart(k, m) \/ Finish(k, m) \/ Acknowledge(k, m)
    \/ RetrieveFails(k, m) \/ MarkFailed(k, m) \/ GiveUp(k, m) \/ Deadline(k, m)

Next ==
    \/ \E m \in Mms : Notify(m) \/ retrieve_stored(m) \/ Expire(m)
    \/ \E k \in Tasks, m \in Mms : Step(k, m)
    \/ Restart

Spec == Init /\ [][Next]_vars

----------------------------------------------------------------------------
(* Properties.                                                             *)

(***************************************************************************)
(* A message that is reported as received has all its parts, however many  *)
(* retrievals of it ran at once, failed half way or died with the process  *)
(* (store_retrieved, prune_attachments).                                   *)
(***************************************************************************)
ReceivedIsComplete == \A m \in Mms : status[m] = "received" => attached[m] = Parts

(***************************************************************************)
(* The MMSC's copy goes away with the acknowledgement, so the message is   *)
(* in the attachments table by then, and stays there whatever a later or a *)
(* concurrent retrieval does ("acknowledging it makes the MMSC drop the    *)
(* real message for good", retrieve).                                      *)
(***************************************************************************)
AcknowledgedIsKept == \A m \in Mms : mmsc[m] = "acknowledged" => attached[m] = Parts

----------------------------------------------------------------------------
(* The inductive strengthening (proved in MmsStoreProofs).                 *)

\* A task has stored the parts it has counted, and all before it acks.
Progress ==
    \A k \in Tasks, m \in Mms :
        /\ At(k, m, "store") => 1..task[k].stored \subseteq attached[m]
        /\ At(k, m, "ack") => attached[m] = Parts

StoreInv == ReceivedIsComplete /\ AcknowledgedIsKept /\ Progress

----------------------------------------------------------------------------
(* Liveness.                                                               *)

(***************************************************************************)
(* Tasks run.  The carrier notifies again until it is answered, which is   *)
(* what a failed retrieval stays quiet for, and what may fail does not     *)
(* fail every time: the database, the bearer, the MMSC's answer.           *)
(***************************************************************************)
Fairness ==
    /\ \A k \in Tasks : WF_vars(\E m \in Mms : Step(k, m))
    /\ \A m \in Mms :
         /\ SF_vars(Notify(m))
         /\ SF_vars(\E k \in Tasks : Insert(k, m))
         /\ SF_vars(\E k \in Tasks : Duplicate(k, m))
         /\ SF_vars(\E k \in Tasks : Fetch(k, m))
         /\ \A i \in Parts : SF_vars(\E k \in Tasks : StorePart(k, m) /\ task[k].stored = i - 1)
         /\ SF_vars(\E k \in Tasks : Finish(k, m))

FairSpec == Spec /\ Fairness

(***************************************************************************)
(* With automatic retrieval from some time on, the parts of a message the  *)
(* MMSC keeps, and was not told to keep quiet about, get stored: "leaving  *)
(* it to the carrier to re-notify" works (handle_push,                     *)
(* retriable_duplicate).                                                   *)
(***************************************************************************)
EventuallyFetched ==
    <>[](config = "auto") /\ <>[][~Restart]_vars =>
        \A m \in Mms :
            (mmsc[m] = "held" /\ m \notin deferred)
                ~> (attached[m] = Parts \/ mmsc[m] = "expired" \/ m \in deferred)
=============================================================================
