----------------------------- MODULE ModemLink -----------------------------
(***************************************************************************)
(* ModemManager's call objects, the D-Bus session that watches them        *)
(* (mm/watcher.rs) and the operations of the modem handle (mm/mod.rs).     *)
(*                                                                         *)
(* A leg is a ModemManager call object, named by its object path.  The     *)
(* network moves it between states; the watcher turns the signals of the   *)
(* objects it has subscribed to into the FIFO queue of ModemEvents the     *)
(* gateway reads; the gateway dials, accepts and hangs up through the      *)
(* handle.  The module has no Next of its own: Gateway composes its        *)
(* actions with the gateway's handlers.                                    *)
(***************************************************************************)
EXTENDS Naturals, Sequences

CONSTANTS
    Legs,       \* object paths of ModemManager calls
    NoLeg,      \* the path of an event that concerns no call
    MaxEvents   \* bound: the network and the modem stay quiet while this
                \* many events wait for the gateway

ASSUME LegsAssumption == NoLeg \notin Legs
ASSUME MaxEventsAssumption == MaxEvents \in Nat

VARIABLES
    leg,        \* leg[l]: the state of the call object at path l
    dir,        \* dir[l]: the direction of that call ("in" when there is none)
    present,    \* the modem is enabled and reachable over D-Bus
    session,    \* where the watcher's session loop is
    announced,  \* calls listed or signalled that supervise has not handled
    sub,        \* sub[l]: the StateChanged subscription of l's watcher task
    modemQ      \* the ModemEvent channel

linkVars == <<leg, dir, present, session, announced, sub, modemQ>>

LiveStates == {"ringing_in", "dialing", "ringing_out", "active"}
LegStates == LiveStates \cup {"none", "ending", "terminated"}
Sessions == {"waiting", "activated", "supervising", "losing"}

ModemEvents ==
    [ev : {"Up", "Down", "CallAdded", "CallDeleted", "CallState"},
     leg : Legs \cup {NoLeg}, st : LegStates]

Up == [ev |-> "Up", leg |-> NoLeg, st |-> "none"]
Down == [ev |-> "Down", leg |-> NoLeg, st |-> "none"]
CallAdded(l) == [ev |-> "CallAdded", leg |-> l, st |-> "none"]
CallDeleted(l) == [ev |-> "CallDeleted", leg |-> l, st |-> "none"]
CallState(l, s) == [ev |-> "CallState", leg |-> l, st |-> s]

LinkTypeOK ==
    /\ leg \in [Legs -> LegStates]
    /\ dir \in [Legs -> {"in", "out"}]
    /\ present \in BOOLEAN
    /\ session \in Sessions
    /\ announced \in SUBSET Legs
    /\ sub \in [Legs -> {"off", "starting", "on"}]
    /\ modemQ \in Seq(ModemEvents)

LinkInit ==
    /\ leg = [l \in Legs |-> "none"]
    /\ dir = [l \in Legs |-> "in"]
    /\ present = FALSE
    /\ session = "waiting"
    /\ announced = {}
    /\ sub = [l \in Legs |-> "off"]
    /\ modemQ = << >>

\* A call that exists on the mobile network, connected or alerting.
Live(l) == leg[l] \in LiveStates

\* The supervise loop holds its signal subscriptions.
Supervised == session \in {"supervising", "losing"}

\* Room for an event nobody but the outside world caused.
Room == Len(modemQ) < MaxEvents

----------------------------------------------------------------------------
(* Signals: what the watcher forwards when an object changes.              *)

\* Only a subscribed watcher task sees StateChanged; an earlier one is lost.
StateSignal(l, s, q) ==
    IF present /\ sub[l] = "on" THEN Append(q, CallState(l, s)) ELSE q

DeletedSignal(l, q) == IF Supervised THEN Append(q, CallDeleted(l)) ELSE q

\* CallAdded, as a signal on the supervise loop's subscription.
Announce(l) == announced' = IF Supervised THEN announced \cup {l} ELSE announced

----------------------------------------------------------------------------
(* The modem handle.                                                       *)

\* The call object is removed from ModemManager.
Delete(l) ==
    /\ leg' = [leg EXCEPT ![l] = "none"]
    /\ dir' = [dir EXCEPT ![l] = "in"]
    /\ sub' = [sub EXCEPT ![l] = "off"]

(***************************************************************************)
(* hangup and release_call: Call.Hangup, wait for `terminated`, HangupAll  *)
(* when that does not come, wait again, DeleteCall.  q is the event queue  *)
(* the caller has left.  Without a modem on the bus every call fails and   *)
(* nothing changes.  HangupAll is assumed to end every call; only l is     *)
(* waited for, the others are left on their way to `terminated`.  The      *)
(* watcher of l is aborted when CallDeleted is seen, so its last           *)
(* StateChanged may not be forwarded.                                      *)
(***************************************************************************)
HangupNothing(l, q) ==
    /\ ~present \/ leg[l] = "none"
    /\ modemQ' = q
    /\ UNCHANGED <<leg, dir, sub>>

HangupOne(l, q) ==
    /\ present
    /\ leg[l] # "none"
    /\ Delete(l)
    /\ \/ modemQ' = DeletedSignal(l, q)
       \/ Live(l) /\ modemQ' = DeletedSignal(l, StateSignal(l, "terminated", q))

HangupAll(l, q) ==
    /\ present
    /\ Live(l)
    /\ leg' = [k \in Legs |-> IF k = l THEN "none"
                              ELSE IF Live(k) THEN "ending" ELSE leg[k]]
    /\ dir' = [dir EXCEPT ![l] = "in"]
    /\ sub' = [sub EXCEPT ![l] = "off"]
    /\ modemQ' = DeletedSignal(l, q)

Hangup(l, q) ==
    /\ HangupNothing(l, q) \/ HangupOne(l, q) \/ HangupAll(l, q)
    /\ UNCHANGED <<present, session, announced>>

\* delete_call on a call that has ended.
DeleteCall(l, q) ==
    /\ IF present
         THEN Delete(l) /\ modemQ' = DeletedSignal(l, q)
         ELSE modemQ' = q /\ UNCHANGED <<leg, dir, sub>>
    /\ UNCHANGED <<present, session, announced>>

\* dial: CreateCall and Start both succeed; the call is on its way.
DialOk(l) ==
    /\ present
    /\ leg[l] = "none"
    /\ leg' = [leg EXCEPT ![l] = "dialing"]
    /\ dir' = [dir EXCEPT ![l] = "out"]
    /\ Announce(l)
    /\ UNCHANGED <<present, session, sub, modemQ>>

\* dial: CreateCall fails, or Start fails and the object is released again,
\* which leaves the signals of an object that has already gone.
DialErr(l) ==
    /\ \/ modemQ' = modemQ
       \/ /\ present
          /\ Supervised
          /\ leg[l] = "none"
          /\ modemQ' = Append(Append(modemQ, CallAdded(l)), CallDeleted(l))
    /\ UNCHANGED <<leg, dir, present, session, announced, sub>>

\* accept: ModemManager accepts only a call that is ringing.
AcceptOk(l, q) ==
    /\ present
    /\ leg[l] = "ringing_in"
    /\ leg' = [leg EXCEPT ![l] = "active"]
    /\ modemQ' = StateSignal(l, "active", q)
    /\ UNCHANGED <<dir, present, session, announced, sub>>

----------------------------------------------------------------------------
(* The mobile network.                                                     *)

NetIncoming(l) ==
    /\ present
    /\ Room
    /\ leg[l] = "none"
    /\ leg' = [leg EXCEPT ![l] = "ringing_in"]
    /\ dir' = [dir EXCEPT ![l] = "in"]
    /\ Announce(l)
    /\ UNCHANGED <<present, session, sub, modemQ>>

NetProgress(l) ==
    /\ Room
    /\ \E s \in {"ringing_out", "active"} :
         /\ \/ leg[l] = "dialing"
            \/ leg[l] = "ringing_out" /\ s = "active"
         /\ leg' = [leg EXCEPT ![l] = s]
         /\ modemQ' = StateSignal(l, s, modemQ)
    /\ UNCHANGED <<dir, present, session, announced, sub>>

NetHangup(l) ==
    /\ Room
    /\ Live(l)
    /\ leg' = [leg EXCEPT ![l] = "terminated"]
    /\ modemQ' = StateSignal(l, "terminated", modemQ)
    /\ UNCHANGED <<dir, present, session, announced, sub>>

\* A call HangupAll has hung up reaches `terminated`.
NetEnded(l) ==
    /\ leg[l] = "ending"
    /\ leg' = [leg EXCEPT ![l] = "terminated"]
    /\ modemQ' = StateSignal(l, "terminated", modemQ)
    /\ UNCHANGED <<dir, present, session, announced, sub>>

----------------------------------------------------------------------------
(* The modem and the watcher.                                              *)

\* The modem is unplugged, disabled, or ModemManager leaves the bus.  Calls
\* may go with it or survive on the network.
ModemVanishes ==
    /\ present
    /\ Room
    /\ present' = FALSE
    /\ session' = IF session = "waiting" THEN "waiting" ELSE "losing"
    /\ \E gone \in SUBSET Legs :
         /\ leg' = [l \in Legs |-> IF l \in gone THEN "none" ELSE leg[l]]
         /\ dir' = [l \in Legs |-> IF l \in gone THEN "in" ELSE dir[l]]
    /\ UNCHANGED <<announced, sub, modemQ>>

ModemReturns ==
    /\ ~present
    /\ present' = TRUE
    /\ UNCHANGED <<leg, dir, session, announced, sub, modemQ>>

\* session: wait_for_modem and activate succeed, Up is sent.
SessionUp ==
    /\ session = "waiting"
    /\ present
    /\ Room
    /\ session' = "activated"
    /\ modemQ' = Append(modemQ, Up)
    /\ UNCHANGED <<leg, dir, present, announced, sub>>

\* Mutant: the calls that already exist are not listed.
AdoptNothing ==
    /\ session = "activated"
    /\ session' = "supervising"
    /\ UNCHANGED <<leg, dir, present, announced, sub, modemQ>>

\* supervise subscribes to the signals and lists the calls that exist.
Adopt ==
    /\ session = "activated"
    /\ session' = "supervising"
    /\ announced' = announced \cup {l \in Legs : leg[l] # "none"}
    /\ UNCHANGED <<leg, dir, present, sub, modemQ>>

\* supervise handles one listed or signalled call: spawn_call_watch, which
\* replaces an earlier watcher of the same path, then CallAdded.
HandleCallAdded(l) ==
    /\ Supervised
    /\ l \in announced
    /\ announced' = announced \ {l}
    /\ sub' = [sub EXCEPT ![l] = "starting"]
    /\ modemQ' = Append(modemQ, CallAdded(l))
    /\ UNCHANGED <<leg, dir, present, session>>

\* The watcher task gets to its subscription.
Subscribed(l) ==
    /\ sub[l] = "starting"
    /\ sub' = [sub EXCEPT ![l] = "on"]
    /\ UNCHANGED <<leg, dir, present, session, announced, modemQ>>

\* supervise returns: watcher tasks are aborted and Down is sent.
SessionDown ==
    /\ session = "losing"
    /\ session' = "waiting"
    /\ announced' = {}
    /\ sub' = [l \in Legs |-> "off"]
    /\ modemQ' = Append(modemQ, Down)
    /\ UNCHANGED <<leg, dir, present>>

LinkStep(l) ==
    \/ NetProgress(l)
    \/ NetHangup(l)
    \/ NetEnded(l)
    \/ HandleCallAdded(l)
    \/ Subscribed(l)

LinkSession == ModemVanishes \/ ModemReturns \/ SessionUp \/ Adopt \/ SessionDown

\* The process is replaced: its queue and its session die with it.
LinkRestart ==
    /\ session' = "waiting"
    /\ announced' = {}
    /\ sub' = [l \in Legs |-> "off"]
    /\ modemQ' = << >>
    /\ UNCHANGED <<leg, dir, present>>
=============================================================================
