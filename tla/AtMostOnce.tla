----------------------------- MODULE AtMostOnce -----------------------------
(***************************************************************************)
(* What the server side of the SIP core promises: a request that was asked *)
(* is executed at most once, and whoever asked learns of an answer only    *)
(* after the execution has ended with one.  There is no network here, no   *)
(* copies and no cache; SipServer is shown to implement this.              *)
(***************************************************************************)
EXTENDS Naturals

CONSTANT Requests

VARIABLES
    asked,      \* requests somebody has made
    executions, \* executions[t]: how often t was executed
    running,    \* executions that have not ended
    learned     \* requests whose answer the asker has

vars == <<asked, executions, running, learned>>

Init ==
    /\ asked = {}
    /\ executions = [t \in Requests |-> 0]
    /\ running = {}
    /\ learned = {}

Ask(t) ==
    /\ t \notin asked
    /\ asked' = asked \cup {t}
    /\ UNCHANGED <<executions, running, learned>>

Execute(t) ==
    /\ t \in asked
    /\ executions[t] = 0
    /\ executions' = [executions EXCEPT ![t] = 1]
    /\ running' = running \cup {t}
    /\ UNCHANGED <<asked, learned>>

Finish(t) ==
    /\ t \in running
    /\ running' = running \ {t}
    /\ UNCHANGED <<asked, executions, learned>>

Learn(t) ==
    /\ executions[t] = 1
    /\ t \notin running \cup learned
    /\ learned' = learned \cup {t}
    /\ UNCHANGED <<asked, executions, running>>

Next == \E t \in Requests : Ask(t) \/ Execute(t) \/ Finish(t) \/ Learn(t)

Spec == Init /\ [][Next]_vars
=============================================================================
