------------------------- MODULE LifecycleContract -------------------------
(***************************************************************************)
(* What managed provider lifecycle promises: a worker performs only what   *)
(* the host issued, and the host reports only what a worker performed, with*)
(* the outcome it had.  Keys, clocks, artifacts and messages do not appear.*)
(***************************************************************************)
CONSTANTS Requests, Outcomes

VARIABLES issued, performed, reported

vars == <<issued, performed, reported>>

Init == issued = {} /\ performed = {} /\ reported = {}

Issue(q) ==
    /\ issued' = issued \cup {q}
    /\ UNCHANGED <<performed, reported>>

Perform(q, outcome) ==
    /\ q \in issued
    /\ performed' = performed \cup {<<q, outcome>>}
    /\ UNCHANGED <<issued, reported>>

Report(q, outcome) ==
    /\ <<q, outcome>> \in performed
    /\ reported' = reported \cup {<<q, outcome>>}
    /\ UNCHANGED <<issued, performed>>

Next ==
    \E q \in Requests :
        \/ Issue(q)
        \/ \E outcome \in Outcomes : Perform(q, outcome) \/ Report(q, outcome)

Spec == Init /\ [][Next]_vars
=============================================================================
