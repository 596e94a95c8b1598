------------------------------ MODULE Delivery ------------------------------
(***************************************************************************)
(* What the whole system promises about intents whose effect must not be   *)
(* caused again, with no workers, requests, claims, coordinators, versions *)
(* or time in sight: an intent is on record before anybody may act on it,  *)
(* is performed at most once and with permission, loses the permission     *)
(* only while nothing has come of it, after which nothing can, and is      *)
(* completed once it has been performed.  Watchkeeper is shown to          *)
(* implement this specification.                                           *)
(***************************************************************************)
EXTENDS Naturals

CONSTANT Intent

VARIABLES
    recorded,   \* intents that are durable
    permitted,  \* intents that may be performed now
    performed,  \* how often each was performed
    completed   \* intents that are on record as done

deliveryVars == <<recorded, permitted, performed, completed>>

Init ==
    /\ recorded = {}
    /\ permitted = {}
    /\ performed = [o \in Intent |-> 0]
    /\ completed = {}

Record(o) ==
    /\ recorded' = recorded \union {o}
    /\ UNCHANGED <<permitted, performed, completed>>

Permit(o) ==
    /\ o \in recorded \ completed
    /\ performed[o] = 0
    /\ permitted' = permitted \union {o}
    /\ UNCHANGED <<recorded, performed, completed>>

Perform(o) ==
    /\ o \in permitted
    /\ performed[o] = 0
    /\ performed' = [performed EXCEPT ![o] = 1]
    /\ UNCHANGED <<recorded, permitted, completed>>

\* A request that is still on its way when this happens must never arrive.
Withdraw(o) ==
    /\ performed[o] = 0
    /\ permitted' = permitted \ {o}
    /\ UNCHANGED <<recorded, performed, completed>>

Complete(o) ==
    /\ performed[o] = 1
    /\ completed' = completed \union {o}
    /\ UNCHANGED <<recorded, permitted, performed>>

Next ==
    \E o \in Intent :
        Record(o) \/ Permit(o) \/ Perform(o) \/ Withdraw(o) \/ Complete(o)

Spec == Init /\ [][Next]_deliveryVars

=============================================================================
