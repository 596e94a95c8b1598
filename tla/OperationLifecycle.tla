------------------------- MODULE OperationLifecycle -------------------------
(***************************************************************************)
(* What an operation promises, with no rows, versions, leases or time: the *)
(* transition table of internal/domain/state.go, plus the single-send      *)
(* permit that the store attaches to a prepared operation.  OperationStore *)
(* is shown to implement this specification.                               *)
(***************************************************************************)
CONSTANTS
    Op,          \* operations: (workflow, logical key) pairs
    Replayable   \* those whose service declares durable idempotency keys

VARIABLES
    status,      \* [Op -> Status]
    permit       \* [Op -> BOOLEAN]: the send of the current attempt is granted

lifecycleVars == <<status, permit>>

Status == {"absent", "prepared", "confirmed", "reconciled", "retryable", "uncertain"}

Terminal == {"confirmed", "reconciled"}

\* The edges of allowedTransitions, one pair each.
AllowedTransitions ==
    ({"prepared"} \X {"confirmed", "reconciled", "retryable", "uncertain"})
        \union {<<"retryable", "prepared">>}
        \union ({"uncertain"} \X {"reconciled", "retryable"})

CanTransition(from, to) == <<from, to>> \in AllowedTransitions

-----------------------------------------------------------------------------

Init ==
    /\ status = [o \in Op |-> "absent"]
    /\ permit = [o \in Op |-> FALSE]

\* An intent becomes durable.  It carries no permission to send.
Intend(o) ==
    /\ status[o] = "absent"
    /\ status' = [status EXCEPT ![o] = "prepared"]
    /\ UNCHANGED permit

\* The one send of the current attempt is granted.
Grant(o) ==
    /\ status[o] = "prepared"
    /\ ~permit[o]
    /\ permit' = [permit EXCEPT ![o] = TRUE]
    /\ UNCHANGED status

\* The effect is known to have happened: by receipt, or by evidence.
Complete(o) ==
    /\ \E to \in Terminal : /\ CanTransition(status[o], to)
                            /\ status' = [status EXCEPT ![o] = to]
    /\ UNCHANGED permit

\* Nothing that can be observed settles the outcome.
Suspect(o) ==
    /\ CanTransition(status[o], "uncertain")
    /\ status' = [status EXCEPT ![o] = "uncertain"]
    /\ UNCHANGED permit

\* Another attempt becomes safe.  A prepared operation gets there only if its
\* send was never granted or if the service absorbs a replay; an uncertain one
\* may also be released by an operator.
Release(o) ==
    /\ CanTransition(status[o], "retryable")
    /\ status[o] = "prepared" => ~permit[o] \/ o \in Replayable
    /\ status' = [status EXCEPT ![o] = "retryable"]
    /\ UNCHANGED permit

\* The next attempt begins, again without permission to send.
Retry(o) ==
    /\ CanTransition(status[o], "prepared")
    /\ status' = [status EXCEPT ![o] = "prepared"]
    /\ permit' = [permit EXCEPT ![o] = FALSE]

Next ==
    \E o \in Op :
        \/ Intend(o)
        \/ Grant(o)
        \/ Complete(o)
        \/ Suspect(o)
        \/ Release(o)
        \/ Retry(o)

Spec == Init /\ [][Next]_lifecycleVars

=============================================================================
