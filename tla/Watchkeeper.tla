---------------------------- MODULE Watchkeeper ----------------------------
(***************************************************************************)
(* The whole system: workers and coordinators around the store and the     *)
(* email service, an administrator, the database clock, and a bounded      *)
(* number of failures.  A failure is a crash, a lost or late message, a    *)
(* timeout, a refused request, an unreachable service, or a clock that     *)
(* outruns a process that is alive.                                        *)
(***************************************************************************)
EXTENDS WorkflowWorker, RecoveryCoordinator

CONSTANTS
    MaxFaults,        \* bound: failures in a behaviour
    MaxInterventions  \* bound: what the administrator does in a behaviour

ASSUME BudgetAssumption == MaxFaults \in Nat /\ MaxInterventions \in Nat

VARIABLES
    faults,        \* failures so far
    interventions  \* requests of the administrator so far

systemVars == <<storeVars, serviceVars, workerVars, coordinatorVars, faults, interventions>>

SystemTypeOK ==
    /\ WorkerTypeOK
    /\ CoordinatorTypeOK
    /\ ServiceTypeOK
    /\ faults \in 0..MaxFaults
    /\ interventions \in 0..MaxInterventions

SystemInit ==
    /\ Init
    /\ ServiceInit
    /\ WorkerInit
    /\ CoordinatorInit
    /\ faults = 0
    /\ interventions = 0

-----------------------------------------------------------------------------

Fault ==
    /\ faults < MaxFaults
    /\ faults' = faults + 1
    /\ UNCHANGED interventions

NoFault == UNCHANGED <<faults, interventions>>

Workers ==
    /\ \E w \in Worker : \/ (WorkerStep(w) \/ Rerun(w)) /\ NoFault
                         \/ WorkerFault(w) /\ Fault
    /\ UNCHANGED coordinatorVars

LateRequests ==
    /\ \/ (\E r \in late : DeliverLate(r)) /\ UNCHANGED coordinatorVars
       \/ (\E v \in overdue : DeliverOverdue(v)) /\ UNCHANGED workerVars
    /\ NoFault

Coordinators ==
    /\ \E c \in Coordinator : \/ CoordinatorStep(c) /\ NoFault
                              \/ CoordinatorFault(c) /\ Fault
    /\ UNCHANGED workerVars

Awaited(c) == \E w \in Worker : at[w] = "await" /\ IsCallOf(w, c)

\* Only a caller that still waits sends its request again.
Service ==
    /\ \E c \in calls :
        \/ Commit(c) /\ NoFault
        \/ ~Awaited(c) /\ Finish(c) /\ NoFault
        \/ (CommitUnanswered(c) \/ Refuse(c)) /\ Fault
        \/ Awaited(c) /\ Repeat(c) /\ Fault
    /\ UNCHANGED <<storeVars, workerVars, coordinatorVars>>

-----------------------------------------------------------------------------
(* The administrator *)

\* No effect, none under way, and no worker about to cause one.
Unsent(o) ==
    /\ effects[o] = 0
    /\ \A c \in calls : c.op # o
    /\ \A w \in Worker : JobOf[w] = o => at[w] # "send"

\* What the evidence reference of a manual resolution has to show.
Substantiated(o, outcome) ==
    /\ outcome = "completed" => effects[o] > 0
    /\ outcome = "absent" => Unsent(o)

Administrator ==
    /\ interventions < MaxInterventions
    /\ interventions' = interventions + 1
    /\ \E o \in Op :
        \/ RequestReconciliation(o, version[o])
        \/ \E m \in ManualOutcome :
            Substantiated(o, m) /\ ManualResolve(o, version[o], m)
    /\ UNCHANGED <<serviceVars, workerVars, coordinatorVars, faults>>

-----------------------------------------------------------------------------
(* The clock.  Grace period and lease are long against what a live worker  *)
(* or coordinator does in between, unless a failure makes that slow.       *)

\* A worker has something to do for the operation before it needs recovery.
Engaged(o) ==
    \E w \in Worker :
        /\ JobOf[w] = o
        /\ \/ at[w] \in {"start", "retry", "grant", "send", "await", "persist",
                        "reread", "compare"}
           \/ at[w] = "poll" /\ ~authorized[o] /\ lease[o] = 0

AboutToSubmit(o) == \E c \in Coordinator : Holds(c, o, lease[o])

Timely(prompt) == IF prompt THEN Fault ELSE NoFault

Clock ==
    /\ \E o \in Op :
        \/ GraceElapses(o) /\ Timely(Engaged(o))
        \/ LeaseAges(o) /\ Timely(AboutToSubmit(o))
        \/ ScheduleDue(o) /\ NoFault
    /\ UNCHANGED <<serviceVars, workerVars, coordinatorVars>>

-----------------------------------------------------------------------------

SystemNext ==
    \/ Workers
    \/ LateRequests
    \/ Coordinators
    \/ Service
    \/ Administrator
    \/ Clock

SystemSpec == SystemInit /\ [][SystemNext]_systemVars

\* Every process keeps going and is started again, and the clock advances.
WorkerProgress(w) ==
    /\ WorkerStep(w) \/ Rerun(w)
    /\ NoFault
    /\ UNCHANGED coordinatorVars

CoordinatorProgress(c) ==
    /\ CoordinatorStep(c)
    /\ NoFault
    /\ UNCHANGED workerVars

ServiceProgress(o) ==
    /\ \E c \in calls : c.op = o /\ Commit(c)
    /\ NoFault
    /\ UNCHANGED <<storeVars, workerVars, coordinatorVars>>

ClockProgress(o) ==
    /\ \/ GraceElapses(o) /\ ~Engaged(o)
       \/ LeaseAges(o) /\ ~AboutToSubmit(o)
       \/ ScheduleDue(o)
    /\ NoFault
    /\ UNCHANGED <<serviceVars, workerVars, coordinatorVars>>

FairSpec ==
    /\ SystemSpec
    /\ \A w \in Worker : WF_systemVars(WorkerProgress(w))
    /\ \A c \in Coordinator : WF_systemVars(CoordinatorProgress(c))
    /\ \A o \in Op : WF_systemVars(ServiceProgress(o)) /\ WF_systemVars(ClockProgress(o))

-----------------------------------------------------------------------------
(* Properties *)

\* The capability the intent declared is one the service has.
Honest(o) == ProfileOf[o] \in {"none", ServiceProfile}

\* Whatever crashes, repeats, times out or overtakes, the effect of an operation
\* is caused at most once, if keyed replay is promised only where it exists.
AtMostOneEffect ==
    \A o \in Op : (o \in Replayable => Honest(o)) => effects[o] <= 1

\* Content tells the operation apart from every other (what indirect_unique
\* inspection takes for granted).
UniqueContent(o) == \A p \in Op : ContentOf[p] = ContentOf[o] => p = o

\* An operation is recorded as confirmed or reconciled only when its effect
\* exists, and the receipt on file is that of one of its own effects: a claim's
\* evidence, a late confirmation or a delayed request never completes an
\* operation that was not performed.  A worker that ends with success, which it
\* may do on a copy it read long ago, leaves an operation that is so recorded.
NoFalseCompletion ==
    /\ \A o \in Op : ProfileOf[o] # "indirect_unique" \/ UniqueContent(o) =>
        /\ state[o] \in {"confirmed", "reconciled"} => effects[o] > 0
        /\ receipt[o] <= effects[o]
    /\ \A w \in Worker : at[w] = "done" => state[JobOf[w]] \in {"confirmed", "reconciled"}

\* Where a repeated send would repeat the effect, an operation is open to a new
\* send (retryable, or prepared and not authorized) only while nothing was sent,
\* nothing is on its way and no worker holds an unused grant.
FreshAttemptIsUnsent ==
    \A o \in Op :
        /\ o \notin Replayable
        /\ state[o] = "retryable" \/ (state[o] = "prepared" /\ ~authorized[o])
        => Unsent(o)

Sending(w) == at[w] \in {"send", "await", "persist", "reread", "compare"}

\* Of all the workers that run an operation at most one is between its grant and
\* the end of its confirmation, crashed and late ones included: a flag that is
\* found set, a lost grant and a late one are never taken for a permission.
OneSender ==
    \A o \in Op : o \notin Replayable =>
        Cardinality({w \in Worker : JobOf[w] = o /\ Sending(w)}) <= 1

\* A worker that finds its operation confirmed finds its own receipt there: the
\* branch of confirm that reports a conflicting receipt is never taken, although
\* row and receipt are read one after the other and other workers confirm too.
ReceiptIsOwn ==
    \A w \in Worker : at[w] = "compare" /\ (JobOf[w] \in Replayable => Honest(JobOf[w]))
        => receipt[JobOf[w]] = got[w]

\* Every call of the system is one the store expects, so what holds of the store
\* under arbitrary callers holds of it here.
RefinesStore == Spec

\* Operations whose effect nobody absorbs if it is caused again, and whose evidence
\* is their own.
Delicate ==
    {o \in Op : o \notin Replayable /\ (ProfileOf[o] # "indirect_unique" \/ UniqueContent(o))}

Promise == INSTANCE Delivery WITH
                Intent <- Delicate,
                recorded <- {o \in Delicate : state[o] # "absent"},
                permitted <- {o \in Delicate : authorized[o] /\ state[o] # "retryable"},
                performed <- [o \in Delicate |-> effects[o]],
                completed <- {o \in Delicate : state[o] \in {"confirmed", "reconciled"}}

\* The system keeps the promise it is built for: whatever crashes, is lost, repeated
\* or late, an effect is caused only for an intent on record, once, under a grant
\* that no recovery or operator has taken back, and a grant is taken back only
\* while no request that could still cause the effect is under way.
KeepsPromise == Promise!Spec

\* Every operation ever prepared is eventually confirmed, reconciled or handed to
\* an operator: no lease, schedule, rejected result or stale copy strands it.
EveryIntentSettles ==
    \A o \in Op : state[o] = "prepared" ~>
        state[o] \in {"confirmed", "reconciled", "uncertain"}

\* Every run of a worker ends: it does not poll an operation for ever.
EveryRunEnds ==
    \A w \in Worker : at[w] = "start" ~> at[w] \in {"done", "unsure", "stopped"}

\* docs/recovery.md, on a crash before dispatch: "the durable authorization flag
\* proves no compliant worker could have dispatched".
FlagProvesUndispatched ==
    \A o \in Op : state[o] = "prepared" /\ ~authorized[o] => Unsent(o)

=============================================================================
