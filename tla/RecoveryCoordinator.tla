------------------------ MODULE RecoveryCoordinator ------------------------
(***************************************************************************)
(* internal/recovery/coordinator.go: RunOnce.  A coordinator claims a      *)
(* batch, then verifies and submits its claims one after the other.  The   *)
(* evidence is gathered outside any transaction and may be overtaken by    *)
(* anything before it is submitted.  It never renews a lease.              *)
(***************************************************************************)
EXTENDS OperationStore, EmailService

CONSTANT Coordinator

VARIABLES
    work,     \* claims of the batch not yet verified, as <<operation, attempt>>
    verdict,  \* the observation about to be submitted, as a set of at most one
    overdue   \* results under way whose coordinators have given them up

coordinatorVars == <<work, verdict, overdue>>

Verdict == [op : Op, attempt : Nat, ob : Observation]

CoordinatorTypeOK ==
    /\ work \in [Coordinator -> SUBSET (Op \X Nat)]
    /\ verdict \in [Coordinator -> SUBSET Verdict]
    /\ \A c \in Coordinator : \A v, u \in verdict[c] : v = u
    /\ overdue \subseteq Verdict

CoordinatorInit ==
    /\ work = [c \in Coordinator |-> {}]
    /\ verdict = [c \in Coordinator |-> {}]
    /\ overdue = {}

-----------------------------------------------------------------------------

\* The token is in a coordinator's memory and may still be submitted.
Holds(c, o, n) == <<o, n>> \in work[c] \/ \E v \in verdict[c] : v.op = o /\ v.attempt = n

Busy(c) == work[c] # {} \/ verdict[c] # {}

Claims(c) ==
    /\ ~Busy(c)
    /\ \E batch \in SUBSET Op :
        /\ ClaimRecovery(batch, MaxTtl)
        /\ work' = [work EXCEPT ![c] = {<<o, NextAttempt(o)>> : o \in batch}]
    /\ UNCHANGED <<verdict, overdue, serviceVars>>

\* The reply to the claim is lost: rows are leased and nobody has the token.
ClaimsInVain(c) ==
    /\ ~Busy(c)
    /\ \E batch \in SUBSET Op : ClaimRecovery(batch, MaxTtl)
    /\ UNCHANGED <<coordinatorVars, serviceVars>>

Concludes(c, o, n, ob) ==
    /\ verdict[c] = {}
    /\ work' = [work EXCEPT ![c] = @ \ {<<o, n>>}]
    /\ verdict' = [verdict EXCEPT ![c] = {[op |-> o, attempt |-> n, ob |-> ob]}]
    /\ UNCHANGED <<overdue, storeVars, serviceVars>>

Verifies(c) ==
    \E k \in work[c] : Concludes(c, k[1], k[2], Evidence(k[1]))

\* Without a declared capability nothing is asked, so nothing can fail.
VerifiesInVain(c) ==
    \E k \in work[c] :
        /\ ProfileOf[k[1]] # "none"
        /\ Concludes(c, k[1], k[2], Unreachable(k[1]))

\* Mutant: the result quotes the version the row has now.
SubmitsAnew(c) ==
    \E v \in verdict[c] :
        /\ \/ SubmitRecoveryResult(v.op, v.attempt, v.attempt, version[v.op], v.ob)
           \/ /\ ~MayAnswer(v.op, v.attempt, v.attempt, version[v.op])
              /\ UNCHANGED storeVars
        /\ verdict' = [verdict EXCEPT ![c] = {}]
        /\ UNCHANGED <<work, overdue, serviceVars>>

Expected(v) == claims[v.op][v.attempt].version

\* A rejected result is logged and dropped.
Submits(c) ==
    \E v \in verdict[c] :
        /\ \/ SubmitRecoveryResult(v.op, v.attempt, v.attempt, Expected(v), v.ob)
           \/ /\ ~MayAnswer(v.op, v.attempt, v.attempt, Expected(v))
              /\ UNCHANGED storeVars
        /\ verdict' = [verdict EXCEPT ![c] = {}]
        /\ UNCHANGED <<work, overdue, serviceVars>>

\* No reply within the client's timeout: logged and dropped like a rejected one,
\* while the request may still reach the store, at once, much later, or never.
SubmitsInVain(c) ==
    /\ verdict[c] # {}
    /\ overdue' = overdue \union verdict[c]
    /\ verdict' = [verdict EXCEPT ![c] = {}]
    /\ UNCHANGED <<work, storeVars, serviceVars>>

\* A result that would be rejected by then simply stays.
DeliverOverdue(v) ==
    /\ SubmitRecoveryResult(v.op, v.attempt, v.attempt, Expected(v), v.ob)
    /\ overdue' = overdue \ {v}
    /\ UNCHANGED <<work, verdict, serviceVars>>

\* The process dies, or a hook fails: the rest of the batch is given up.
Abandons(c) ==
    /\ Busy(c)
    /\ work' = [work EXCEPT ![c] = {}]
    /\ verdict' = [verdict EXCEPT ![c] = {}]
    /\ UNCHANGED <<overdue, storeVars, serviceVars>>

CoordinatorStep(c) == Claims(c) \/ Verifies(c) \/ Submits(c)

CoordinatorFault(c) ==
    \/ ClaimsInVain(c)
    \/ VerifiesInVain(c)
    \/ SubmitsInVain(c)
    \/ Abandons(c)

=============================================================================
