--------------------------- MODULE OperationStore ---------------------------
(***************************************************************************)
(* The PostgreSQL store of internal/store: the operations, receipts and    *)
(* reconciliation_attempts tables and the nine transactions that write     *)
(* them.  Each transaction locks its row before it reads anything it acts  *)
(* on, so a transaction is one action; a rejected call changes nothing and *)
(* is therefore no step at all.                                            *)
(*                                                                         *)
(* Callers are left open here: any operation, expected version, receipt,   *)
(* token or observation may arrive at any time, any number of times, in    *)
(* any order.  The one thing assumed of them is what pkg/client does: a    *)
(* recovery result quotes the version, token and attempt of ONE claim.     *)
(* AuditTrail adds the event and decision tables to every transaction, and *)
(* Watchkeeper replaces the open callers by the real ones.                 *)
(***************************************************************************)
EXTENDS Naturals, Sequences, FiniteSets, Capabilities

CONSTANTS
    Watched,         \* those whose workflow has strategy 'watchkeeper'
    Receipt,         \* receipts a service may have issued
    NoReceipt,       \* no row in receipts
    TransientLimit,  \* attempts that may end in a transient error (5 in the code)
    BatchLimit,      \* limit of a claim request
    MaxTtl           \* bound: a lease lives for at most this many ticks

ASSUME StoreAssumption ==
    /\ Watched \subseteq Op
    /\ NoReceipt \notin Receipt
    /\ TransientLimit \in Nat
    /\ BatchLimit \in Nat
    /\ MaxTtl \in Nat \ {0}

VARIABLES
    \* columns of operations
    state,       \* state; "absent" while there is no row
    version,     \* version
    attempts,    \* attempt_count
    authorized,  \* dispatch_authorized
    resolved,    \* resolved_at is not NULL
    aged,        \* prepared_at is older than the grace period
    due,         \* next_reconcile_at: NULL, after now(), or reached
    lease,       \* number of the attempt whose token is stored, 0 for NULL
    ttl,         \* how long lease_expires_at is ahead of now(), 0 once expired
    \* other tables
    receipt,     \* receipts: at most one row per operation
    claims,      \* reconciliation_attempts, as the RecoveryClaims handed out
    open         \* the attempts with finished_at NULL

scheduleCols == <<aged, due>>
leaseCols    == <<lease, ttl>>
claimTables  == <<claims, open>>

storeVars == <<state, version, attempts, authorized, resolved, scheduleCols,
               leaseCols, receipt, claimTables>>

-----------------------------------------------------------------------------
(* Types *)

State == {"prepared", "confirmed", "reconciled", "retryable", "uncertain"}
ManualOutcome == {"completed", "absent", "compensation_recorded"}

\* What a claim tells its coordinator about the operation.
Claim == [version : Nat, state : State, authorized : BOOLEAN]

TypeOK ==
    /\ state \in [Op -> State \union {"absent"}]
    /\ version \in [Op -> Nat]
    /\ attempts \in [Op -> Nat]
    /\ authorized \in [Op -> BOOLEAN]
    /\ resolved \in [Op -> BOOLEAN]
    /\ aged \in [Op -> BOOLEAN]
    /\ due \in [Op -> {"null", "future", "reached"}]
    /\ lease \in [Op -> Nat]
    /\ ttl \in [Op -> 0..MaxTtl]
    /\ receipt \in [Op -> Receipt \union {NoReceipt}]
    /\ claims \in [Op -> Seq(Claim)]
    /\ open \in [Op -> SUBSET Nat]

Init ==
    /\ state = [o \in Op |-> "absent"]
    /\ version = [o \in Op |-> 0]
    /\ attempts = [o \in Op |-> 0]
    /\ authorized = [o \in Op |-> FALSE]
    /\ resolved = [o \in Op |-> FALSE]
    /\ aged = [o \in Op |-> FALSE]
    /\ due = [o \in Op |-> "null"]
    /\ lease = [o \in Op |-> 0]
    /\ ttl = [o \in Op |-> 0]
    /\ receipt = [o \in Op |-> NoReceipt]
    /\ claims = [o \in Op |-> << >>]
    /\ open = [o \in Op |-> {}]

-----------------------------------------------------------------------------
(* Every transaction that changes state, authorization or token moves the  *)
(* version.  The guards of those that quote a version have names: a caller *)
(* whose guard fails is told so, and acts on it.                           *)

\* Mutant: the update forgets version=version+1.
KeepVersion(o) == version' = version

MoveVersion(o) == version' = [version EXCEPT ![o] = @ + 1]

\* Mutant: the grant does not ask whether this attempt already had one.
MayAuthorizeTwice(o, expected) ==
    /\ state[o] = "prepared"
    /\ version[o] = expected
    /\ lease[o] = 0

\* Mutant: the grant trusts its caller's copy of the row.
MayAuthorizeBlindly(o, expected) ==
    /\ state[o] = "prepared"
    /\ lease[o] = 0

MayAuthorize(o, expected) ==
    /\ state[o] = "prepared"
    /\ version[o] = expected
    /\ ~authorized[o]
    /\ lease[o] = 0

\* Mutant: a receipt is accepted in every state.
MayConfirmLate(o, expected) ==
    /\ receipt[o] = NoReceipt
    /\ state[o] # "absent"
    /\ version[o] = expected

MayConfirm(o, expected) ==
    /\ receipt[o] = NoReceipt
    /\ state[o] = "prepared"
    /\ version[o] = expected

MayBeginRetry(o, expected) ==
    /\ state[o] = "retryable"
    /\ version[o] = expected

LeaseHeld(o, token) ==
    /\ lease[o] = token
    /\ ttl[o] > 0

\* Mutant: a live lease is taken for proof that nothing happened since the claim.
MayAnswerAnyVersion(o, token, attempt, expected) ==
    /\ LeaseHeld(o, token)
    /\ attempt \in open[o]

\* The state of the row is not checked: the version is what ties a result to
\* the row its claim saw.
MayAnswer(o, token, attempt, expected) ==
    /\ LeaseHeld(o, token)
    /\ version[o] = expected
    /\ attempt \in open[o]

\* Mutant: the lease is made to expire but its token stays.
ExpireLease(o) ==
    /\ lease' = lease
    /\ ttl' = [ttl EXCEPT ![o] = 0]

ClearLease(o) ==
    /\ lease' = [lease EXCEPT ![o] = 0]
    /\ ttl' = [ttl EXCEPT ![o] = 0]

-----------------------------------------------------------------------------
(* The worker's transactions *)

\* A replay of the same intent finds the row and changes nothing.
Prepare(o) ==
    /\ state[o] = "absent"
    /\ state' = [state EXCEPT ![o] = "prepared"]
    /\ version' = [version EXCEPT ![o] = 1]
    /\ attempts' = [attempts EXCEPT ![o] = 1]
    /\ UNCHANGED <<authorized, resolved, scheduleCols, leaseCols, receipt, claimTables>>

\* Mutant: the grant is not recorded.
AuthorizeUnrecorded(o, expected) ==
    /\ MayAuthorize(o, expected)
    /\ MoveVersion(o)
    /\ UNCHANGED <<state, attempts, authorized, resolved, scheduleCols, leaseCols,
                   receipt, claimTables>>

\* A claim blocks the grant until a result or a receipt clears its token, even
\* after the lease ran out.
AuthorizeDispatch(o, expected) ==
    /\ MayAuthorize(o, expected)
    /\ MoveVersion(o)
    /\ authorized' = [authorized EXCEPT ![o] = TRUE]
    /\ UNCHANGED <<state, attempts, resolved, scheduleCols, leaseCols, receipt, claimTables>>

\* With a receipt on file the call only compares receipts, so it is no step.
Confirm(o, expected, r) ==
    /\ MayConfirm(o, expected)
    /\ MoveVersion(o)
    /\ receipt' = [receipt EXCEPT ![o] = r]
    /\ state' = [state EXCEPT ![o] = "confirmed"]
    /\ resolved' = [resolved EXCEPT ![o] = TRUE]
    /\ ClearLease(o)
    /\ UNCHANGED <<attempts, authorized, scheduleCols, claimTables>>

\* The lease columns are left as they are.
BeginRetry(o, expected) ==
    /\ MayBeginRetry(o, expected)
    /\ MoveVersion(o)
    /\ state' = [state EXCEPT ![o] = "prepared"]
    /\ authorized' = [authorized EXCEPT ![o] = FALSE]
    /\ attempts' = [attempts EXCEPT ![o] = @ + 1]
    /\ resolved' = [resolved EXCEPT ![o] = FALSE]
    /\ aged' = [aged EXCEPT ![o] = FALSE]
    /\ due' = [due EXCEPT ![o] = "null"]
    /\ UNCHANGED <<leaseCols, receipt, claimTables>>

-----------------------------------------------------------------------------
(* The operator's transactions; both leave the lease columns as they are   *)

RequestReconciliation(o, expected) ==
    /\ state[o] \in {"prepared", "uncertain"}
    /\ version[o] = expected
    /\ MoveVersion(o)
    /\ due' = [due EXCEPT ![o] = "reached"]
    /\ UNCHANGED <<state, attempts, authorized, resolved, aged, leaseCols,
                   receipt, claimTables>>

\* Mutant: a compensation gets a state of its own, which the schema lacks.
ManualTargetCompensated ==
    [completed |-> "reconciled", absent |-> "retryable",
     compensation_recorded |-> "compensated"]

ManualTarget ==
    [completed |-> "reconciled", absent |-> "retryable",
     compensation_recorded |-> "uncertain"]

\* Mutant: any operation can be resolved by hand.
ManualResolveAnyState(o, expected, outcome) ==
    /\ state[o] # "absent"
    /\ version[o] = expected
    /\ MoveVersion(o)
    /\ state' = [state EXCEPT ![o] = ManualTarget[outcome]]
    /\ resolved' = [resolved EXCEPT ![o] = (outcome = "completed")]
    /\ due' = [due EXCEPT ![o] = "null"]
    /\ UNCHANGED <<attempts, authorized, aged, leaseCols, receipt, claimTables>>

ManualResolve(o, expected, outcome) ==
    /\ state[o] = "uncertain"
    /\ version[o] = expected
    /\ MoveVersion(o)
    /\ state' = [state EXCEPT ![o] = ManualTarget[outcome]]
    /\ resolved' = [resolved EXCEPT ![o] = (outcome = "completed")]
    /\ due' = [due EXCEPT ![o] = "null"]
    /\ UNCHANGED <<attempts, authorized, aged, leaseCols, receipt, claimTables>>

-----------------------------------------------------------------------------
(* The coordinator's transactions *)

\* Mutant: a row with a token on it is never claimed again.
EligibleIfUnclaimed(o) ==
    /\ o \in Watched
    /\ \/ state[o] = "prepared" /\ (aged[o] \/ due[o] = "reached")
       \/ state[o] = "uncertain" /\ due[o] = "reached"
    /\ due[o] # "future"
    /\ lease[o] = 0

\* Mutant: a row that was scheduled once is not looked at again.
EligibleIfUnscheduled(o) ==
    /\ o \in Watched
    /\ state[o] = "prepared"
    /\ aged[o]
    /\ due[o] = "null"
    /\ ttl[o] = 0

Eligible(o) ==
    /\ o \in Watched
    /\ \/ state[o] = "prepared" /\ (aged[o] \/ due[o] = "reached")
       \/ state[o] = "uncertain" /\ due[o] = "reached"
    /\ due[o] # "future"
    /\ ttl[o] = 0

\* attempt_number is one more than the highest so far, also across retries.
NextAttempt(o) == Len(claims[o]) + 1

\* SKIP LOCKED may pass over any eligible row, so a batch is any subset within
\* the limit.  Every row of the batch is claimed in the same transaction.
ClaimRecovery(batch, duration) ==
    /\ batch # {}
    /\ \A o \in batch : Eligible(o)
    /\ Cardinality(batch) <= BatchLimit
    /\ lease' = [o \in Op |-> IF o \in batch THEN NextAttempt(o) ELSE lease[o]]
    /\ ttl' = [o \in Op |-> IF o \in batch THEN duration ELSE ttl[o]]
    /\ version' = [o \in Op |-> IF o \in batch THEN version[o] + 1 ELSE version[o]]
    /\ open' = [o \in Op |-> IF o \in batch THEN open[o] \union {NextAttempt(o)} ELSE open[o]]
    /\ claims' = [o \in Op |->
            IF o \in batch
            THEN Append(claims[o], [version    |-> version[o] + 1,
                                    state      |-> state[o],
                                    authorized |-> authorized[o]])
            ELSE claims[o]]
    /\ UNCHANGED <<state, attempts, authorized, resolved, scheduleCols, receipt>>

\* Neither the version nor the state is looked at.
RenewClaim(o, token, duration) ==
    /\ LeaseHeld(o, token)
    /\ ttl' = [ttl EXCEPT ![o] = duration]
    /\ UNCHANGED <<state, version, attempts, authorized, resolved, scheduleCols,
                   lease, receipt, claimTables>>

\* Mutant: authoritative evidence of any outcome completes the operation.
CompletesIfAuthoritative(ob) == ob.authoritative

Completes(ob) == ob.authoritative /\ ob.outcome = "completed"

\* Mutant: an empty lookup is taken for proof that nothing was sent.
NeverSeen(o, ob) == ob.outcome = "unknown"

NeverDispatched(o, ob) == ~authorized[o] /\ ob.outcome # "contradictory"

ReplayGuaranteed(o, ob) ==
    /\ o \in Replayable
    /\ ob.mechanism = "idempotent_repeat"
    /\ ob.authoritative
    /\ ob.outcome = "unknown"

\* Every earlier claim counts, also those whose coordinator died and those of
\* earlier dispatch attempts.
MayTryAgain(attempt, ob) == ob.outcome = "transient_error" /\ attempt < TransientLimit

\* The decision column; "none" when verification is only postponed.
Decision(o, attempt, ob) ==
    IF Completes(ob) THEN "reconcile"
    ELSE IF NeverDispatched(o, ob) \/ ReplayGuaranteed(o, ob) THEN "retry"
    ELSE IF MayTryAgain(attempt, ob) THEN "none"
    ELSE "mark_uncertain"

DecidedState(o, decision) ==
    [reconcile |-> "reconciled", retry |-> "retryable",
     mark_uncertain |-> "uncertain", none |-> state[o]][decision]

SubmitRecoveryResult(o, token, attempt, expected, ob) ==
    LET decision == Decision(o, attempt, ob)
    IN  /\ MayAnswer(o, token, attempt, expected)
        /\ MoveVersion(o)
        /\ state' = [state EXCEPT ![o] = DecidedState(o, decision)]
        /\ resolved' = [resolved EXCEPT ![o] = (decision \in {"reconcile", "mark_uncertain"})]
        /\ due' = [due EXCEPT ![o] = IF decision = "none" THEN "future" ELSE "null"]
        /\ ClearLease(o)
        /\ open' = [open EXCEPT ![o] = @ \ {attempt}]
        /\ UNCHANGED <<attempts, authorized, aged, receipt, claims>>

-----------------------------------------------------------------------------
(* The database clock *)

GraceElapses(o) ==
    /\ state[o] = "prepared"
    /\ ~aged[o]
    /\ aged' = [aged EXCEPT ![o] = TRUE]
    /\ UNCHANGED <<state, version, attempts, authorized, resolved, due, leaseCols,
                   receipt, claimTables>>

ScheduleDue(o) ==
    /\ due[o] = "future"
    /\ due' = [due EXCEPT ![o] = "reached"]
    /\ UNCHANGED <<state, version, attempts, authorized, resolved, aged, leaseCols,
                   receipt, claimTables>>

LeaseAges(o) ==
    /\ ttl[o] > 0
    /\ ttl' = [ttl EXCEPT ![o] = @ - 1]
    /\ UNCHANGED <<state, version, attempts, authorized, resolved, scheduleCols,
                   lease, receipt, claimTables>>

-----------------------------------------------------------------------------

\* A caller may quote any version the row ever had.
WorkerCall(o) ==
    \/ Prepare(o)
    \/ \E v \in 1..version[o] :
        \/ AuthorizeDispatch(o, v)
        \/ \E r \in Receipt : Confirm(o, v, r)
        \/ BeginRetry(o, v)

OperatorCall(o) ==
    \E v \in 1..version[o] :
        \/ RequestReconciliation(o, v)
        \/ \E m \in ManualOutcome : ManualResolve(o, v, m)

\* Any claim ever handed out may be renewed or answered, late or repeatedly.
CoordinatorCall(o) ==
    \E n \in 1..Len(claims[o]) :
        \/ \E t \in 1..MaxTtl : RenewClaim(o, n, t)
        \/ \E ob \in Observation :
            SubmitRecoveryResult(o, n, n, claims[o][n].version, ob)

ClockTick(o) == GraceElapses(o) \/ ScheduleDue(o) \/ LeaseAges(o)

Next ==
    \/ \E o \in Op : WorkerCall(o) \/ OperatorCall(o) \/ CoordinatorCall(o)
    \/ \E batch \in SUBSET Op, t \in 1..MaxTtl : ClaimRecovery(batch, t)
    \/ \E o \in Op : ClockTick(o)

Spec == Init /\ [][Next]_storeVars

-----------------------------------------------------------------------------
(* Properties *)

\* A claim whose version is still the row's version describes the row exactly:
\* same state, same authorization, its token on the lease, its attempt open.
\* This is what lets SubmitRecoveryResult act on evidence gathered outside any
\* transaction without checking the state, and it needs every transaction that
\* changes state, authorization or token to move the version (RenewClaim, which
\* does not, may change none of them).
ClaimsAreSnapshots ==
    \A o \in Op : \A n \in 1..Len(claims[o]) :
        /\ claims[o][n].state \in {"prepared", "uncertain"}
        /\ claims[o][n].version <= version[o]
        /\ claims[o][n].version = version[o] =>
            /\ state[o] = claims[o][n].state
            /\ authorized[o] = claims[o][n].authorized
            /\ lease[o] = n
            /\ n \in open[o]

\* The token stored in a row is that of the newest claim, whatever happened to
\* the row since, and that claim is unanswered: an older coordinator can neither
\* renew nor answer.
OnlyNewestClaimHolds ==
    \A o \in Op : lease[o] # 0 => lease[o] = Len(claims[o]) /\ lease[o] \in open[o]

\* A confirmed operation has a receipt, no other has one, and both final states
\* carry their resolution time (the two CHECKs on final states).
ReceiptIffConfirmed ==
    \A o \in Op :
        /\ (state[o] = "confirmed") <=> (receipt[o] # NoReceipt)
        /\ state[o] \in {"confirmed", "reconciled"} => resolved[o]

Lifecycle == INSTANCE OperationLifecycle WITH
                status <- state,
                permit <- authorized

\* Once confirmed or reconciled, an operation keeps its state, version and
\* receipt: no result, retry or receipt that is still under way can touch it,
\* not even through a lease that ManualResolve left on the row.
TerminalIsFinal ==
    [][\A o \in Op : state[o] \in Lifecycle!Terminal =>
            /\ state'[o] = state[o]
            /\ version'[o] = version[o]
            /\ receipt'[o] = receipt[o]]_storeVars

\* The store implements the abstract life cycle: although no transaction calls
\* ValidateTransition and SubmitRecoveryResult does not look at the state it
\* leaves, no step takes an edge that allowedTransitions does not have, no send
\* is granted twice in one attempt, and no granted send of a service without
\* replay protection is released for another attempt except by an operator.
LifecycleSpec == Lifecycle!Spec

=============================================================================
