----------------------------- MODULE AuditTrail -----------------------------
(***************************************************************************)
(* OperationStore with the two tables every transaction also writes: one   *)
(* row of operation_events for each, and one row of recovery_decisions for *)
(* each resolution.  The API serves these tables as the ordered, append-   *)
(* only history of an operation.                                           *)
(***************************************************************************)
EXTENDS OperationStore

VARIABLES
    events,     \* operation_events of each operation
    decisions   \* recovery_decisions of each operation

auditVars == <<storeVars, events, decisions>>

EventType == {"intent_prepared", "dispatch_authorized", "receipt_confirmed",
              "retry_started", "reconciliation_requested", "recovery_claimed",
              "recovery_result", "manual_resolution"}

Event == [version : Nat, type : EventType,
          from : State \union {"absent"}, to : State \union {"absent"}]

DecisionRow == [version : Nat, from : State, to : State,
                decision : {"reconcile", "retry", "mark_uncertain", "compensate_recorded"}]

AuditTypeOK ==
    /\ TypeOK
    /\ events \in [Op -> SUBSET Event]
    /\ decisions \in [Op -> SUBSET DecisionRow]

AuditInit ==
    /\ Init
    /\ events = [o \in Op |-> {}]
    /\ decisions = [o \in Op |-> {}]

-----------------------------------------------------------------------------

Log(o, e) == events' = [events EXCEPT ![o] = @ \union {e}]

LoggedPrepare(o) ==
    /\ Prepare(o)
    /\ Log(o, [version |-> 1, type |-> "intent_prepared",
               from |-> "absent", to |-> "prepared"])
    /\ UNCHANGED decisions

LoggedAuthorizeDispatch(o, expected) ==
    /\ AuthorizeDispatch(o, expected)
    /\ Log(o, [version |-> expected + 1, type |-> "dispatch_authorized",
               from |-> "prepared", to |-> "prepared"])
    /\ UNCHANGED decisions

\* The version of the event is read back from the row after the update.
LoggedConfirm(o, expected, r) ==
    /\ Confirm(o, expected, r)
    /\ Log(o, [version |-> version'[o], type |-> "receipt_confirmed",
               from |-> "prepared", to |-> "confirmed"])
    /\ UNCHANGED decisions

LoggedBeginRetry(o, expected) ==
    /\ BeginRetry(o, expected)
    /\ Log(o, [version |-> expected + 1, type |-> "retry_started",
               from |-> "retryable", to |-> "prepared"])
    /\ UNCHANGED decisions

\* Mutant: the event names the state the operation is usually in.
LoggedRequestAsPrepared(o, expected) ==
    /\ RequestReconciliation(o, expected)
    /\ Log(o, [version |-> expected + 1, type |-> "reconciliation_requested",
               from |-> "prepared", to |-> "prepared"])
    /\ UNCHANGED decisions

LoggedRequestReconciliation(o, expected) ==
    /\ RequestReconciliation(o, expected)
    /\ Log(o, [version |-> expected + 1, type |-> "reconciliation_requested",
               from |-> state[o], to |-> state[o]])
    /\ UNCHANGED decisions

ManualDecision ==
    [completed |-> "reconcile", absent |-> "retry",
     compensation_recorded |-> "compensate_recorded"]

\* Mutant: the decision is stamped with the version it was taken at.
LoggedManualResolveEarly(o, expected, outcome) ==
    /\ ManualResolve(o, expected, outcome)
    /\ decisions' = [decisions EXCEPT ![o] = @ \union
            {[version |-> expected, from |-> state[o],
              to |-> ManualTarget[outcome], decision |-> ManualDecision[outcome]]}]
    /\ Log(o, [version |-> expected + 1, type |-> "manual_resolution",
               from |-> state[o], to |-> ManualTarget[outcome]])

LoggedManualResolve(o, expected, outcome) ==
    /\ ManualResolve(o, expected, outcome)
    /\ decisions' = [decisions EXCEPT ![o] = @ \union
            {[version |-> expected + 1, from |-> state[o],
              to |-> ManualTarget[outcome], decision |-> ManualDecision[outcome]]}]
    /\ Log(o, [version |-> expected + 1, type |-> "manual_resolution",
               from |-> state[o], to |-> ManualTarget[outcome]])

\* One event per claimed row, written after its update.
LoggedClaimRecovery(batch, duration) ==
    /\ ClaimRecovery(batch, duration)
    /\ events' = [o \in Op |->
            IF o \in batch
            THEN events[o] \union
                 {[version |-> version'[o], type |-> "recovery_claimed",
                   from |-> state'[o], to |-> state'[o]]}
            ELSE events[o]]
    /\ UNCHANGED decisions

\* Renewal is the one write that leaves no trace.
LoggedRenewClaim(o, token, duration) ==
    /\ RenewClaim(o, token, duration)
    /\ UNCHANGED <<events, decisions>>

\* A postponed verification is an event but no decision.
LoggedSubmitRecoveryResult(o, token, attempt, expected, ob) ==
    LET decision == Decision(o, attempt, ob)
        to       == DecidedState(o, decision)
    IN  /\ SubmitRecoveryResult(o, token, attempt, expected, ob)
        /\ decisions' = [decisions EXCEPT ![o] = @ \union
                {[version |-> expected + 1, from |-> state[o], to |-> to,
                  decision |-> d] : d \in {decision} \ {"none"}}]
        /\ Log(o, [version |-> expected + 1, type |-> "recovery_result",
                   from |-> state[o], to |-> to])

-----------------------------------------------------------------------------

LoggedCall(o) ==
    \/ LoggedPrepare(o)
    \/ \E v \in 1..version[o] :
        \/ LoggedAuthorizeDispatch(o, v)
        \/ \E r \in Receipt : LoggedConfirm(o, v, r)
        \/ LoggedBeginRetry(o, v)
        \/ LoggedRequestReconciliation(o, v)
        \/ \E m \in ManualOutcome : LoggedManualResolve(o, v, m)
    \/ \E n \in 1..Len(claims[o]) :
        \/ \E t \in 1..MaxTtl : LoggedRenewClaim(o, n, t)
        \/ \E ob \in Observation :
            LoggedSubmitRecoveryResult(o, n, n, claims[o][n].version, ob)

UnloggedTick(o) == ClockTick(o) /\ UNCHANGED <<events, decisions>>

AuditNext ==
    \/ \E o \in Op : LoggedCall(o)
    \/ \E batch \in SUBSET Op, t \in 1..MaxTtl : LoggedClaimRecovery(batch, t)
    \/ \E o \in Op : UnloggedTick(o)

AuditSpec == AuditInit /\ [][AuditNext]_auditVars

\* A caller of POST .../recovery-results that answers a version conflict by
\* reading the row again and quoting the version it finds there, as Worker does
\* for its receipts.  The API lets it: expected_version is any positive integer.
RereadingSubmit(o) ==
    \E n \in 1..Len(claims[o]), ob \in Observation :
        LoggedSubmitRecoveryResult(o, n, n, version[o], ob)

-----------------------------------------------------------------------------
(* Properties *)

\* The history of an operation is complete: its events carry every version from
\* 1 to the row's exactly once, each event starts in the state its predecessor
\* ended in, and the newest ends in the state of the row.  Several transactions
\* write fixed states or versions computed from an argument, so this can break
\* in one transaction and show in another.
AuditTrailComplete ==
    \A o \in Op :
        /\ {e.version : e \in events[o]} = 1..version[o]
        /\ \A e, f \in events[o] :
            /\ e.version = f.version => e = f
            /\ f.version = e.version + 1 => f.from = e.to
        /\ \A e \in events[o] : e.version = version[o] => e.to = state[o]

\* No two decisions of an operation share a version (the UNIQUE constraint that
\* would abort a resolution for good), each explains the event of its version,
\* and recovery never moves an operation without one.
DecisionsExplainEvents ==
    \A o \in Op :
        /\ \A d, c \in decisions[o] : d.version = c.version => d = c
        /\ \A d \in decisions[o] : \E e \in events[o] :
            /\ e.type \in {"recovery_result", "manual_resolution"}
            /\ <<e.version, e.from, e.to>> = <<d.version, d.from, d.to>>
        /\ \A e \in events[o] :
            e.type \in {"recovery_result", "manual_resolution"} /\ e.from # e.to
                => \E d \in decisions[o] : d.version = e.version

\* Between two grants lies the start of another attempt, so an operation is
\* granted at most as many sends as it has attempts, and the flag on the row
\* says whether the current attempt had its grant.
OneGrantPerAttempt ==
    LET Of(o, type) == {e \in events[o] : e.type = type}
    IN  \A o \in Op :
        /\ state[o] # "absent" =>
            attempts[o] = 1 + Cardinality(Of(o, "retry_started"))
        /\ \A e, f \in Of(o, "dispatch_authorized") : e.version < f.version =>
            \E r \in Of(o, "retry_started") : e.version < r.version /\ r.version < f.version
        /\ authorized[o] <=> \E e \in Of(o, "dispatch_authorized") :
            \A r \in Of(o, "retry_started") : r.version < e.version

\* docs/architecture.md says of a recovery result that it "validates the live
\* lease token, attempt ID, expected version, observation, and permitted state
\* transition": no audited result moves an operation along an edge that
\* allowedTransitions lacks.
ResultsTakeLegalTransitions ==
    \A o \in Op : \A e \in events[o] :
        e.type = "recovery_result" /\ e.from # e.to
            => Lifecycle!CanTransition(e.from, e.to)

=============================================================================
