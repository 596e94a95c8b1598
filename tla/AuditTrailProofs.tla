--------------------------- MODULE AuditTrailProofs ---------------------------
(***************************************************************************)
(* Theorems about AuditTrail, for every set of operations, profiles,       *)
(* receipts and limits.  Each transaction is first reduced to what it      *)
(* writes about one operation; the properties then follow from six kinds   *)
(* of writing.                                                             *)
(***************************************************************************)
EXTENDS AuditTrail, OperationStoreProofs, FiniteSetTheorems

\* The two tables of the audit are added to every step of the store, and to none
\* of its guards.
LEMMA AuditStepIsStoreStep == [AuditNext]_auditVars => [Next]_storeVars
<1>1. ASSUME UNCHANGED auditVars PROVE UNCHANGED storeVars
    BY <1>1 DEF auditVars
<1>2. ASSUME NEW o \in Op, LoggedCall(o)
      PROVE  WorkerCall(o) \/ OperatorCall(o) \/ CoordinatorCall(o)
  <2>1. CASE LoggedPrepare(o)
    BY <2>1 DEF LoggedPrepare, WorkerCall
  <2>2. ASSUME NEW v \in 1..version[o],
               LoggedAuthorizeDispatch(o, v) \/ LoggedBeginRetry(o, v)
        PROVE  WorkerCall(o)
    BY <2>2 DEF LoggedAuthorizeDispatch, LoggedBeginRetry, WorkerCall
  <2>3. ASSUME NEW v \in 1..version[o], NEW r \in Receipt, LoggedConfirm(o, v, r)
        PROVE  WorkerCall(o)
    BY <2>3 DEF LoggedConfirm, WorkerCall
  <2>4. ASSUME NEW v \in 1..version[o], LoggedRequestReconciliation(o, v)
        PROVE  OperatorCall(o)
    BY <2>4 DEF LoggedRequestReconciliation, OperatorCall
  <2>5. ASSUME NEW v \in 1..version[o], NEW m \in ManualOutcome, LoggedManualResolve(o, v, m)
        PROVE  OperatorCall(o)
    BY <2>5 DEF LoggedManualResolve, OperatorCall
  <2>6. ASSUME NEW n \in 1..Len(claims[o]), NEW t \in 1..MaxTtl, LoggedRenewClaim(o, n, t)
        PROVE  CoordinatorCall(o)
    BY <2>6 DEF LoggedRenewClaim, CoordinatorCall
  <2>7. ASSUME NEW n \in 1..Len(claims[o]), NEW ob \in Observation,
               LoggedSubmitRecoveryResult(o, n, n, claims[o][n].version, ob)
        PROVE  CoordinatorCall(o)
    BY <2>7 DEF LoggedSubmitRecoveryResult, CoordinatorCall
  <2> QED BY <1>2, <2>1, <2>2, <2>3, <2>4, <2>5, <2>6, <2>7 DEF LoggedCall
<1>3. ASSUME NEW batch \in SUBSET Op, NEW t \in 1..MaxTtl, LoggedClaimRecovery(batch, t)
      PROVE  Next
    BY <1>3 DEF LoggedClaimRecovery, Next
<1>4. ASSUME NEW o \in Op, UnloggedTick(o) PROVE Next
    BY <1>4 DEF UnloggedTick, Next
<1> QED BY <1>1, <1>2, <1>3, <1>4 DEF AuditNext, Next

\* What holds of the store holds of the store with its audit tables.
THEOREM AuditRefinesStore == AuditSpec => Spec
<1>1. AuditInit => Init
    BY DEF AuditInit
<1> QED BY <1>1, AuditStepIsStoreStep, PTL DEF AuditSpec, Spec

\* So the rows and leases beside the audit tables keep what the store promises.
THEOREM AuditKeepsStorePromises ==
    AuditSpec => /\ []ClaimsAreSnapshots
                 /\ []OnlyNewestClaimHolds
                 /\ []ReceiptIffConfirmed
                 /\ TerminalIsFinal
                 /\ LifecycleSpec
BY AuditRefinesStore, ClaimsStaySnapshots, NewestClaimHolds, ReceiptsMatchStates,
   FinalStatesAreFinal, ImplementsLifecycle, PTL

-----------------------------------------------------------------------------
(* What one step writes about one operation.                                *)

Unwritten(o) ==
    /\ state'[o] = state[o]
    /\ version'[o] = version[o]
    /\ attempts'[o] = attempts[o]
    /\ authorized'[o] = authorized[o]
    /\ events'[o] = events[o]
    /\ decisions'[o] = decisions[o]

NextEvent(o, type) ==
    [version |-> version[o] + 1, type |-> type, from |-> state[o], to |-> state'[o]]

Writes(o, type) ==
    /\ version'[o] = version[o] + 1
    /\ events'[o] = events[o] \union {NextEvent(o, type)}

Undecided(o) == decisions'[o] = decisions[o]

Begins(o) ==
    /\ Writes(o, "intent_prepared")
    /\ state[o] = "absent"
    /\ attempts'[o] = 1
    /\ authorized'[o] = authorized[o]
    /\ Undecided(o)

Granted(o) ==
    /\ Writes(o, "dispatch_authorized")
    /\ state[o] # "absent"
    /\ ~authorized[o] /\ authorized'[o]
    /\ attempts'[o] = attempts[o]
    /\ Undecided(o)

Retried(o) ==
    /\ Writes(o, "retry_started")
    /\ state[o] # "absent"
    /\ ~authorized'[o]
    /\ attempts'[o] = attempts[o] + 1
    /\ Undecided(o)

Noted(o) ==
    /\ \E type \in {"receipt_confirmed", "reconciliation_requested", "recovery_claimed"} :
        Writes(o, type)
    /\ state[o] # "absent"
    /\ authorized'[o] = authorized[o]
    /\ attempts'[o] = attempts[o]
    /\ Undecided(o)

Resolved(o) ==
    /\ \E type \in {"recovery_result", "manual_resolution"} : Writes(o, type)
    /\ state[o] \in {"prepared", "uncertain"}
    /\ state'[o] = state[o] \/ Lifecycle!CanTransition(state[o], state'[o])
    /\ authorized'[o] = authorized[o]
    /\ attempts'[o] = attempts[o]
    /\ \/ state'[o] = state[o] /\ Undecided(o)
       \/ \E d \in DecisionRow :
            /\ <<d.version, d.from, d.to>> = <<version[o] + 1, state[o], state'[o]>>
            /\ decisions'[o] = decisions[o] \union {d}

Written(o) == Begins(o) \/ Granted(o) \/ Retried(o) \/ Noted(o) \/ Resolved(o)

\* An operation without a row has never had a version.
Unborn == \A o \in Op : state[o] = "absent" => version[o] = 0

AuditTables ==
    /\ Fencing
    /\ Unborn
    /\ events \in [Op -> SUBSET Event]
    /\ decisions \in [Op -> SUBSET DecisionRow]

\* A manual resolution, reduced.
LEMMA ManualWrites ==
    ASSUME AuditTables, NEW o \in Op, NEW v \in Nat, NEW m \in ManualOutcome,
           LoggedManualResolve(o, v, m)
    PROVE  Resolved(o)
<1> USE DEF AuditTables, Fencing, TypeOK
<1>1. /\ state[o] = "uncertain"
      /\ version[o] = v
      /\ state'[o] = ManualTarget[m]
      /\ version'[o] = v + 1
      /\ authorized'[o] = authorized[o]
      /\ attempts'[o] = attempts[o]
    BY DEF LoggedManualResolve, ManualResolve, MoveVersion
<1> DEFINE d == [version |-> v + 1, from |-> state[o],
                 to |-> ManualTarget[m], decision |-> ManualDecision[m]]
<1>2. d \in DecisionRow
    BY <1>1 DEF DecisionRow, State, ManualTarget, ManualDecision, ManualOutcome
<1>3. decisions'[o] = decisions[o] \union {d}
    BY DEF LoggedManualResolve
<1>4. Writes(o, "manual_resolution")
    BY <1>1 DEF LoggedManualResolve, Log, Writes, NextEvent
<1>5. ManualTarget[m] = "uncertain" \/ Lifecycle!CanTransition("uncertain", ManualTarget[m])
    BY DEF ManualTarget, ManualOutcome, Lifecycle!CanTransition, Lifecycle!AllowedTransitions
<1>6. <<d.version, d.from, d.to>> = <<version[o] + 1, state[o], state'[o]>>
    BY <1>1
<1> HIDE DEF d
<1> QED BY <1>1, <1>2, <1>3, <1>4, <1>5, <1>6 DEF Resolved

\* An accepted recovery result, reduced.
LEMMA ResultWrites ==
    ASSUME AuditTables, NEW o \in Op, NEW n \in 1..Len(claims[o]), NEW ob \in Observation,
           LoggedSubmitRecoveryResult(o, n, n, claims[o][n].version, ob)
    PROVE  Resolved(o)
<1> USE DEF AuditTables
<1> DEFINE v  == claims[o][n].version
           k  == Decision(o, n, ob)
           to == DecidedState(o, k)
           d  == [version |-> v + 1, from |-> state[o], to |-> to, decision |-> k]
<1>1. /\ SubmitRecoveryResult(o, n, n, v, ob)
      /\ decisions' = [decisions EXCEPT ![o] = @ \union
            {[version |-> v + 1, from |-> state[o], to |-> to,
              decision |-> x] : x \in {k} \ {"none"}}]
      /\ Log(o, [version |-> v + 1, type |-> "recovery_result", from |-> state[o], to |-> to])
    BY DEF LoggedSubmitRecoveryResult
<1>2. /\ state[o] \in {"prepared", "uncertain"}
      /\ version[o] = v
      /\ state'[o] = to
    BY <1>1, AcceptedResult
<1>3. /\ version'[o] = version[o] + 1
      /\ authorized'[o] = authorized[o]
      /\ attempts'[o] = attempts[o]
    BY <1>1 DEF SubmitRecoveryResult, MoveVersion, Fencing, TypeOK
<1>4. /\ k \in {"reconcile", "retry", "mark_uncertain", "none"}
      /\ k = "none" => to = state[o]
      /\ k = "reconcile" => to = "reconciled"
      /\ k = "retry" => to = "retryable"
      /\ k = "mark_uncertain" => to = "uncertain"
    BY DecisionType DEF Fencing
<1>5. version[o] \in Nat
    BY DEF Fencing, TypeOK
<1> HIDE DEF k, to, v
<1>6. Writes(o, "recovery_result")
    BY <1>1, <1>2, <1>3 DEF Log, Writes, NextEvent
<1>7. to = state[o] \/ Lifecycle!CanTransition(state[o], to)
    BY <1>2, <1>4 DEF Lifecycle!CanTransition, Lifecycle!AllowedTransitions
<1>8. CASE k = "none"
  <2>1. decisions'[o] = decisions[o]
    BY <1>1, <1>8
  <2> QED BY <1>2, <1>3, <1>4, <1>6, <1>8, <2>1 DEF Resolved, Undecided
<1>9. CASE k # "none"
  <2>1. decisions'[o] = decisions[o] \union {d}
    BY <1>1, <1>9
  <2>2. d \in DecisionRow
    BY <1>2, <1>4, <1>5, <1>9 DEF DecisionRow, State
  <2>3. <<d.version, d.from, d.to>> = <<version[o] + 1, state[o], state'[o]>>
    BY <1>2
  <2> HIDE DEF d
  <2> QED BY <1>2, <1>3, <1>6, <1>7, <2>1, <2>2, <2>3 DEF Resolved
<1> QED BY <1>8, <1>9

\* Every step leaves what is written about an operation as it is, or adds one
\* event of the next version, from the state it found to the state it leaves.
LEMMA WritingStep ==
    ASSUME AuditTables, AuditNext, NEW p \in Op
    PROVE  Unwritten(p) \/ Written(p)
<1> USE DEF AuditTables, Fencing, TypeOK, scheduleCols, leaseCols, claimTables
<1> DEFINE Goal == Unwritten(p) \/ Written(p)
<1>1. ASSUME NEW o \in Op, LoggedPrepare(o) PROVE Goal
    BY <1>1 DEF LoggedPrepare, Prepare, Log, Unborn, Unwritten, Written, Begins, Writes,
                NextEvent, Undecided
<1>2. ASSUME NEW o \in Op, NEW v \in Nat, LoggedAuthorizeDispatch(o, v) PROVE Goal
    BY <1>2 DEF LoggedAuthorizeDispatch, AuthorizeDispatch, MayAuthorize, MoveVersion, Log,
                Unwritten, Written, Granted, Writes, NextEvent, Undecided
<1>3. ASSUME NEW o \in Op, NEW v \in Nat, NEW r \in Receipt, LoggedConfirm(o, v, r) PROVE Goal
    BY <1>3 DEF LoggedConfirm, Confirm, MayConfirm, MoveVersion, Log,
                Unwritten, Written, Noted, Writes, NextEvent, Undecided
<1>4. ASSUME NEW o \in Op, NEW v \in Nat, LoggedBeginRetry(o, v) PROVE Goal
    BY <1>4 DEF LoggedBeginRetry, BeginRetry, MayBeginRetry, MoveVersion, Log,
                Unwritten, Written, Retried, Writes, NextEvent, Undecided
<1>5. ASSUME NEW o \in Op, NEW v \in Nat, LoggedRequestReconciliation(o, v) PROVE Goal
    BY <1>5 DEF LoggedRequestReconciliation, RequestReconciliation, MoveVersion, Log,
                Unwritten, Written, Noted, Writes, NextEvent, Undecided
<1>6. ASSUME NEW o \in Op, NEW v \in Nat, NEW m \in ManualOutcome, LoggedManualResolve(o, v, m)
      PROVE  Goal
  <2>1. CASE p = o
    BY <1>6, <2>1, ManualWrites DEF Written
  <2>2. CASE p # o
    BY <1>6, <2>2 DEF LoggedManualResolve, ManualResolve, MoveVersion, Log, Unwritten
  <2> QED BY <2>1, <2>2
<1>7. ASSUME NEW o \in Op, NEW n, NEW t, LoggedRenewClaim(o, n, t) PROVE Goal
    BY <1>7 DEF LoggedRenewClaim, RenewClaim, Unwritten
<1>8. ASSUME NEW o \in Op, NEW n \in 1..Len(claims[o]), NEW ob \in Observation,
             LoggedSubmitRecoveryResult(o, n, n, claims[o][n].version, ob)
      PROVE  Goal
  <2>1. CASE p = o
    BY <1>8, <2>1, ResultWrites DEF Written
  <2>2. CASE p # o
    BY <1>8, <2>2
       DEF LoggedSubmitRecoveryResult, SubmitRecoveryResult, MoveVersion, Log, Unwritten
  <2> QED BY <2>1, <2>2
<1>9. ASSUME NEW batch \in SUBSET Op, NEW t \in 1..MaxTtl, LoggedClaimRecovery(batch, t)
      PROVE  Goal
  <2>0. ClaimRecovery(batch, t) /\ UNCHANGED decisions
    BY <1>9 DEF LoggedClaimRecovery
  <2>1. /\ state' = state
        /\ authorized' = authorized
        /\ attempts' = attempts
        /\ version' = [o \in Op |-> IF o \in batch THEN version[o] + 1 ELSE version[o]]
        /\ p \in batch => Eligible(p)
    BY <2>0 DEF ClaimRecovery
  <2>2. events' = [o \in Op |->
            IF o \in batch
            THEN events[o] \union
                 {[version |-> version'[o], type |-> "recovery_claimed",
                   from |-> state'[o], to |-> state'[o]]}
            ELSE events[o]]
    BY <1>9 DEF LoggedClaimRecovery
  <2>3. CASE p \in batch
    <3>1. state[p] # "absent"
        BY <2>1, <2>3 DEF Eligible
    <3>2. Writes(p, "recovery_claimed")
        BY <2>1, <2>2, <2>3 DEF Writes, NextEvent
    <3> QED BY <2>0, <2>1, <3>1, <3>2 DEF Written, Noted, Undecided
  <2>4. CASE p \notin batch
    BY <2>0, <2>1, <2>2, <2>4 DEF Unwritten
  <2> QED BY <2>3, <2>4
<1>10. ASSUME NEW o \in Op, UnloggedTick(o) PROVE Goal
    BY <1>10 DEF UnloggedTick, ClockTick, GraceElapses, ScheduleDue, LeaseAges, Unwritten
<1>11. \A n, v : v \in 1..n => v \in Nat
    OBVIOUS
<1> QED
    BY <1>1, <1>2, <1>3, <1>4, <1>5, <1>6, <1>7, <1>8, <1>9, <1>10, <1>11
       DEF AuditNext, LoggedCall

LEMMA EventTyped ==
    ASSUME AuditTables, NEW o \in Op, NEW type \in EventType, TypeOK'
    PROVE  NextEvent(o, type) \in Event
BY DEF AuditTables, Fencing, TypeOK, NextEvent, Event

\* Each step keeps the audit tables well formed.
LEMMA TablesStep == AuditTables /\ [AuditNext]_auditVars => AuditTables'
<1>1. ASSUME AuditTables, AuditNext PROVE AuditTables'
  <2>1. Fencing'
    BY <1>1, AuditStepIsStoreStep, FencingStep DEF AuditTables
  <2>2. ASSUME NEW o \in Op
        PROVE  /\ state'[o] = "absent" => version'[o] = 0
               /\ events'[o] \in SUBSET Event
               /\ decisions'[o] \in SUBSET DecisionRow
    <3>0. /\ state[o] = "absent" => version[o] = 0
          /\ events[o] \in SUBSET Event
          /\ decisions[o] \in SUBSET DecisionRow
        BY <1>1 DEF AuditTables, Unborn
    <3>1. CASE Unwritten(o)
        BY <3>0, <3>1 DEF Unwritten
    <3>2. CASE Written(o)
      <4>1. PICK type \in EventType : Writes(o, type)
        BY <3>2 DEF Written, Begins, Granted, Retried, Noted, Resolved, EventType
      <4>2. NextEvent(o, type) \in Event
        BY <1>1, <2>1, EventTyped DEF Fencing
      <4>3. events'[o] \in SUBSET Event
        BY <3>0, <4>1, <4>2 DEF Writes
      <4>4. decisions'[o] \in SUBSET DecisionRow
        BY <3>0, <3>2 DEF Written, Begins, Granted, Retried, Noted, Resolved, Undecided
      <4>5. version[o] \in Nat /\ version'[o] = version[o] + 1
        BY <1>1, <4>1 DEF AuditTables, Fencing, TypeOK, Writes
      <4>6. Next
        BY <1>1, <4>5, AuditStepIsStoreStep DEF storeVars
      <4>7. Moved(o) \/ Claimed(o)
        BY <1>1, <4>5, <4>6, RowStep DEF AuditTables, Quiet
      <4>8. state'[o] # "absent"
        BY <4>7 DEF Moved, Claimed
      <4> QED BY <4>3, <4>4, <4>8
    <3> QED BY <1>1, <3>1, <3>2, WritingStep
  <2>3. /\ events' = [o \in Op |-> events'[o]]
        /\ decisions' = [o \in Op |-> decisions'[o]]
    BY <1>1 DEF AuditTables, AuditNext, LoggedCall, LoggedPrepare, LoggedAuthorizeDispatch,
                LoggedConfirm, LoggedBeginRetry, LoggedRequestReconciliation,
                LoggedManualResolve, LoggedRenewClaim, LoggedSubmitRecoveryResult,
                LoggedClaimRecovery, UnloggedTick, Log
  <2> QED BY <2>1, <2>2, <2>3 DEF AuditTables, Unborn
<1>2. ASSUME AuditTables, UNCHANGED auditVars PROVE AuditTables'
  <2>1. Fencing'
    BY <1>2, FencingStep DEF AuditTables, auditVars
  <2> QED BY <1>2, <2>1 DEF AuditTables, Unborn, auditVars, storeVars
<1> QED BY <1>1, <1>2

LEMMA TablesInvariant == AuditSpec => []AuditTables
<1>1. AuditInit => AuditTables
  <2> SUFFICES ASSUME AuditInit PROVE AuditTables
    OBVIOUS
  <2>1. TypeOK
    BY StoreAssumption DEF AuditInit, Init, TypeOK
  <2>2. ClaimsAreSnapshots /\ AbsentUnclaimed /\ Unborn
    BY DEF AuditInit, Init, ClaimsAreSnapshots, AbsentUnclaimed, Unborn
  <2> QED BY <2>1, <2>2 DEF AuditInit, AuditTables, Fencing
<1> QED BY <1>1, TablesStep, PTL DEF AuditSpec

\* The five tables keep their types: in particular no transaction writes an event
\* or a decision that its table would not take.
THEOREM AuditTypesHold == AuditSpec => []AuditTypeOK
<1>1. AuditTables => AuditTypeOK
    BY DEF AuditTables, Fencing, AuditTypeOK
<1> QED BY <1>1, TablesInvariant, PTL

-----------------------------------------------------------------------------
(* Completeness of the trail                                                *)

\* What AuditTrailComplete says of one operation.
Trail(o) ==
    /\ {e.version : e \in events[o]} = 1..version[o]
    /\ \A e, f \in events[o] :
        /\ e.version = f.version => e = f
        /\ f.version = e.version + 1 => f.from = e.to
    /\ \A e \in events[o] : e.version = version[o] => e.to = state[o]

LEMMA TrailStep ==
    ASSUME AuditTables, NEW o \in Op, Trail(o), Unwritten(o) \/ Written(o)
    PROVE  Trail(o)'
<1>1. CASE Unwritten(o)
    BY <1>1 DEF Unwritten, Trail
<1>2. CASE Written(o)
  <2>1. PICK type \in EventType : Writes(o, type)
    BY <1>2 DEF Written, Begins, Granted, Retried, Noted, Resolved, EventType
  <2> DEFINE new == NextEvent(o, type)
  <2>2. /\ new.version = version[o] + 1
        /\ new.from = state[o]
        /\ new.to = state'[o]
    BY DEF NextEvent
  <2>3. version'[o] = version[o] + 1 /\ events'[o] = events[o] \union {new}
    BY <2>1 DEF Writes
  <2> HIDE DEF new
  <2>4. version[o] \in Nat
    BY DEF AuditTables, Fencing, TypeOK
  <2>5. \A e \in events[o] : e.version \in 1..version[o]
    BY DEF Trail
  <2>6. {e.version : e \in events'[o]} = 1..version'[o]
    <3>1. {e.version : e \in events'[o]} = {e.version : e \in events[o]} \union {version[o] + 1}
        BY <2>2, <2>3
    <3>2. 1..(version[o] + 1) = 1..version[o] \union {version[o] + 1}
        BY <2>4
    <3> QED BY <2>3, <3>1, <3>2 DEF Trail
  <2>7. ASSUME NEW e \in events'[o], NEW f \in events'[o]
        PROVE  /\ e.version = f.version => e = f
               /\ f.version = e.version + 1 => f.from = e.to
    <3>1. CASE e \in events[o] /\ f \in events[o]
        BY <3>1 DEF Trail
    <3>2. CASE e \in events[o] /\ f = new
      <4>1. e.version \in Nat /\ e.version <= version[o]
        BY <2>4, <2>5, <3>2
      <4>2. e.version + 1 = version[o] + 1 => e.version = version[o]
        BY <2>4, <4>1
      <4>3. e.version = version[o] => e.to = state[o]
        BY <3>2 DEF Trail
      <4> QED BY <2>2, <2>4, <3>2, <4>1, <4>2, <4>3
    <3>3. CASE e = new /\ f \in events[o]
      <4>1. f.version \in Nat /\ f.version <= version[o]
        BY <2>4, <2>5, <3>3
      <4> QED BY <2>2, <2>4, <3>3, <4>1
    <3>4. CASE e = new /\ f = new
        BY <2>2, <2>4, <3>4
    <3> QED BY <2>3, <3>1, <3>2, <3>3, <3>4
  <2>8. ASSUME NEW e \in events'[o], e.version = version'[o] PROVE e.to = state'[o]
    <3>1. e \notin events[o]
        BY <2>3, <2>4, <2>5, <2>8
    <3> QED BY <2>2, <2>3, <3>1
  <2> QED BY <2>6, <2>7, <2>8 DEF Trail
<1> QED BY <1>1, <1>2

\* Steps of the system, as the lemmas about one operation need them.
LEMMA WritingStepOrNot ==
    ASSUME AuditTables, [AuditNext]_auditVars, NEW p \in Op
    PROVE  Unwritten(p) \/ Written(p)
<1>1. CASE UNCHANGED auditVars
    BY <1>1 DEF auditVars, storeVars, Unwritten
<1>2. CASE AuditNext
    BY <1>2, WritingStep
<1> QED BY <1>1, <1>2

LEMMA TrailInvariant == AuditSpec => []AuditTrailComplete
<1>1. AuditInit => AuditTrailComplete
    BY DEF AuditInit, Init, AuditTrailComplete
<1>2. AuditTables /\ AuditTrailComplete /\ [AuditNext]_auditVars => AuditTrailComplete'
  <2> SUFFICES ASSUME AuditTables, AuditTrailComplete, [AuditNext]_auditVars, NEW o \in Op
               PROVE  Trail(o)'
    BY DEF AuditTrailComplete, Trail
  <2>1. Trail(o)
    BY DEF AuditTrailComplete, Trail
  <2> QED BY <2>1, TrailStep, WritingStepOrNot
<1> QED BY <1>1, <1>2, TablesInvariant, PTL DEF AuditSpec

\* The history of every operation is gapless, unbranched and chained, and ends in
\* the row, whatever calls arrive in whatever order.
THEOREM TrailIsComplete == AuditSpec => []AuditTrailComplete
BY TrailInvariant

\* Every event has a version of its own, between 1 and the row's.
LEMMA TrailVersions ==
    ASSUME AuditTables, NEW o \in Op, Trail(o)
    PROVE  /\ version[o] \in Nat
           /\ \A e \in events[o] : e.version \in Nat /\ e.version <= version[o]
           /\ \A e, f \in events[o] : e.version = f.version => e = f
<1>1. version[o] \in Nat
    BY DEF AuditTables, Fencing, TypeOK
<1>2. \A e \in events[o] : e.version \in 1..version[o]
    BY DEF Trail
<1> QED BY <1>1, <1>2 DEF Trail

-----------------------------------------------------------------------------
(* Decisions and the events they explain                                    *)

Resolutions == {"recovery_result", "manual_resolution"}

Explained(o) ==
    /\ \A d, c \in decisions[o] : d.version = c.version => d = c
    /\ \A d \in decisions[o] : \E e \in events[o] :
        /\ e.type \in Resolutions
        /\ <<e.version, e.from, e.to>> = <<d.version, d.from, d.to>>
    /\ \A e \in events[o] : e.type \in Resolutions /\ e.from # e.to
            => \E d \in decisions[o] : d.version = e.version

LEMMA ExplainedStep ==
    ASSUME AuditTables, NEW o \in Op, Trail(o), Explained(o), Unwritten(o) \/ Written(o)
    PROVE  Explained(o)'
<1>1. CASE Unwritten(o)
    BY <1>1 DEF Unwritten, Explained
<1>2. CASE Begins(o) \/ Granted(o) \/ Retried(o) \/ Noted(o)
  <2>1. PICK type \in EventType \ Resolutions : Writes(o, type) /\ Undecided(o)
    BY <1>2 DEF Begins, Granted, Retried, Noted, EventType, Resolutions
  <2>2. NextEvent(o, type).type \notin Resolutions
    BY DEF NextEvent
  <2> QED BY <2>1, <2>2 DEF Writes, Undecided, Explained
<1>3. CASE Resolved(o)
  <2>1. PICK type \in Resolutions : Writes(o, type)
    BY <1>3 DEF Resolved, Resolutions
  <2> DEFINE new == NextEvent(o, type)
  <2>2. /\ new.version = version[o] + 1
        /\ new.type \in Resolutions
        /\ new.from = state[o]
        /\ new.to = state'[o]
    BY DEF NextEvent
  <2>3. events'[o] = events[o] \union {new}
    BY <2>1 DEF Writes
  <2> HIDE DEF new
  <2>4. \A d \in decisions[o] : d.version # version[o] + 1
    BY TrailVersions DEF Explained
  <2>5. CASE state'[o] = state[o] /\ Undecided(o)
    BY <2>2, <2>3, <2>5 DEF Undecided, Explained
  <2>6. CASE \E d \in DecisionRow :
                /\ <<d.version, d.from, d.to>> = <<version[o] + 1, state[o], state'[o]>>
                /\ decisions'[o] = decisions[o] \union {d}
    <3>1. PICK d \in DecisionRow :
                /\ <<d.version, d.from, d.to>> = <<version[o] + 1, state[o], state'[o]>>
                /\ decisions'[o] = decisions[o] \union {d}
        BY <2>6
    <3>2. <<new.version, new.from, new.to>> = <<d.version, d.from, d.to>>
        BY <2>2, <3>1
    <3>3. d.version = version[o] + 1
        BY <3>1
    <3>4. \A b, c \in decisions'[o] : b.version = c.version => b = c
        BY <2>4, <3>1, <3>3 DEF Explained
    <3>5. \A b \in decisions'[o] : \E e \in events'[o] :
            /\ e.type \in Resolutions
            /\ <<e.version, e.from, e.to>> = <<b.version, b.from, b.to>>
        BY <2>2, <2>3, <3>1, <3>2 DEF Explained
    <3>6. \A e \in events'[o] : e.type \in Resolutions /\ e.from # e.to
            => \E b \in decisions'[o] : b.version = e.version
        BY <2>2, <2>3, <3>1, <3>3 DEF Explained
    <3> QED BY <3>4, <3>5, <3>6 DEF Explained
  <2> QED BY <1>3, <2>5, <2>6 DEF Resolved
<1> QED BY <1>1, <1>2, <1>3 DEF Written

\* No two decisions collide on a version, each is that of one audited event, and
\* no resolution changes a state without a decision on file.
THEOREM DecisionsAreExplained == AuditSpec => []DecisionsExplainEvents
<1>1. AuditInit => DecisionsExplainEvents
    BY DEF AuditInit, DecisionsExplainEvents
<1>2. AuditTables /\ AuditTrailComplete /\ DecisionsExplainEvents /\ [AuditNext]_auditVars
        => DecisionsExplainEvents'
  <2> SUFFICES ASSUME AuditTables, AuditTrailComplete, DecisionsExplainEvents,
                      [AuditNext]_auditVars, NEW o \in Op
               PROVE  Explained(o)'
    BY DEF DecisionsExplainEvents, Explained, Resolutions
  <2>1. Trail(o) /\ Explained(o)
    BY DEF AuditTrailComplete, DecisionsExplainEvents, Trail, Explained, Resolutions
  <2> QED BY <2>1, ExplainedStep, WritingStepOrNot
<1> QED BY <1>1, <1>2, TablesInvariant, TrailInvariant, PTL DEF AuditSpec

-----------------------------------------------------------------------------
(* Results and the transition table                                         *)

Legal(o) == \A e \in events[o] :
    e.type = "recovery_result" /\ e.from # e.to => Lifecycle!CanTransition(e.from, e.to)

\* Although a result is applied without a look at the row's state, every audited
\* one follows an edge of allowedTransitions: fencing stands in for the check.
THEOREM ResultsAreLegal == AuditSpec => []ResultsTakeLegalTransitions
<1>1. AuditInit => ResultsTakeLegalTransitions
    BY DEF AuditInit, ResultsTakeLegalTransitions
<1>2. AuditTables /\ ResultsTakeLegalTransitions /\ [AuditNext]_auditVars
        => ResultsTakeLegalTransitions'
  <2> SUFFICES ASSUME AuditTables, ResultsTakeLegalTransitions, [AuditNext]_auditVars,
                      NEW o \in Op
               PROVE  Legal(o)'
    BY DEF ResultsTakeLegalTransitions, Legal, Lifecycle!CanTransition
  <2>0. Legal(o)
    BY DEF ResultsTakeLegalTransitions, Legal
  <2>1. CASE Unwritten(o)
    BY <2>0, <2>1 DEF Unwritten, Legal, Lifecycle!CanTransition
  <2>2. CASE Begins(o) \/ Granted(o) \/ Retried(o) \/ Noted(o)
    <3>1. PICK type \in EventType \ {"recovery_result"} : Writes(o, type)
        BY <2>2 DEF Begins, Granted, Retried, Noted, EventType
    <3>2. NextEvent(o, type).type # "recovery_result"
        BY DEF NextEvent
    <3> QED BY <2>0, <3>1, <3>2 DEF Writes, Legal, Lifecycle!CanTransition
  <2>3. CASE Resolved(o)
    <3>1. PICK type : Writes(o, type)
        BY <2>3 DEF Resolved
    <3>2. NextEvent(o, type).from = state[o] /\ NextEvent(o, type).to = state'[o]
        BY DEF NextEvent
    <3>3. state'[o] = state[o] \/ Lifecycle!CanTransition(state[o], state'[o])
        BY <2>3 DEF Resolved
    <3> QED BY <2>0, <3>1, <3>2, <3>3 DEF Writes, Legal, Lifecycle!CanTransition
  <2> QED BY <2>1, <2>2, <2>3, WritingStepOrNot DEF Written
<1> QED BY <1>1, <1>2, TablesInvariant, PTL DEF AuditSpec

-----------------------------------------------------------------------------
(* Grants and attempts                                                      *)

Of(o, type) == {e \in events[o] : e.type = type}

Grantings(o) ==
    /\ IsFiniteSet(Of(o, "retry_started"))
    /\ state[o] # "absent" => attempts[o] = 1 + Cardinality(Of(o, "retry_started"))
    /\ \A e, f \in Of(o, "dispatch_authorized") : e.version < f.version =>
        \E r \in Of(o, "retry_started") : e.version < r.version /\ r.version < f.version
    /\ authorized[o] <=> \E e \in Of(o, "dispatch_authorized") :
        \A r \in Of(o, "retry_started") : r.version < e.version

\* An event of another type leaves those of a type as they are.
LEMMA OfNext ==
    ASSUME NEW o \in Op, NEW type, NEW other, Writes(o, other)
    PROVE  Of(o, type)' = IF other = type THEN Of(o, type) \union {NextEvent(o, type)}
                                          ELSE Of(o, type)
BY DEF Of, Writes, NextEvent

LEMMA GrantingsStep ==
    ASSUME AuditTables, NEW o \in Op, Trail(o), Grantings(o), Unwritten(o) \/ Written(o),
           state'[o] = "absent" => state[o] = "absent"
    PROVE  Grantings(o)'
<1> DEFINE G == Of(o, "dispatch_authorized")
           R == Of(o, "retry_started")
<1>0. /\ version[o] \in Nat /\ attempts[o] \in Nat
      /\ \A e \in G \union R : e.version \in Nat /\ e.version <= version[o]
    BY TrailVersions DEF Of, AuditTables, Fencing, TypeOK
<1>1. CASE Unwritten(o)
    BY <1>1 DEF Unwritten, Grantings, Of
<1>2. CASE Begins(o)
  <2>1. G' = G /\ R' = R
    BY <1>2, OfNext DEF Begins
  <2>2. R = {}
    <3>1. version[o] = 0
        BY <1>2 DEF Begins, AuditTables, Unborn
    <3>2. events[o] = {}
        BY <3>1 DEF Trail
    <3> QED BY <3>2 DEF Of
  <2>3. Cardinality(R) = 0
    BY <2>2, FS_EmptySet
  <2> QED BY <1>2, <2>1, <2>3 DEF Begins, Grantings
<1>3. CASE Noted(o) \/ Resolved(o)
  <2>1. /\ G' = G /\ R' = R
        /\ attempts'[o] = attempts[o]
        /\ authorized'[o] = authorized[o]
        /\ state[o] # "absent"
    BY <1>3, OfNext DEF Noted, Resolved
  <2> QED BY <2>1 DEF Grantings
<1>4. CASE Granted(o)
  <2> DEFINE new == NextEvent(o, "dispatch_authorized")
  <2>1. /\ G' = G \union {new}
        /\ R' = R
        /\ new.version = version[o] + 1
    BY <1>4, OfNext DEF Granted, NextEvent
  <2>2. ~authorized[o] /\ authorized'[o] /\ attempts'[o] = attempts[o] /\ state[o] # "absent"
    BY <1>4 DEF Granted
  <2> HIDE DEF new
  <2>3. ASSUME NEW e \in G PROVE \E r \in R : e.version < r.version
    <3>1. PICK r \in R : ~(r.version < e.version)
        BY <2>2 DEF Grantings
    <3>2. r # e
        BY <3>1 DEF Of
    <3>3. r.version # e.version
        BY <3>2, TrailVersions DEF Of
    <3> QED BY <1>0, <3>1, <3>3
  <2>4. ASSUME NEW e \in G', NEW f \in G', e.version < f.version
        PROVE  \E r \in R' : e.version < r.version /\ r.version < f.version
    <3>1. CASE e \in G /\ f \in G
        BY <2>1, <2>4, <3>1 DEF Grantings
    <3>2. CASE e \in G /\ f = new
        BY <1>0, <2>1, <2>3, <3>2
    <3>3. e # new
        BY <1>0, <2>1, <2>4
    <3> QED BY <2>1, <3>1, <3>2, <3>3
  <2>5. \A r \in R' : r.version < new.version
    BY <1>0, <2>1
  <2> QED BY <2>1, <2>2, <2>4, <2>5 DEF Grantings
<1>5. CASE Retried(o)
  <2> DEFINE new == NextEvent(o, "retry_started")
  <2>1. /\ G' = G
        /\ R' = R \union {new}
        /\ new.version = version[o] + 1
    BY <1>5, OfNext DEF Retried, NextEvent
  <2>2. ~authorized'[o] /\ attempts'[o] = attempts[o] + 1 /\ state[o] # "absent"
    BY <1>5 DEF Retried
  <2> HIDE DEF new
  <2>3. new \notin R
    BY <1>0, <2>1
  <2>4. IsFiniteSet(R') /\ Cardinality(R') = Cardinality(R) + 1
    BY <2>1, <2>3, FS_AddElement DEF Grantings
  <2>5. \A e, f \in G' : e.version < f.version =>
            \E r \in R' : e.version < r.version /\ r.version < f.version
    BY <2>1 DEF Grantings
  <2>6. \A e \in G' : \E r \in R' : ~(r.version < e.version)
    BY <1>0, <2>1
  <2>7. Cardinality(R) \in Nat
    BY FS_CardinalityType DEF Grantings
  <2>8. attempts'[o] = 1 + Cardinality(R')
    BY <2>2, <2>4, <2>7 DEF Grantings
  <2> QED BY <2>2, <2>4, <2>5, <2>6, <2>8 DEF Grantings
<1> QED BY <1>1, <1>2, <1>3, <1>4, <1>5 DEF Written

GrantingsHold == \A o \in Op : Grantings(o)

\* Two grants of one operation are separated by a retry, and there are as many
\* attempts as retries and one, however calls race for the grant.
THEOREM GrantsMatchAttempts == AuditSpec => []OneGrantPerAttempt
<1>1. AuditInit => GrantingsHold
  <2> SUFFICES ASSUME AuditInit, NEW o \in Op PROVE Grantings(o)
    BY DEF GrantingsHold
  <2>1. Of(o, "retry_started") = {} /\ Of(o, "dispatch_authorized") = {}
    BY DEF AuditInit, Of
  <2> QED BY <2>1, FS_EmptySet DEF AuditInit, Init, Grantings
<1>2. AuditTables /\ AuditTrailComplete /\ GrantingsHold /\ [AuditNext]_auditVars
        => GrantingsHold'
  <2> SUFFICES ASSUME AuditTables, AuditTrailComplete, GrantingsHold,
                      [AuditNext]_auditVars, NEW o \in Op
               PROVE  Grantings(o)'
    BY DEF GrantingsHold
  <2>1. Trail(o) /\ Grantings(o)
    BY DEF AuditTrailComplete, Trail, GrantingsHold
  <2>2. state'[o] = "absent" => state[o] = "absent"
    <3>1. CASE UNCHANGED storeVars
        BY <3>1 DEF storeVars
    <3>2. CASE Next
        BY <3>2, RowStep DEF AuditTables, Quiet, Moved, Claimed
    <3> QED BY <3>1, <3>2, AuditStepIsStoreStep
  <2> QED BY <2>1, <2>2, GrantingsStep, WritingStepOrNot
<1>3. GrantingsHold => OneGrantPerAttempt
    BY DEF GrantingsHold, Grantings, OneGrantPerAttempt, Of
<1> QED BY <1>1, <1>2, <1>3, TablesInvariant, TrailInvariant, PTL DEF AuditSpec

=============================================================================
