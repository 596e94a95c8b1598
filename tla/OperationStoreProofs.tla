------------------------ MODULE OperationStoreProofs ------------------------
(***************************************************************************)
(* Theorems about OperationStore, for every set of operations, profiles,   *)
(* receipts and limits.                                                    *)
(***************************************************************************)
EXTENDS OperationStore, SequenceTheorems, TLAPS

\* The actions of Next, one by one, with the types of their arguments.
LEMMA NextCases ==
    ASSUME Next
    PROVE  \/ \E o \in Op : Prepare(o)
           \/ \E o \in Op, v \in Nat : AuthorizeDispatch(o, v)
           \/ \E o \in Op, v \in Nat, r \in Receipt : Confirm(o, v, r)
           \/ \E o \in Op, v \in Nat : BeginRetry(o, v)
           \/ \E o \in Op, v \in Nat : RequestReconciliation(o, v)
           \/ \E o \in Op, v \in Nat, m \in ManualOutcome : ManualResolve(o, v, m)
           \/ \E o \in Op : \E n \in 1..Len(claims[o]), t \in 1..MaxTtl : RenewClaim(o, n, t)
           \/ \E o \in Op : \E n \in 1..Len(claims[o]), ob \in Observation :
                SubmitRecoveryResult(o, n, n, claims[o][n].version, ob)
           \/ \E batch \in SUBSET Op, t \in 1..MaxTtl : ClaimRecovery(batch, t)
           \/ \E o \in Op : ClockTick(o)
<1>1. \A n, v : v \in 1..n => v \in Nat
    OBVIOUS
<1> QED BY <1>1 DEF Next, WorkerCall, OperatorCall, CoordinatorCall

\* A verdict names a decision, and the state it decides is one an operation may
\* be in.
LEMMA DecisionType ==
    ASSUME NEW o \in Op, NEW attempt, NEW ob, TypeOK
    PROVE  LET d == Decision(o, attempt, ob)
           IN  /\ d \in {"reconcile", "retry", "mark_uncertain", "none"}
               /\ d = "none" => DecidedState(o, d) = state[o]
               /\ d = "reconcile" => DecidedState(o, d) = "reconciled"
               /\ d = "retry" => DecidedState(o, d) = "retryable"
               /\ d = "mark_uncertain" => DecidedState(o, d) = "uncertain"
               /\ DecidedState(o, d) \in State \union {"absent"}
<1> DEFINE d == Decision(o, attempt, ob)
<1>1. d \in {"reconcile", "retry", "mark_uncertain", "none"}
    BY DEF Decision
<1>2. state[o] \in State \union {"absent"}
    BY DEF TypeOK
<1> HIDE DEF d
<1>3. /\ d = "none" => DecidedState(o, d) = state[o]
      /\ d = "reconcile" => DecidedState(o, d) = "reconciled"
      /\ d = "retry" => DecidedState(o, d) = "retryable"
      /\ d = "mark_uncertain" => DecidedState(o, d) = "uncertain"
    BY <1>1 DEF DecidedState
<1>4. DecidedState(o, d) \in State \union {"absent"}
    BY <1>1, <1>2, <1>3 DEF State
<1> QED BY <1>1, <1>3, <1>4 DEF d

\* Only prepared and uncertain operations are claimed, so the snapshot a claim
\* returns is well formed.
LEMMA EligibleState ==
    ASSUME NEW o \in Op, TypeOK, Eligible(o)
    PROVE  /\ state[o] \in {"prepared", "uncertain"}
           /\ [version |-> version[o] + 1, state |-> state[o],
               authorized |-> authorized[o]] \in Claim
BY DEF Eligible, TypeOK, Claim, State

\* An issued attempt number indexes a claim.
LEMMA ClaimAt ==
    ASSUME NEW o \in Op, NEW n \in 1..Len(claims[o]), TypeOK
    PROVE  claims[o][n] \in Claim
<1>1. claims[o] \in Seq(Claim)
    BY DEF TypeOK
<1> QED BY <1>1, ElementOfSeq

\* Every transaction keeps the tables well formed.
LEMMA TypeStep == TypeOK /\ [Next]_storeVars => TypeOK'
<1> SUFFICES ASSUME TypeOK, [Next]_storeVars PROVE TypeOK'
    OBVIOUS
<1> USE StoreAssumption DEF TypeOK, scheduleCols, leaseCols, claimTables
<1>1. CASE UNCHANGED storeVars
    BY <1>1 DEF storeVars
<1>2. ASSUME NEW o \in Op, Prepare(o) PROVE TypeOK'
    BY <1>2 DEF Prepare, State
<1>3. ASSUME NEW o \in Op, NEW v \in Nat, AuthorizeDispatch(o, v) PROVE TypeOK'
    BY <1>3 DEF AuthorizeDispatch, MayAuthorize, MoveVersion
<1>4. ASSUME NEW o \in Op, NEW v \in Nat, NEW r \in Receipt, Confirm(o, v, r) PROVE TypeOK'
    BY <1>4 DEF Confirm, MayConfirm, MoveVersion, ClearLease, State
<1>5. ASSUME NEW o \in Op, NEW v \in Nat, BeginRetry(o, v) PROVE TypeOK'
    BY <1>5 DEF BeginRetry, MayBeginRetry, MoveVersion, State
<1>6. ASSUME NEW o \in Op, NEW v \in Nat, RequestReconciliation(o, v) PROVE TypeOK'
    BY <1>6 DEF RequestReconciliation, MoveVersion
<1>7. ASSUME NEW o \in Op, NEW v \in Nat, NEW m \in ManualOutcome, ManualResolve(o, v, m)
      PROVE  TypeOK'
  <2>1. ManualTarget[m] \in State
    BY DEF ManualOutcome, ManualTarget, State
  <2> QED BY <1>7, <2>1 DEF ManualResolve, MoveVersion
<1>8. ASSUME NEW o \in Op, NEW n \in 1..Len(claims[o]), NEW t \in 1..MaxTtl, RenewClaim(o, n, t)
      PROVE  TypeOK'
    BY <1>8 DEF RenewClaim
<1>9. ASSUME NEW o \in Op, NEW n \in 1..Len(claims[o]), NEW ob \in Observation,
             SubmitRecoveryResult(o, n, n, claims[o][n].version, ob)
      PROVE  TypeOK'
  <2> DEFINE d == Decision(o, n, ob)
  <2>2. DecidedState(o, d) \in State \union {"absent"}
    BY DecisionType
  <2>3. /\ MoveVersion(o)
        /\ ClearLease(o)
        /\ state' = [state EXCEPT ![o] = DecidedState(o, d)]
        /\ resolved' = [resolved EXCEPT ![o] = (d \in {"reconcile", "mark_uncertain"})]
        /\ due' = [due EXCEPT ![o] = IF d = "none" THEN "future" ELSE "null"]
        /\ open' = [open EXCEPT ![o] = @ \ {n}]
        /\ UNCHANGED <<attempts, authorized, aged, receipt, claims>>
    BY <1>9 DEF SubmitRecoveryResult
  <2> HIDE DEF d
  <2>4. /\ state' \in [Op -> State \union {"absent"}]
        /\ resolved' \in [Op -> BOOLEAN]
        /\ due' \in [Op -> {"null", "future", "reached"}]
    BY <2>2, <2>3
  <2>5. /\ version' \in [Op -> Nat]
        /\ lease' \in [Op -> Nat]
        /\ ttl' \in [Op -> 0..MaxTtl]
        /\ open' \in [Op -> SUBSET Nat]
    BY <2>3 DEF MoveVersion, ClearLease
  <2> QED BY <2>3, <2>4, <2>5
<1>10. ASSUME NEW batch \in SUBSET Op, NEW t \in 1..MaxTtl, ClaimRecovery(batch, t) PROVE TypeOK'
  <2>1. ASSUME NEW o \in batch
        PROVE  Append(claims[o], [version |-> version[o] + 1, state |-> state[o],
                                  authorized |-> authorized[o]]) \in Seq(Claim)
    <3>1. Eligible(o)
        BY <1>10 DEF ClaimRecovery
    <3>2. claims[o] \in Seq(Claim)
        OBVIOUS
    <3> QED BY <3>1, <3>2, EligibleState, AppendProperties
  <2>2. claims' \in [Op -> Seq(Claim)]
    BY <1>10, <2>1 DEF ClaimRecovery
  <2>3. \A o \in Op : NextAttempt(o) \in Nat
    BY LenProperties DEF NextAttempt
  <2>4. /\ version' \in [Op -> Nat]
        /\ lease' \in [Op -> Nat]
        /\ ttl' \in [Op -> 0..MaxTtl]
    <3>1. /\ lease' = [o \in Op |-> IF o \in batch THEN NextAttempt(o) ELSE lease[o]]
          /\ ttl' = [o \in Op |-> IF o \in batch THEN t ELSE ttl[o]]
          /\ version' = [o \in Op |-> IF o \in batch THEN version[o] + 1 ELSE version[o]]
        BY <1>10 DEF ClaimRecovery
    <3>2. lease' \in [Op -> Nat]
        BY <2>3, <3>1
    <3>3. t \in 0..MaxTtl
        BY StoreAssumption
    <3>4. ttl' \in [Op -> 0..MaxTtl]
        BY <3>1, <3>3
    <3>5. version' \in [Op -> Nat]
        BY <3>1
    <3> QED BY <3>2, <3>4, <3>5
  <2>5. open' \in [Op -> SUBSET Nat]
    <3>1. \A o \in Op : open[o] \union {NextAttempt(o)} \in SUBSET Nat
        BY <2>3
    <3> QED BY <1>10, <3>1 DEF ClaimRecovery
  <2>6. UNCHANGED <<state, attempts, authorized, resolved, aged, due, receipt>>
    BY <1>10 DEF ClaimRecovery
  <2> QED BY <2>2, <2>4, <2>5, <2>6
<1>11. ASSUME NEW o \in Op, ClockTick(o) PROVE TypeOK'
  <2>1. CASE GraceElapses(o)
    BY <2>1 DEF GraceElapses
  <2>2. CASE ScheduleDue(o)
    BY <2>2 DEF ScheduleDue
  <2>3. CASE LeaseAges(o)
    <3>1. ttl[o] - 1 \in 0..MaxTtl
        BY <2>3 DEF LeaseAges
    <3> QED BY <2>3, <3>1 DEF LeaseAges
  <2> QED BY <1>11, <2>1, <2>2, <2>3 DEF ClockTick
<1> QED
    BY <1>1, <1>2, <1>3, <1>4, <1>5, <1>6, <1>7, <1>8, <1>9, <1>10, <1>11, NextCases

\* The tables of the store keep their types through every transaction.
THEOREM StoreTypeOK == Spec => []TypeOK
<1>1. Init => TypeOK
    BY StoreAssumption DEF Init, TypeOK
<1> QED BY <1>1, TypeStep, PTL DEF Spec

-----------------------------------------------------------------------------
(* Fencing.  ClaimsAreSnapshots needs one more conjunct to be inductive: an *)
(* operation without a row was never claimed.  Otherwise Prepare, which     *)
(* sets the version to 1 without looking at it, could revive a claim.       *)

AbsentUnclaimed == \A o \in Op : state[o] = "absent" => claims[o] = << >>

Fencing == TypeOK /\ ClaimsAreSnapshots /\ AbsentUnclaimed

\* What a step does to one row, as far as claims can tell: nothing, ...
Quiet(o) ==
    /\ UNCHANGED <<state[o], version[o], authorized[o], lease[o], claims[o]>>
    /\ open'[o] = open[o]

\* ... moving it past every claim, ...
Moved(o) ==
    /\ claims'[o] = claims[o]
    /\ claims[o] = << >> \/ version'[o] = version[o] + 1
    /\ state'[o] # "absent"

\* ... or claiming it.
Claimed(o) ==
    /\ state[o] \in {"prepared", "uncertain"}
    /\ state'[o] = state[o]
    /\ authorized'[o] = authorized[o]
    /\ version'[o] = version[o] + 1
    /\ lease'[o] = NextAttempt(o)
    /\ NextAttempt(o) \in open'[o]
    /\ claims'[o] = Append(claims[o], [version    |-> version[o] + 1,
                                       state      |-> state[o],
                                       authorized |-> authorized[o]])

\* A result that is accepted comes from a claim that still describes its row.
LEMMA AcceptedResult ==
    ASSUME Fencing, NEW o \in Op, NEW n \in 1..Len(claims[o]), NEW ob,
           SubmitRecoveryResult(o, n, n, claims[o][n].version, ob)
    PROVE  /\ state[o] \in {"prepared", "uncertain"}
           /\ version[o] = claims[o][n].version
           /\ state'[o] = DecidedState(o, Decision(o, n, ob))
           /\ DecidedState(o, Decision(o, n, ob)) # "absent"
<1>1. version[o] = claims[o][n].version
    BY DEF SubmitRecoveryResult, MayAnswer, MoveVersion
<1>2. state[o] \in {"prepared", "uncertain"}
    BY <1>1 DEF Fencing, ClaimsAreSnapshots
<1>3. state'[o] = DecidedState(o, Decision(o, n, ob))
    BY DEF SubmitRecoveryResult, Fencing, TypeOK
<1>4. DecidedState(o, Decision(o, n, ob)) # "absent"
    BY <1>2, DecisionType DEF Fencing
<1> QED BY <1>1, <1>2, <1>3, <1>4

LEMMA RowStep ==
    ASSUME Fencing, Next, NEW p \in Op
    PROVE  Quiet(p) \/ Moved(p) \/ Claimed(p)
<1> USE DEF Fencing, TypeOK, scheduleCols, leaseCols, claimTables
<1>2. ASSUME NEW o \in Op, Prepare(o) PROVE Quiet(p) \/ Moved(p)
    BY <1>2 DEF Prepare, AbsentUnclaimed, Quiet, Moved
<1>3. ASSUME NEW o \in Op, NEW v \in Nat, AuthorizeDispatch(o, v) PROVE Quiet(p) \/ Moved(p)
    BY <1>3 DEF AuthorizeDispatch, MayAuthorize, MoveVersion, Quiet, Moved
<1>4. ASSUME NEW o \in Op, NEW v \in Nat, NEW r \in Receipt, Confirm(o, v, r)
      PROVE  Quiet(p) \/ Moved(p)
    BY <1>4 DEF Confirm, MayConfirm, MoveVersion, ClearLease, Quiet, Moved
<1>5. ASSUME NEW o \in Op, NEW v \in Nat, BeginRetry(o, v) PROVE Quiet(p) \/ Moved(p)
    BY <1>5 DEF BeginRetry, MayBeginRetry, MoveVersion, Quiet, Moved
<1>6. ASSUME NEW o \in Op, NEW v \in Nat, RequestReconciliation(o, v)
      PROVE  Quiet(p) \/ Moved(p)
    BY <1>6 DEF RequestReconciliation, MoveVersion, Quiet, Moved
<1>7. ASSUME NEW o \in Op, NEW v \in Nat, NEW m \in ManualOutcome, ManualResolve(o, v, m)
      PROVE  Quiet(p) \/ Moved(p)
  <2>1. ManualTarget[m] # "absent"
    BY DEF ManualOutcome, ManualTarget
  <2> QED BY <1>7, <2>1 DEF ManualResolve, MoveVersion, Quiet, Moved
<1>8. ASSUME NEW o \in Op, NEW n \in 1..Len(claims[o]), NEW t \in 1..MaxTtl, RenewClaim(o, n, t)
      PROVE  Quiet(p)
    BY <1>8 DEF RenewClaim, Quiet
<1>9. ASSUME NEW o \in Op, NEW n \in 1..Len(claims[o]), NEW ob \in Observation,
             SubmitRecoveryResult(o, n, n, claims[o][n].version, ob)
      PROVE  Quiet(p) \/ Moved(p)
  <2>1. CASE p = o
    <3>1. state'[o] # "absent"
        BY <1>9, AcceptedResult
    <3>2. version'[o] = version[o] + 1 /\ claims'[o] = claims[o]
        BY <1>9 DEF SubmitRecoveryResult, MayAnswer, MoveVersion
    <3> QED BY <2>1, <3>1, <3>2 DEF Moved
  <2>2. CASE p # o
    BY <1>9, <2>2 DEF SubmitRecoveryResult, MayAnswer, MoveVersion, ClearLease, Quiet
  <2> QED BY <2>1, <2>2
<1>10. ASSUME NEW batch \in SUBSET Op, NEW t \in 1..MaxTtl, ClaimRecovery(batch, t)
       PROVE  Quiet(p) \/ Claimed(p)
  <2>1. CASE p \in batch
    <3>1. state[p] \in {"prepared", "uncertain"}
        BY <1>10, <2>1 DEF ClaimRecovery, Eligible
    <3> QED BY <1>10, <2>1, <3>1 DEF ClaimRecovery, Claimed
  <2>2. CASE p \notin batch
    BY <1>10, <2>2 DEF ClaimRecovery, Quiet
  <2> QED BY <2>1, <2>2
<1>11. ASSUME NEW o \in Op, ClockTick(o) PROVE Quiet(p)
    BY <1>11 DEF ClockTick, GraceElapses, ScheduleDue, LeaseAges, Quiet
<1> QED
    BY <1>2, <1>3, <1>4, <1>5, <1>6, <1>7, <1>8, <1>9, <1>10, <1>11, NextCases

\* The three kinds of step each keep every claim on the row a snapshot.
LEMMA SnapshotStep ==
    ASSUME Fencing, NEW p \in Op, Quiet(p) \/ Moved(p) \/ Claimed(p)
    PROVE  /\ \A n \in 1..Len(claims'[p]) :
                /\ claims'[p][n].state \in {"prepared", "uncertain"}
                /\ claims'[p][n].version <= version'[p]
                /\ claims'[p][n].version = version'[p] =>
                    /\ state'[p] = claims'[p][n].state
                    /\ authorized'[p] = claims'[p][n].authorized
                    /\ lease'[p] = n
                    /\ n \in open'[p]
           /\ state'[p] = "absent" => claims'[p] = << >>
<1>1. CASE Quiet(p)
    BY <1>1 DEF Quiet, Fencing, ClaimsAreSnapshots, AbsentUnclaimed
<1>2. CASE Moved(p)
  <2>1. ASSUME NEW n \in 1..Len(claims'[p])
        PROVE  /\ claims'[p][n].state \in {"prepared", "uncertain"}
               /\ claims'[p][n].version <= version'[p]
               /\ claims'[p][n].version # version'[p]
    <3>1. claims[p] # << >>
        BY <1>2 DEF Moved
    <3>2. claims[p][n].version \in Nat /\ version[p] \in Nat
        BY <1>2, ClaimAt DEF Moved, Fencing, TypeOK, Claim
    <3> QED BY <1>2, <3>1, <3>2 DEF Moved, Fencing, ClaimsAreSnapshots
  <2> QED BY <1>2, <2>1 DEF Moved
<1>3. CASE Claimed(p)
  <2> DEFINE new == [version |-> version[p] + 1, state |-> state[p], authorized |-> authorized[p]]
  <2>1. claims[p] \in Seq(Claim) /\ version[p] \in Nat /\ Len(claims[p]) \in Nat
    BY LenProperties DEF Fencing, TypeOK
  <2>2. claims'[p] = Append(claims[p], new)
    BY <1>3 DEF Claimed
  <2> HIDE DEF new
  <2>3. /\ Len(claims'[p]) = NextAttempt(p)
        /\ claims'[p][NextAttempt(p)] = new
        /\ \A n \in 1..Len(claims[p]) : claims'[p][n] = claims[p][n]
    BY <2>1, <2>2 DEF NextAttempt
  <2>4. ASSUME NEW n \in 1..Len(claims[p])
        PROVE  /\ claims[p][n].state \in {"prepared", "uncertain"}
               /\ claims[p][n].version < version'[p]
    <3>1. claims[p][n].version \in Nat
        BY ClaimAt DEF Fencing, Claim
    <3> QED BY <1>3, <2>1, <3>1 DEF Claimed, Fencing, ClaimsAreSnapshots
  <2>5. ASSUME NEW n \in 1..Len(claims'[p])
        PROVE  n \in 1..Len(claims[p]) \/ n = NextAttempt(p)
    BY <2>1, <2>3 DEF NextAttempt
  <2>6. /\ new.state \in {"prepared", "uncertain"}
        /\ new.version = version'[p]
        /\ new.state = state'[p]
        /\ new.authorized = authorized'[p]
    BY <1>3 DEF Claimed, new
  <2>7. ASSUME NEW n \in 1..Len(claims'[p])
        PROVE  /\ claims'[p][n].state \in {"prepared", "uncertain"}
               /\ claims'[p][n].version <= version'[p]
               /\ claims'[p][n].version = version'[p] =>
                    /\ state'[p] = claims'[p][n].state
                    /\ authorized'[p] = claims'[p][n].authorized
                    /\ lease'[p] = n
                    /\ n \in open'[p]
    <3>0. version'[p] \in Nat
        BY <1>3, <2>1 DEF Claimed
    <3>1. CASE n = NextAttempt(p)
        BY <1>3, <2>3, <2>6, <3>0, <3>1 DEF Claimed
    <3>2. CASE n \in 1..Len(claims[p])
      <4>1. claims[p][n].version \in Nat
        BY <3>2, ClaimAt DEF Fencing, Claim
      <4> QED BY <2>3, <2>4, <3>0, <3>2, <4>1
    <3> QED BY <2>5, <3>1, <3>2
  <2>8. state'[p] # "absent"
    BY <1>3 DEF Claimed
  <2> QED BY <2>7, <2>8
<1> QED BY <1>1, <1>2, <1>3

LEMMA FencingStep == Fencing /\ [Next]_storeVars => Fencing'
<1>1. ASSUME Fencing, Next PROVE Fencing'
  <2>1. TypeOK'
    BY <1>1, TypeStep DEF Fencing
  <2>2. \A p \in Op : Quiet(p) \/ Moved(p) \/ Claimed(p)
    BY <1>1, RowStep
  <2>3. ClaimsAreSnapshots' /\ AbsentUnclaimed'
    BY <1>1, <2>2, SnapshotStep DEF ClaimsAreSnapshots, AbsentUnclaimed
  <2> QED BY <2>1, <2>3 DEF Fencing
<1>2. ASSUME Fencing, UNCHANGED storeVars PROVE Fencing'
    BY <1>2 DEF Fencing, TypeOK, ClaimsAreSnapshots, AbsentUnclaimed, storeVars, scheduleCols,
                leaseCols, claimTables
<1> QED BY <1>1, <1>2

LEMMA FencingInit == Init => Fencing
<1>1. Init => TypeOK
    BY StoreAssumption DEF Init, TypeOK
<1>2. Init => ClaimsAreSnapshots /\ AbsentUnclaimed
    BY DEF Init, ClaimsAreSnapshots, AbsentUnclaimed
<1> QED BY <1>1, <1>2 DEF Fencing

LEMMA FencingInvariant == Spec => []Fencing
BY FencingInit, FencingStep, PTL DEF Spec

\* The version alone fences recovery: whoever quotes the version of a claim and
\* finds it on the row holds the lease, and the row is what the claim showed.
THEOREM ClaimsStaySnapshots == Spec => []ClaimsAreSnapshots
<1>1. Fencing => ClaimsAreSnapshots
    BY DEF Fencing
<1> QED BY <1>1, FencingInvariant, PTL

-----------------------------------------------------------------------------
(* The newest claim.                                                        *)

Newest == TypeOK /\ OnlyNewestClaimHolds

LEMMA NewestStep == Newest /\ [Next]_storeVars => Newest'
<1> SUFFICES ASSUME Newest, [Next]_storeVars, NEW p \in Op, lease'[p] # 0
             PROVE  lease'[p] = Len(claims'[p]) /\ lease'[p] \in open'[p]
    BY TypeStep DEF Newest, OnlyNewestClaimHolds
<1> USE DEF Newest, OnlyNewestClaimHolds, TypeOK, scheduleCols, leaseCols, claimTables
<1> DEFINE Goal == lease'[p] = Len(claims'[p]) /\ lease'[p] \in open'[p]
<1>1. CASE UNCHANGED storeVars
    BY <1>1 DEF storeVars
<1>2. ASSUME NEW o \in Op, Prepare(o) PROVE Goal
    BY <1>2 DEF Prepare
<1>3. ASSUME NEW o \in Op, NEW v \in Nat, AuthorizeDispatch(o, v) PROVE Goal
    BY <1>3 DEF AuthorizeDispatch, MayAuthorize
<1>4. ASSUME NEW o \in Op, NEW v \in Nat, NEW r \in Receipt, Confirm(o, v, r) PROVE Goal
    BY <1>4 DEF Confirm, MayConfirm, ClearLease
<1>5. ASSUME NEW o \in Op, NEW v \in Nat, BeginRetry(o, v) PROVE Goal
    BY <1>5 DEF BeginRetry
<1>6. ASSUME NEW o \in Op, NEW v \in Nat, RequestReconciliation(o, v) PROVE Goal
    BY <1>6 DEF RequestReconciliation
<1>7. ASSUME NEW o \in Op, NEW v \in Nat, NEW m \in ManualOutcome, ManualResolve(o, v, m)
      PROVE  Goal
    BY <1>7 DEF ManualResolve
<1>8. ASSUME NEW o \in Op, NEW n \in 1..Len(claims[o]), NEW t \in 1..MaxTtl, RenewClaim(o, n, t)
      PROVE  Goal
    BY <1>8 DEF RenewClaim
<1>9. ASSUME NEW o \in Op, NEW n \in 1..Len(claims[o]), NEW ob \in Observation,
             SubmitRecoveryResult(o, n, n, claims[o][n].version, ob)
      PROVE  Goal
    BY <1>9 DEF SubmitRecoveryResult, ClearLease
<1>10. ASSUME NEW batch \in SUBSET Op, NEW t \in 1..MaxTtl, ClaimRecovery(batch, t) PROVE Goal
  <2>1. CASE p \in batch
    <3>1. claims'[p] = Append(claims[p], [version |-> version[p] + 1, state |-> state[p],
                                          authorized |-> authorized[p]])
        BY <1>10, <2>1 DEF ClaimRecovery
    <3>2. Len(claims'[p]) = NextAttempt(p)
        BY <3>1 DEF NextAttempt
    <3> QED BY <1>10, <2>1, <3>2 DEF ClaimRecovery
  <2>2. CASE p \notin batch
    BY <1>10, <2>2 DEF ClaimRecovery
  <2> QED BY <2>1, <2>2
<1>11. ASSUME NEW o \in Op, ClockTick(o) PROVE Goal
    BY <1>11 DEF ClockTick, GraceElapses, ScheduleDue, LeaseAges
<1> QED
    BY <1>1, <1>2, <1>3, <1>4, <1>5, <1>6, <1>7, <1>8, <1>9, <1>10, <1>11, NextCases

\* A coordinator whose claim was superseded can never again renew or answer.
THEOREM NewestClaimHolds == Spec => []OnlyNewestClaimHolds
<1>1. Init => Newest
    BY StoreAssumption DEF Init, Newest, TypeOK, OnlyNewestClaimHolds
<1>2. Newest => OnlyNewestClaimHolds
    BY DEF Newest
<1> QED BY <1>1, <1>2, NewestStep, PTL DEF Spec

-----------------------------------------------------------------------------
(* Finality and the life cycle, as consequences of fencing.                 *)

LEMMA FinalStep ==
    ASSUME Fencing, Next, NEW p \in Op, state[p] \in {"confirmed", "reconciled"}
    PROVE  state'[p] = state[p] /\ version'[p] = version[p] /\ receipt'[p] = receipt[p]
<1> USE DEF Fencing, TypeOK, scheduleCols, leaseCols, claimTables
<1> DEFINE Goal == state'[p] = state[p] /\ version'[p] = version[p] /\ receipt'[p] = receipt[p]
<1>2. ASSUME NEW o \in Op, Prepare(o) PROVE Goal
    BY <1>2 DEF Prepare
<1>3. ASSUME NEW o \in Op, NEW v \in Nat, AuthorizeDispatch(o, v) PROVE Goal
    BY <1>3 DEF AuthorizeDispatch, MayAuthorize, MoveVersion
<1>4. ASSUME NEW o \in Op, NEW v \in Nat, NEW r \in Receipt, Confirm(o, v, r) PROVE Goal
    BY <1>4 DEF Confirm, MayConfirm, MoveVersion
<1>5. ASSUME NEW o \in Op, NEW v \in Nat, BeginRetry(o, v) PROVE Goal
    BY <1>5 DEF BeginRetry, MayBeginRetry, MoveVersion
<1>6. ASSUME NEW o \in Op, NEW v \in Nat, RequestReconciliation(o, v) PROVE Goal
    BY <1>6 DEF RequestReconciliation, MoveVersion
<1>7. ASSUME NEW o \in Op, NEW v \in Nat, NEW m \in ManualOutcome, ManualResolve(o, v, m)
      PROVE  Goal
    BY <1>7 DEF ManualResolve, MoveVersion
<1>8. ASSUME NEW o \in Op, NEW n \in 1..Len(claims[o]), NEW t \in 1..MaxTtl, RenewClaim(o, n, t)
      PROVE  Goal
    BY <1>8 DEF RenewClaim
<1>9. ASSUME NEW o \in Op, NEW n \in 1..Len(claims[o]), NEW ob \in Observation,
             SubmitRecoveryResult(o, n, n, claims[o][n].version, ob)
      PROVE  Goal
  <2>1. p # o
    BY <1>9, AcceptedResult
  <2> QED BY <1>9, <2>1 DEF SubmitRecoveryResult, MayAnswer, MoveVersion
<1>10. ASSUME NEW batch \in SUBSET Op, NEW t \in 1..MaxTtl, ClaimRecovery(batch, t) PROVE Goal
    BY <1>10 DEF ClaimRecovery, Eligible
<1>11. ASSUME NEW o \in Op, ClockTick(o) PROVE Goal
    BY <1>11 DEF ClockTick, GraceElapses, ScheduleDue, LeaseAges
<1> QED
    BY <1>2, <1>3, <1>4, <1>5, <1>6, <1>7, <1>8, <1>9, <1>10, <1>11, NextCases

\* No call, however late, changes a confirmed or reconciled operation.
THEOREM FinalStatesAreFinal == Spec => TerminalIsFinal
<1> DEFINE Final == \A o \in Op : state[o] \in Lifecycle!Terminal =>
                        /\ state'[o] = state[o]
                        /\ version'[o] = version[o]
                        /\ receipt'[o] = receipt[o]
<1>1. Fencing /\ [Next]_storeVars => [Final]_storeVars
    BY FinalStep DEF Lifecycle!Terminal
<1> QED BY <1>1, FencingInvariant, PTL DEF Spec, TerminalIsFinal

LEMMA LifecycleStep ==
    ASSUME Fencing, Next
    PROVE  Lifecycle!Next \/ UNCHANGED <<state, authorized>>
<1> USE DEF Fencing, TypeOK, scheduleCols, leaseCols, claimTables,
            Lifecycle!CanTransition, Lifecycle!AllowedTransitions, Lifecycle!Terminal
<1> DEFINE Goal == Lifecycle!Next \/ UNCHANGED <<state, authorized>>
<1>2. ASSUME NEW o \in Op, Prepare(o) PROVE Goal
    BY <1>2 DEF Prepare, Lifecycle!Next, Lifecycle!Intend
<1>3. ASSUME NEW o \in Op, NEW v \in Nat, AuthorizeDispatch(o, v) PROVE Goal
    BY <1>3 DEF AuthorizeDispatch, MayAuthorize, Lifecycle!Next, Lifecycle!Grant
<1>4. ASSUME NEW o \in Op, NEW v \in Nat, NEW r \in Receipt, Confirm(o, v, r) PROVE Goal
  <2>1. Lifecycle!Complete(o)
    BY <1>4 DEF Confirm, MayConfirm, Lifecycle!Complete
  <2> QED BY <2>1 DEF Lifecycle!Next
<1>5. ASSUME NEW o \in Op, NEW v \in Nat, BeginRetry(o, v) PROVE Goal
    BY <1>5 DEF BeginRetry, MayBeginRetry, Lifecycle!Next, Lifecycle!Retry
<1>6. ASSUME NEW o \in Op, NEW v \in Nat, RequestReconciliation(o, v) PROVE Goal
    BY <1>6 DEF RequestReconciliation
<1>7. ASSUME NEW o \in Op, NEW v \in Nat, NEW m \in ManualOutcome, ManualResolve(o, v, m)
      PROVE  Goal
  <2>1. CASE m = "completed"
    <3>1. Lifecycle!Complete(o)
        BY <1>7, <2>1 DEF ManualResolve, ManualTarget, Lifecycle!Complete
    <3> QED BY <3>1 DEF Lifecycle!Next
  <2>2. CASE m = "absent"
    <3>1. Lifecycle!Release(o)
        BY <1>7, <2>2 DEF ManualResolve, ManualTarget, Lifecycle!Release
    <3> QED BY <3>1 DEF Lifecycle!Next
  <2>3. CASE m = "compensation_recorded"
    BY <1>7, <2>3 DEF ManualResolve, ManualTarget
  <2> QED BY <2>1, <2>2, <2>3 DEF ManualOutcome
<1>8. ASSUME NEW o \in Op, NEW n \in 1..Len(claims[o]), NEW t \in 1..MaxTtl, RenewClaim(o, n, t)
      PROVE  Goal
    BY <1>8 DEF RenewClaim
<1>9. ASSUME NEW o \in Op, NEW n \in 1..Len(claims[o]), NEW ob \in Observation,
             SubmitRecoveryResult(o, n, n, claims[o][n].version, ob)
      PROVE  Goal
  <2> DEFINE d == Decision(o, n, ob)
  <2>1. state[o] \in {"prepared", "uncertain"}
    BY <1>9, AcceptedResult
  <2>2. state' = [state EXCEPT ![o] = DecidedState(o, d)] /\ UNCHANGED authorized
    BY <1>9 DEF SubmitRecoveryResult
  <2>3. CASE d = "reconcile"
    <3>1. DecidedState(o, d) = "reconciled"
        BY <2>3, DecisionType
    <3>2. Lifecycle!Complete(o)
        BY <2>1, <2>2, <3>1 DEF Lifecycle!Complete
    <3> QED BY <3>2 DEF Lifecycle!Next
  <2>4. CASE d = "retry"
    <3>1. DecidedState(o, d) = "retryable"
        BY <2>4, DecisionType
    <3>2. ~authorized[o] \/ o \in Replayable
        BY <2>4 DEF Decision, NeverDispatched, ReplayGuaranteed
    <3>3. Lifecycle!Release(o)
        BY <2>1, <2>2, <3>1, <3>2 DEF Lifecycle!Release
    <3> QED BY <3>3 DEF Lifecycle!Next
  <2>5. CASE d = "mark_uncertain"
    <3>1. DecidedState(o, d) = "uncertain"
        BY <2>5, DecisionType
    <3>2. CASE state[o] = "prepared"
      <4>1. Lifecycle!Suspect(o)
        BY <2>2, <3>1, <3>2 DEF Lifecycle!Suspect
      <4> QED BY <4>1 DEF Lifecycle!Next
    <3>3. CASE state[o] = "uncertain"
        BY <2>2, <3>1, <3>3
    <3> QED BY <2>1, <3>2, <3>3
  <2>6. CASE d = "none"
    <3>1. DecidedState(o, d) = state[o]
        BY <2>6, DecisionType
    <3> QED BY <2>2, <3>1
  <2> QED BY <2>3, <2>4, <2>5, <2>6, DecisionType
<1>10. ASSUME NEW batch \in SUBSET Op, NEW t \in 1..MaxTtl, ClaimRecovery(batch, t) PROVE Goal
    BY <1>10 DEF ClaimRecovery
<1>11. ASSUME NEW o \in Op, ClockTick(o) PROVE Goal
    BY <1>11 DEF ClockTick, GraceElapses, ScheduleDue, LeaseAges
<1> QED
    BY <1>2, <1>3, <1>4, <1>5, <1>6, <1>7, <1>8, <1>9, <1>10, <1>11, NextCases

\* Every behaviour of the store is a behaviour of the abstract life cycle.
THEOREM ImplementsLifecycle == Spec => LifecycleSpec
<1>1. Init => Lifecycle!Init
    BY DEF Init, Lifecycle!Init
<1>2. Fencing /\ [Next]_storeVars => [Lifecycle!Next]_<<state, authorized>>
  <2>1. ASSUME UNCHANGED storeVars PROVE UNCHANGED <<state, authorized>>
    BY <2>1 DEF storeVars
  <2> QED BY <2>1, LifecycleStep
<1> QED
    BY <1>1, <1>2, FencingInvariant, PTL
       DEF Spec, LifecycleSpec, Lifecycle!Spec, Lifecycle!lifecycleVars

-----------------------------------------------------------------------------
(* Receipts.                                                                *)

\* What ReceiptIffConfirmed says of one row.
Receipted(o) ==
    /\ (state[o] = "confirmed") <=> (receipt[o] # NoReceipt)
    /\ state[o] \in {"confirmed", "reconciled"} => resolved[o]

LEMMA ReceiptStep ==
    ASSUME Fencing, Next, NEW p \in Op, Receipted(p)
    PROVE  Receipted(p)'
<1> USE StoreAssumption DEF Fencing, TypeOK, Receipted, scheduleCols, leaseCols, claimTables
<1>2. ASSUME NEW o \in Op, Prepare(o) PROVE Receipted(p)'
    BY <1>2 DEF Prepare
<1>3. ASSUME NEW o \in Op, NEW v \in Nat, AuthorizeDispatch(o, v) PROVE Receipted(p)'
    BY <1>3 DEF AuthorizeDispatch, MayAuthorize
<1>4. ASSUME NEW o \in Op, NEW v \in Nat, NEW r \in Receipt, Confirm(o, v, r)
      PROVE  Receipted(p)'
    BY <1>4 DEF Confirm, MayConfirm
<1>5. ASSUME NEW o \in Op, NEW v \in Nat, BeginRetry(o, v) PROVE Receipted(p)'
    BY <1>5 DEF BeginRetry, MayBeginRetry
<1>6. ASSUME NEW o \in Op, NEW v \in Nat, RequestReconciliation(o, v) PROVE Receipted(p)'
    BY <1>6 DEF RequestReconciliation
<1>7. ASSUME NEW o \in Op, NEW v \in Nat, NEW m \in ManualOutcome, ManualResolve(o, v, m)
      PROVE  Receipted(p)'
  <2>1. /\ ManualTarget[m] # "confirmed"
        /\ ManualTarget[m] = "reconciled" => m = "completed"
    BY DEF ManualOutcome, ManualTarget
  <2> QED BY <1>7, <2>1 DEF ManualResolve
<1>8. ASSUME NEW o \in Op, NEW n \in 1..Len(claims[o]), NEW t \in 1..MaxTtl, RenewClaim(o, n, t)
      PROVE  Receipted(p)'
    BY <1>8 DEF RenewClaim
<1>9. ASSUME NEW o \in Op, NEW n \in 1..Len(claims[o]), NEW ob \in Observation,
             SubmitRecoveryResult(o, n, n, claims[o][n].version, ob)
      PROVE  Receipted(p)'
  <2> DEFINE d == Decision(o, n, ob)
  <2>1. state[o] \in {"prepared", "uncertain"}
    BY <1>9, AcceptedResult
  <2>2. /\ state' = [state EXCEPT ![o] = DecidedState(o, d)]
        /\ resolved' = [resolved EXCEPT ![o] = (d \in {"reconcile", "mark_uncertain"})]
        /\ receipt' = receipt
    BY <1>9 DEF SubmitRecoveryResult
  <2>3. TypeOK
    OBVIOUS
  <2>4. /\ d \in {"reconcile", "retry", "mark_uncertain", "none"}
        /\ d = "none" => DecidedState(o, d) = state[o]
        /\ d = "reconcile" => DecidedState(o, d) = "reconciled"
        /\ d = "retry" => DecidedState(o, d) = "retryable"
        /\ d = "mark_uncertain" => DecidedState(o, d) = "uncertain"
    BY <2>3, DecisionType
  <2> HIDE DEF d
  <2>5. /\ DecidedState(o, d) # "confirmed"
        /\ DecidedState(o, d) = "reconciled" => d = "reconcile"
    BY <2>1, <2>4
  <2> QED BY <2>1, <2>2, <2>5
<1>10. ASSUME NEW batch \in SUBSET Op, NEW t \in 1..MaxTtl, ClaimRecovery(batch, t)
       PROVE  Receipted(p)'
    BY <1>10 DEF ClaimRecovery
<1>11. ASSUME NEW o \in Op, ClockTick(o) PROVE Receipted(p)'
    BY <1>11 DEF ClockTick, GraceElapses, ScheduleDue, LeaseAges
<1> QED
    BY <1>2, <1>3, <1>4, <1>5, <1>6, <1>7, <1>8, <1>9, <1>10, <1>11, NextCases

\* A receipt is on file exactly for the confirmed operations, however late or
\* often it is submitted, and what is final is resolved.
THEOREM ReceiptsMatchStates == Spec => []ReceiptIffConfirmed
<1>1. Init => ReceiptIffConfirmed
    BY DEF Init, ReceiptIffConfirmed
<1>2. Fencing /\ ReceiptIffConfirmed /\ [Next]_storeVars => ReceiptIffConfirmed'
  <2>1. ASSUME ReceiptIffConfirmed, UNCHANGED storeVars PROVE ReceiptIffConfirmed'
    BY <2>1 DEF storeVars, ReceiptIffConfirmed
  <2>2. ASSUME Fencing, ReceiptIffConfirmed, Next PROVE ReceiptIffConfirmed'
    BY <2>2, ReceiptStep DEF ReceiptIffConfirmed, Receipted
  <2> QED BY <2>1, <2>2
<1> QED BY <1>1, <1>2, FencingInvariant, PTL DEF Spec

=============================================================================
