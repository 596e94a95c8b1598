---------------------- MODULE RecoveryCoordinatorProofs ----------------------
(***************************************************************************)
(* Proofs about the email service, for any operations, grants and bounds,  *)
(* and about coordinators that recover operations of the store with its    *)
(* evidence.  The latter are facts about a step, for every system that     *)
(* coordinators are part of: that of Watchkeeper and that of the demo.     *)
(***************************************************************************)
EXTENDS RecoveryCoordinator, OperationStoreProofs

-----------------------------------------------------------------------------
(* The service keeps its types.                                             *)

\* An answered request is a request, with the receipt it was answered with.
LEMMA AnsweredType ==
    ASSUME ServiceTypeOK, NEW c \in calls, NEW r \in 0..MaxEffects, Answered(c, r)
    PROVE  calls' \subseteq Call
<1>1. c \in Call
    BY DEF ServiceTypeOK
<1>2. [c EXCEPT !.working = FALSE, !.receipt = r] \in Call
    BY <1>1 DEF Call
<1> QED BY <1>2 DEF Answered, ServiceTypeOK

\* The transaction keeps the tables well formed and yields a receipt in bounds.
LEMMA RecordType ==
    ASSUME ServiceTypeOK, NEW o \in Op, RecordEffect(o)
    PROVE  /\ effects' \in [Op -> 0..MaxEffects]
           /\ bound' \in [Op -> 0..MaxEffects]
           /\ ReceiptFor(o) \in 0..MaxEffects
<1> USE ServiceAssumption DEF ServiceTypeOK
<1>1. CASE AlreadyBound(o)
    BY <1>1 DEF RecordEffect, ReceiptFor
<1>2. CASE ~AlreadyBound(o)
  <2>1. effects[o] + 1 \in 0..MaxEffects
    BY <1>2 DEF RecordEffect
  <2> QED BY <1>2, <2>1 DEF RecordEffect, ReceiptFor
<1> QED BY <1>1, <1>2

\* Every step keeps tables and requests well formed.
LEMMA ServiceTypeStep == ServiceTypeOK /\ [ServiceNext]_serviceVars => ServiceTypeOK'
<1> SUFFICES ASSUME ServiceTypeOK, [ServiceNext]_serviceVars PROVE ServiceTypeOK'
    OBVIOUS
<1> USE ServiceAssumption DEF ServiceTypeOK
<1>1. CASE UNCHANGED serviceVars
    BY <1>1 DEF serviceVars
<1>2. ASSUME NEW o \in Op, NEW g \in Grants, Accept(o, g) PROVE ServiceTypeOK'
  <2>1. [op |-> o, grant |-> g, working |-> TRUE, receipt |-> 0] \in Call
    BY DEF Call
  <2> QED BY <1>2, <2>1 DEF Accept
<1>3. ASSUME NEW c \in calls, Commit(c) PROVE ServiceTypeOK'
  <2>1. c.op \in Op
    BY DEF Call
  <2> QED BY <1>3, <2>1, RecordType, AnsweredType DEF Commit
<1>4. ASSUME NEW c \in calls, CommitUnanswered(c) PROVE ServiceTypeOK'
  <2>1. c.op \in Op
    BY DEF Call
  <2> QED BY <1>4, <2>1, RecordType, AnsweredType DEF CommitUnanswered
<1>5. ASSUME NEW c \in calls, Refuse(c) PROVE ServiceTypeOK'
    BY <1>5, AnsweredType DEF Refuse
<1>6. ASSUME NEW c \in calls, Repeat(c) PROVE ServiceTypeOK'
  <2>1. c.op \in Op
    BY DEF Call
  <2> QED BY <1>6, <2>1, RecordType DEF Repeat
<1>7. ASSUME NEW c \in calls, Finish(c) PROVE ServiceTypeOK'
    BY <1>7 DEF Finish
<1> QED BY <1>1, <1>2, <1>3, <1>4, <1>5, <1>6, <1>7 DEF ServiceNext

LEMMA ServiceTypeInit == ServiceInit => ServiceTypeOK
BY ServiceAssumption DEF ServiceInit, ServiceTypeOK

\* The two tables and the requests of the service stay well formed: no request
\* is ever answered with a receipt outside the bounds.
THEOREM ServiceTypeCorrect == ServiceSpec => []ServiceTypeOK
BY ServiceTypeInit, ServiceTypeStep, PTL DEF ServiceSpec

-----------------------------------------------------------------------------
(* One effect per key.  The property itself is not inductive: what keeps a  *)
(* second effect away is that the key row is written with the first one.    *)

KeyIsBound ==
    \A o \in Op : Keyed(o) =>
        /\ effects[o] = bound[o]
        /\ bound[o] <= 1
        /\ \A c \in calls : c.op = o => c.receipt \in {0, bound[o]}

\* What the transaction does to the effects and the key of a keyed operation.
LEMMA KeyedRecord ==
    ASSUME ServiceTypeOK, KeyIsBound, NEW p \in Op, RecordEffect(p),
           NEW o \in Op, Keyed(o)
    PROVE  /\ effects'[o] = bound'[o]
           /\ bound'[o] <= 1
           /\ bound[o] \in {0, bound'[o]}
           /\ p = o => ReceiptFor(o) = bound'[o]
<1> USE DEF ServiceTypeOK
<1>0. /\ effects[o] = bound[o]
      /\ bound[o] \in {0, 1}
    BY ServiceAssumption DEF KeyIsBound
<1>1. CASE p # o
    BY <1>0, <1>1 DEF RecordEffect
<1>2. CASE p = o /\ AlreadyBound(o)
    BY <1>0, <1>2 DEF RecordEffect, ReceiptFor
<1>3. CASE p = o /\ ~AlreadyBound(o)
  <2>1. bound[o] = 0 /\ effects[o] = 0
    BY <1>0, <1>3 DEF AlreadyBound
  <2>2. effects'[o] = 1 /\ bound'[o] = 1
    BY <1>3, <2>1 DEF RecordEffect
  <2> QED BY <1>3, <2>1, <2>2 DEF ReceiptFor
<1> QED BY <1>1, <1>2, <1>3

\* One step keeps every key bound to the only effect of its operation.
LEMMA KeyStep ==
    ServiceTypeOK /\ KeyIsBound /\ [ServiceNext]_serviceVars => KeyIsBound'
<1> SUFFICES ASSUME ServiceTypeOK, KeyIsBound, [ServiceNext]_serviceVars,
                    NEW o \in Op, Keyed(o)
             PROVE  /\ effects'[o] = bound'[o]
                    /\ bound'[o] <= 1
                    /\ \A c \in calls' : c.op = o => c.receipt \in {0, bound'[o]}
    BY DEF KeyIsBound, Keyed
<1>0. /\ effects[o] = bound[o]
      /\ bound[o] <= 1
      /\ \A c \in calls : c.op = o => c.receipt \in {0, bound[o]}
    BY DEF KeyIsBound
<1>1. CASE UNCHANGED serviceVars
    BY <1>0, <1>1 DEF serviceVars
<1>2. ASSUME NEW p \in Op, NEW g \in Grants, Accept(p, g)
      PROVE  \A c \in calls' : c.op = o => c.receipt \in {0, bound'[o]}
    BY <1>0, <1>2 DEF Accept
<1>3. ASSUME NEW c \in calls, NEW r, Answered(c, r), r = 0 \/ (c.op = o => r = bound'[o]),
             bound[o] \in {0, bound'[o]}
      PROVE  \A d \in calls' : d.op = o => d.receipt \in {0, bound'[o]}
  <2>1. c \in Call
    BY DEF ServiceTypeOK
  <2>2. /\ [c EXCEPT !.working = FALSE, !.receipt = r].receipt = r
        /\ [c EXCEPT !.working = FALSE, !.receipt = r].op = c.op
    BY <2>1 DEF Call
  <2> QED BY <1>0, <1>3, <2>2 DEF Answered
<1>4. ASSUME NEW c \in calls, Commit(c) \/ CommitUnanswered(c) \/ Refuse(c) \/ Repeat(c) \/ Finish(c)
      PROVE  /\ effects'[o] = bound'[o]
             /\ bound'[o] <= 1
             /\ \A d \in calls' : d.op = o => d.receipt \in {0, bound'[o]}
  <2>0. c.op \in Op
    BY DEF ServiceTypeOK, Call
  <2>1. CASE Commit(c)
    BY <1>3, <2>0, <2>1, KeyedRecord DEF Commit
  <2>2. CASE CommitUnanswered(c)
    BY <1>3, <2>0, <2>2, KeyedRecord DEF CommitUnanswered
  <2>3. CASE Refuse(c)
    BY <1>0, <1>3, <2>3 DEF Refuse
  <2>4. CASE Repeat(c)
    BY <1>0, <2>0, <2>4, KeyedRecord DEF Repeat
  <2>5. CASE Finish(c)
    BY <1>0, <2>5 DEF Finish
  <2> QED BY <1>4, <2>1, <2>2, <2>3, <2>4, <2>5
<1> QED BY <1>0, <1>1, <1>2, <1>4 DEF ServiceNext, Accept

\* Under a service with durable keys, however many requests with one key are
\* accepted, repeated, abandoned or answered, one effect comes of them and every
\* receipt they are answered with is that effect's.
THEOREM KeysAreIdempotent == ServiceSpec => []OneEffectPerKey
<1>1. ServiceInit => KeyIsBound
    BY DEF ServiceInit, KeyIsBound
<1>2. ServiceTypeOK /\ KeyIsBound => OneEffectPerKey
    BY DEF KeyIsBound, OneEffectPerKey
<1> QED BY <1>1, <1>2, KeyStep, ServiceTypeCorrect, PTL DEF ServiceSpec

-----------------------------------------------------------------------------
(* Distinct receipts.                                                       *)

\* A request answered with no receipt, or with one no other request of its
\* operation has, keeps receipts distinct.
LEMMA DistinctAnswer ==
    ASSUME ServiceTypeOK, ReceiptsAreDistinct, NEW c \in calls, NEW r \in 0..MaxEffects,
           Answered(c, r),
           \A o \in Op : effects[o] <= effects'[o],
           effects' \in [Op -> 0..MaxEffects],
           r # 0 => /\ r <= effects'[c.op]
                    /\ Keyed(c.op) \/ \A d \in calls : d.op = c.op => d.receipt # r
    PROVE  ReceiptsAreDistinct'
<1> DEFINE new == [c EXCEPT !.working = FALSE, !.receipt = r]
<1>1. new \in Call /\ new.op = c.op /\ new.receipt = r
    BY DEF ServiceTypeOK, Call
<1>2. calls' = (calls \ {c}) \union {new}
    BY DEF Answered
<1> HIDE DEF new
<1>3. \A d \in calls : d.op \in Op /\ d.receipt \in 0..MaxEffects
    BY DEF ServiceTypeOK, Call
<1>4. \A o \in Op : effects[o] \in Nat /\ effects'[o] \in Nat
    BY ServiceAssumption DEF ServiceTypeOK
<1>5. ASSUME NEW d \in calls', d.receipt # 0 PROVE d.receipt <= effects'[d.op]
  <2>1. CASE d = new
    BY <1>1, <1>5, <2>1
  <2>2. CASE d \in calls
    <3>1. d.receipt <= effects[d.op]
        BY <1>5, <2>2 DEF ReceiptsAreDistinct
    <3> QED BY <1>3, <1>4, <2>2, <3>1, ServiceAssumption
  <2> QED BY <1>2, <2>1, <2>2
<1>6. ASSUME NEW d \in calls', NEW e \in calls', d.receipt # 0,
             e.op = d.op, e.receipt = d.receipt, ~Keyed(d.op)
      PROVE  e = d
  <2>1. CASE d = new /\ e \in calls
    BY <1>1, <1>6, <2>1
  <2>2. CASE d \in calls /\ e = new
    BY <1>1, <1>6, <2>2
  <2>3. CASE d \in calls /\ e \in calls
    BY <1>6, <2>3 DEF ReceiptsAreDistinct
  <2> QED BY <1>2, <2>1, <2>2, <2>3
<1> QED BY <1>5, <1>6 DEF ReceiptsAreDistinct, Keyed

\* The transaction never removes an effect, and the receipt it yields is of an
\* effect that exists and that nobody has been told of, unless there is a key.
LEMMA FreshReceipt ==
    ASSUME ServiceTypeOK, KeyIsBound, ReceiptsAreDistinct, NEW o \in Op, RecordEffect(o)
    PROVE  /\ \A p \in Op : effects[p] <= effects'[p]
           /\ ReceiptFor(o) <= effects'[o]
           /\ Keyed(o) \/ \A d \in calls : d.op = o => d.receipt # ReceiptFor(o)
<1>1. \A p \in Op : effects[p] \in Nat
    BY ServiceAssumption DEF ServiceTypeOK
<1>2. CASE AlreadyBound(o)
  <2>1. Keyed(o) /\ effects[o] = bound[o] /\ effects' = effects
    BY <1>2 DEF AlreadyBound, KeyIsBound, RecordEffect
  <2> QED BY <1>1, <1>2, <2>1 DEF ReceiptFor
<1>3. CASE ~AlreadyBound(o)
  <2>1. /\ effects' = [effects EXCEPT ![o] = @ + 1]
        /\ ReceiptFor(o) = effects[o] + 1
    BY <1>3 DEF RecordEffect, ReceiptFor
  <2>2. ASSUME NEW d \in calls, d.op = o PROVE d.receipt # effects[o] + 1
    <3>1. d.receipt \in Nat
        BY ServiceAssumption DEF ServiceTypeOK, Call
    <3>2. d.receipt = 0 \/ d.receipt <= effects[o]
        BY <2>2 DEF ReceiptsAreDistinct
    <3> QED BY <1>1, <3>1, <3>2
  <2>3. \A p \in Op : effects[p] <= effects'[p]
    BY <1>1, <2>1 DEF ServiceTypeOK
  <2>4. effects'[o] = effects[o] + 1
    BY <2>1 DEF ServiceTypeOK
  <2> QED BY <1>1, <2>1, <2>2, <2>3, <2>4
<1> QED BY <1>2, <1>3

LEMMA DistinctStep ==
    ServiceTypeOK /\ KeyIsBound /\ ReceiptsAreDistinct /\ [ServiceNext]_serviceVars
        => ReceiptsAreDistinct'
<1> SUFFICES ASSUME ServiceTypeOK, KeyIsBound, ReceiptsAreDistinct, [ServiceNext]_serviceVars
             PROVE  ReceiptsAreDistinct'
    OBVIOUS
<1>0. /\ \A d \in calls : d.op \in Op
      /\ \A o \in Op : effects[o] \in Nat
    BY ServiceAssumption DEF ServiceTypeOK, Call
<1>1. CASE UNCHANGED serviceVars
    BY <1>1 DEF serviceVars, ReceiptsAreDistinct, Keyed
<1>2. ASSUME NEW o \in Op, NEW g \in Grants, Accept(o, g) PROVE ReceiptsAreDistinct'
    BY <1>2 DEF Accept, ReceiptsAreDistinct, Keyed
<1>3. ASSUME NEW c \in calls, Commit(c) \/ CommitUnanswered(c) PROVE ReceiptsAreDistinct'
  <2>1. RecordEffect(c.op)
    BY <1>3 DEF Commit, CommitUnanswered
  <2>2. /\ effects' \in [Op -> 0..MaxEffects]
        /\ ReceiptFor(c.op) \in 0..MaxEffects
    BY <1>0, <2>1, RecordType
  <2>3. Answered(c, ReceiptFor(c.op)) \/ Answered(c, 0)
    BY <1>3 DEF Commit, CommitUnanswered
  <2>4. 0 \in 0..MaxEffects
    BY ServiceAssumption
  <2> QED BY <1>0, <2>1, <2>2, <2>3, <2>4, FreshReceipt, DistinctAnswer
<1>4. ASSUME NEW c \in calls, Refuse(c) PROVE ReceiptsAreDistinct'
  <2>1. 0 \in 0..MaxEffects /\ effects' = effects
    BY <1>4, ServiceAssumption DEF Refuse
  <2>2. \A o \in Op : effects[o] <= effects'[o]
    BY <1>0, <2>1
  <2> QED BY <1>4, <2>1, <2>2, DistinctAnswer DEF Refuse, ServiceTypeOK
<1>5. ASSUME NEW c \in calls, Repeat(c) PROVE ReceiptsAreDistinct'
  <2>1. \A o \in Op : effects[o] <= effects'[o] /\ effects'[o] \in Nat
    BY <1>0, <1>5, FreshReceipt, RecordType, ServiceAssumption DEF Repeat
  <2>2. ASSUME NEW d \in calls, d.receipt # 0 PROVE d.receipt <= effects'[d.op]
    <3>1. d.receipt <= effects[d.op] /\ d.receipt \in Nat
        BY <2>2, ServiceAssumption DEF ReceiptsAreDistinct, ServiceTypeOK, Call
    <3> QED BY <1>0, <2>1, <3>1
  <2> QED BY <1>5, <2>2 DEF Repeat, ReceiptsAreDistinct, Keyed
<1>6. ASSUME NEW c \in calls, Finish(c) PROVE ReceiptsAreDistinct'
    BY <1>6 DEF Finish, ReceiptsAreDistinct, Keyed
<1> QED BY <1>1, <1>2, <1>3, <1>4, <1>5, <1>6 DEF ServiceNext

\* No two callers without a key are ever told that one effect is theirs, and none
\* is told of an effect that does not exist.
THEOREM ReceiptsStayDistinct == ServiceSpec => []ReceiptsAreDistinct
<1>1. ServiceInit => KeyIsBound /\ ReceiptsAreDistinct
    BY DEF ServiceInit, KeyIsBound, ReceiptsAreDistinct
<1> QED BY <1>1, KeyStep, DistinctStep, ServiceTypeCorrect, PTL DEF ServiceSpec

-----------------------------------------------------------------------------
(* Coordinators and the tables of the store                                 *)

\* A row has a version as long as it exists.
Numbered == \A o \in Op : state[o] # "absent" => version[o] >= 1

\* Claims that coordinators hold, or gave up while answering, have been issued.
IsClaim(o, n) == n \in 1..Len(claims[o])

Issued ==
    /\ \A c \in Coordinator : \A k \in work[c] : IsClaim(k[1], k[2])
    /\ \A c \in Coordinator : \A v \in verdict[c] : IsClaim(v.op, v.attempt)
    /\ \A v \in overdue : IsClaim(v.op, v.attempt)

Coordinating ==
    /\ Fencing
    /\ CoordinatorTypeOK
    /\ Numbered
    /\ Issued

LEMMA CoordinatingInit == Init /\ CoordinatorInit => Coordinating
<1> SUFFICES ASSUME Init, CoordinatorInit PROVE Coordinating
    OBVIOUS
<1>1. Fencing
    BY FencingInit
<1>2. CoordinatorTypeOK /\ Issued
    BY DEF CoordinatorInit, CoordinatorTypeOK, Issued
<1>3. Numbered
    BY DEF Init, Numbered
<1> QED BY <1>1, <1>2, <1>3 DEF Coordinating

\* A call that quotes the version the row has is one the store expects.
LEMMA CurrentVersion ==
    ASSUME Coordinating, NEW o \in Op, state[o] # "absent"
    PROVE  version[o] \in 1..version[o]
<1>1. version[o] \in Nat /\ version[o] >= 1
    BY DEF Coordinating, Fencing, TypeOK, Numbered
<1> QED BY <1>1

LEMMA CallsAreExpected ==
    ASSUME Coordinating, NEW o \in Op, NEW v
    PROVE  /\ Prepare(o) => Next
           /\ AuthorizeDispatch(o, v) => Next
           /\ \A r \in Receipt : Confirm(o, v, r) => Next
           /\ BeginRetry(o, v) => Next
           /\ RequestReconciliation(o, v) => Next
           /\ \A m \in ManualOutcome : ManualResolve(o, v, m) => Next
<1>1. Prepare(o) => Next
    BY DEF Next, WorkerCall
<1>2. ASSUME v = version[o], state[o] # "absent" PROVE v \in 1..version[o]
    BY <1>2, CurrentVersion
<1>3. AuthorizeDispatch(o, v) => Next
    BY <1>2 DEF AuthorizeDispatch, MayAuthorize, Next, WorkerCall
<1>4. ASSUME NEW r \in Receipt, Confirm(o, v, r) PROVE Next
    BY <1>2, <1>4 DEF Confirm, MayConfirm, Next, WorkerCall
<1>5. BeginRetry(o, v) => Next
    BY <1>2 DEF BeginRetry, MayBeginRetry, Next, WorkerCall
<1>6. RequestReconciliation(o, v) => Next
    BY <1>2 DEF RequestReconciliation, Next, OperatorCall
<1>7. ASSUME NEW m \in ManualOutcome, ManualResolve(o, v, m) PROVE Next
    BY <1>2, <1>7 DEF ManualResolve, Next, OperatorCall
<1> QED BY <1>1, <1>3, <1>4, <1>5, <1>6, <1>7

\* So is a result that quotes the version of the claim it answers.
LEMMA ResultsAreExpected ==
    ASSUME Coordinating, NEW v \in Verdict, IsClaim(v.op, v.attempt),
           SubmitRecoveryResult(v.op, v.attempt, v.attempt, Expected(v), v.ob)
    PROVE  Next
<1>1. v.op \in Op /\ v.ob \in Observation /\ v.attempt \in 1..Len(claims[v.op])
    BY DEF Verdict, IsClaim
<1>2. CoordinatorCall(v.op)
    BY <1>1 DEF CoordinatorCall, Expected
<1> QED BY <1>1, <1>2 DEF Next

LEMMA CoordinatorsCall ==
    ASSUME Coordinating, NEW c \in Coordinator, CoordinatorStep(c) \/ CoordinatorFault(c)
    PROVE  [Next]_storeVars
<1>1. ASSUME NEW batch \in SUBSET Op, ClaimRecovery(batch, MaxTtl) PROVE Next
  <2>1. MaxTtl \in 1..MaxTtl
    BY StoreAssumption
  <2> QED BY <1>1, <2>1 DEF Next
<1>2. CASE Claims(c) \/ ClaimsInVain(c)
    BY <1>1, <1>2 DEF Claims, ClaimsInVain
<1>3. CASE Submits(c)
    BY <1>3, ResultsAreExpected
       DEF Submits, Coordinating, CoordinatorTypeOK, Issued
<1>4. CASE Verifies(c) \/ VerifiesInVain(c) \/ SubmitsInVain(c) \/ Abandons(c)
    BY <1>4 DEF Verifies, VerifiesInVain, SubmitsInVain, Abandons, Concludes
<1> QED BY <1>2, <1>3, <1>4 DEF CoordinatorStep, CoordinatorFault

-----------------------------------------------------------------------------
(* Types                                                                    *)

\* Whatever is observed is an observation.
LEMMA EvidenceType ==
    ASSUME NEW o \in Op
    PROVE  Evidence(o) \in Observation /\ Unreachable(o) \in Observation
<1>1. ASSUME NEW m \in Mechanism, NEW u \in Outcome, NEW b \in BOOLEAN
      PROVE  Observed(m, u, b) \in Observation
    BY DEF Observed, Observation
<1>2. {"status_lookup", "indirect_lookup", "idempotent_repeat", "none"} \subseteq Mechanism
    BY DEF Mechanism
<1>3. {"completed", "unknown", "transient_error", "contradictory"} \subseteq Outcome
    BY DEF Outcome
<1>4. \A m \in Mechanism : Lookup(o, m) \in Observation
    BY <1>1, <1>3 DEF Lookup
<1>5. Unreachable(o) \in Observation
    BY <1>1, <1>2, <1>3 DEF Unreachable
<1>6. (ServiceProfile = "idempotency_only") \in BOOLEAN
    OBVIOUS
<1>7. Observed("none", "unknown", FALSE) \in Observation
    BY <1>1, <1>2, <1>3
<1>8. Observed("idempotent_repeat", "unknown", ServiceProfile = "idempotency_only")
        \in Observation
    BY <1>1, <1>2, <1>3, <1>6
<1>9. /\ Lookup(o, "indirect_lookup") \in Observation
      /\ Lookup(o, "status_lookup") \in Observation
    BY <1>2, <1>4
<1> QED BY <1>5, <1>7, <1>8, <1>9 DEF Evidence

LEMMA CoordinatorTypeStep ==
    ASSUME Coordinating, NEW c \in Coordinator, CoordinatorStep(c) \/ CoordinatorFault(c)
    PROVE  CoordinatorTypeOK'
<1>0. /\ TypeOK
      /\ CoordinatorTypeOK
      /\ \A k \in work[c] : k \in Op \X Nat
    BY DEF Coordinating, Fencing, CoordinatorTypeOK
<1> USE DEF CoordinatorTypeOK
<1>1. CASE Claims(c)
  <2>1. \A o \in Op : NextAttempt(o) \in Nat
    BY <1>0, LenProperties DEF NextAttempt, TypeOK
  <2> QED BY <1>0, <1>1, <2>1 DEF Claims
<1>2. CASE ClaimsInVain(c)
    BY <1>0, <1>2 DEF ClaimsInVain, coordinatorVars
<1>3. CASE Verifies(c) \/ VerifiesInVain(c)
  <2>1. PICK k \in work[c], ob \in Observation : Concludes(c, k[1], k[2], ob)
    BY <1>0, <1>3, EvidenceType DEF Verifies, VerifiesInVain
  <2>2. [op |-> k[1], attempt |-> k[2], ob |-> ob] \in Verdict
    BY <1>0 DEF Verdict
  <2> QED BY <1>0, <2>1, <2>2 DEF Concludes
<1>4. CASE Submits(c) \/ SubmitsInVain(c) \/ Abandons(c)
    BY <1>0, <1>4 DEF Submits, SubmitsInVain, Abandons
<1> QED BY <1>1, <1>2, <1>3, <1>4 DEF CoordinatorStep, CoordinatorFault

-----------------------------------------------------------------------------
(* What only grows: versions, claims, effects                               *)

LEMMA NumberedStep ==
    ASSUME TypeOK, Numbered, [Next]_storeVars
    PROVE  Numbered'
<1> SUFFICES ASSUME NEW p \in Op, state'[p] # "absent" PROVE version'[p] >= 1
    BY DEF Numbered
<1> USE DEF TypeOK, Numbered, scheduleCols, leaseCols, claimTables
<1>1. CASE UNCHANGED storeVars
    BY <1>1 DEF storeVars
<1>2. ASSUME NEW o \in Op, Prepare(o) PROVE version'[p] >= 1
    BY <1>2 DEF Prepare
<1>3. ASSUME NEW o \in Op, NEW v \in Nat, AuthorizeDispatch(o, v) PROVE version'[p] >= 1
    BY <1>3 DEF AuthorizeDispatch, MayAuthorize, MoveVersion
<1>4. ASSUME NEW o \in Op, NEW v \in Nat, NEW r \in Receipt, Confirm(o, v, r)
      PROVE  version'[p] >= 1
    BY <1>4 DEF Confirm, MayConfirm, MoveVersion
<1>5. ASSUME NEW o \in Op, NEW v \in Nat, BeginRetry(o, v) PROVE version'[p] >= 1
    BY <1>5 DEF BeginRetry, MayBeginRetry, MoveVersion
<1>6. ASSUME NEW o \in Op, NEW v \in Nat, RequestReconciliation(o, v) PROVE version'[p] >= 1
    BY <1>6 DEF RequestReconciliation, MoveVersion
<1>7. ASSUME NEW o \in Op, NEW v \in Nat, NEW m \in ManualOutcome, ManualResolve(o, v, m)
      PROVE  version'[p] >= 1
    BY <1>7 DEF ManualResolve, MoveVersion
<1>8. ASSUME NEW o \in Op, NEW n, NEW t, RenewClaim(o, n, t) PROVE version'[p] >= 1
    BY <1>8 DEF RenewClaim
<1>9. ASSUME NEW o \in Op, NEW n, NEW v, NEW ob, SubmitRecoveryResult(o, n, n, v, ob)
      PROVE  version'[p] >= 1
  <2>1. CASE p = o
    BY <1>9, <2>1 DEF SubmitRecoveryResult, MoveVersion
  <2>2. CASE p # o
    BY <1>9, <2>2 DEF SubmitRecoveryResult, MoveVersion
  <2> QED BY <2>1, <2>2
<1>10. ASSUME NEW batch \in SUBSET Op, NEW t \in 1..MaxTtl, ClaimRecovery(batch, t)
       PROVE  version'[p] >= 1
    BY <1>10 DEF ClaimRecovery
<1>11. ASSUME NEW o \in Op, ClockTick(o) PROVE version'[p] >= 1
    BY <1>11 DEF ClockTick, GraceElapses, ScheduleDue, LeaseAges
<1> QED
    BY <1>1, <1>2, <1>3, <1>4, <1>5, <1>6, <1>7, <1>8, <1>9, <1>10, <1>11, NextCases

\* A claim stays a claim.
LEMMA ClaimsGrow ==
    ASSUME Fencing, [Next]_storeVars, NEW o \in Op, NEW n, IsClaim(o, n)
    PROVE  IsClaim(o, n)'
<1>0. claims[o] \in Seq(Claim) /\ Len(claims[o]) \in Nat
    BY LenProperties DEF Fencing, TypeOK
<1>1. CASE claims'[o] = claims[o]
    BY <1>1 DEF IsClaim
<1>2. CASE Claimed(o)
  <2>1. Len(claims'[o]) = Len(claims[o]) + 1
    BY <1>0, <1>2 DEF Claimed
  <2> QED BY <1>0, <2>1 DEF IsClaim
<1>3. claims'[o] = claims[o] \/ Claimed(o)
    BY RowStep DEF Quiet, Moved, storeVars, claimTables
<1> QED BY <1>1, <1>2, <1>3

\* An effect is never taken back.
LEMMA EffectsGrow ==
    ASSUME ServiceTypeOK, [ServiceNext]_serviceVars, NEW o \in Op
    PROVE  effects[o] \in Nat /\ effects'[o] \in Nat /\ effects[o] <= effects'[o]
<1>0. /\ effects \in [Op -> 0..MaxEffects]
      /\ effects[o] \in Nat
    BY ServiceAssumption DEF ServiceTypeOK
<1>1. CASE effects' = effects
    BY <1>0, <1>1
<1>2. ASSUME NEW p \in Op, RecordEffect(p) PROVE effects'[o] \in Nat /\ effects[o] <= effects'[o]
    BY <1>0, <1>2 DEF RecordEffect
<1>3. \A c \in calls : c.op \in Op
    BY DEF ServiceTypeOK, Call
<1> QED BY <1>0, <1>1, <1>2, <1>3
        DEF ServiceNext, serviceVars, Accept, Commit, CommitUnanswered, Refuse, Repeat, Finish

\* What a coordinator holds after a step has been issued by then.
LEMMA IssuedStep ==
    ASSUME Coordinating, [Next]_storeVars,
           \/ UNCHANGED coordinatorVars
           \/ \E v \in overdue : DeliverOverdue(v)
           \/ \E c \in Coordinator : CoordinatorStep(c) \/ CoordinatorFault(c)
    PROVE  Issued'
<1>0. /\ Fencing /\ Issued /\ CoordinatorTypeOK
      /\ [Next]_storeVars
      /\ \A c \in Coordinator : \A k \in work[c] : k[1] \in Op
      /\ \A c \in Coordinator : \A v \in verdict[c] : v.op \in Op
      /\ \A v \in overdue : v.op \in Op
    BY DEF Coordinating, CoordinatorTypeOK, Verdict
<1>1. /\ \A c \in Coordinator : \A k \in work[c] : IsClaim(k[1], k[2])'
      /\ \A c \in Coordinator : \A v \in verdict[c] : IsClaim(v.op, v.attempt)'
      /\ \A v \in overdue : IsClaim(v.op, v.attempt)'
    BY <1>0, ClaimsGrow DEF Issued
<1>2. CASE UNCHANGED coordinatorVars
    BY <1>1, <1>2 DEF coordinatorVars, Issued
<1>3. ASSUME NEW v \in overdue, DeliverOverdue(v) PROVE Issued'
    BY <1>1, <1>3 DEF DeliverOverdue, Issued
<1>4. ASSUME NEW c \in Coordinator, CoordinatorStep(c) \/ CoordinatorFault(c) PROVE Issued'
  <2>1. CASE Claims(c)
    <3>1. PICK batch \in SUBSET Op :
            /\ ClaimRecovery(batch, MaxTtl)
            /\ work' = [work EXCEPT ![c] = {<<o, NextAttempt(o)>> : o \in batch}]
        BY <2>1 DEF Claims
    <3>2. ASSUME NEW o \in batch, NEW n, n = NextAttempt(o) PROVE IsClaim(o, n)'
      <4>1. claims[o] \in Seq(Claim) /\ Len(claims[o]) \in Nat
        BY <1>0, LenProperties DEF Fencing, TypeOK
      <4>2. Len(claims'[o]) = n
        BY <3>1, <3>2, <4>1 DEF ClaimRecovery, NextAttempt
      <4> QED BY <3>2, <4>1, <4>2 DEF IsClaim, NextAttempt
    <3>3. ASSUME NEW d \in Coordinator, NEW k \in work'[d] PROVE IsClaim(k[1], k[2])'
      <4>1. CASE d = c
        <5>1. PICK o \in batch : k = <<o, NextAttempt(o)>>
            BY <1>0, <3>1, <3>3, <4>1 DEF CoordinatorTypeOK
        <5> QED BY <3>2, <5>1
      <4>2. CASE d # c
        BY <1>0, <1>1, <3>1, <3>3, <4>2 DEF CoordinatorTypeOK
      <4> QED BY <4>1, <4>2
    <3> QED BY <1>1, <2>1, <3>3 DEF Claims, Issued
  <2>2. CASE ClaimsInVain(c)
    BY <1>2, <2>2 DEF ClaimsInVain
  <2>3. CASE Verifies(c) \/ VerifiesInVain(c)
    <3>1. PICK k \in work[c] : \E ob : Concludes(c, k[1], k[2], ob)
        BY <2>3 DEF Verifies, VerifiesInVain
    <3> QED BY <1>0, <1>1, <3>1 DEF Concludes, Issued, CoordinatorTypeOK
  <2>4. CASE Submits(c) \/ SubmitsInVain(c) \/ Abandons(c)
    BY <1>0, <1>1, <2>4 DEF Submits, SubmitsInVain, Abandons, Issued, CoordinatorTypeOK
  <2> QED BY <1>4, <2>1, <2>2, <2>3, <2>4 DEF CoordinatorStep, CoordinatorFault
<1> QED BY <1>2, <1>3, <1>4

=============================================================================
