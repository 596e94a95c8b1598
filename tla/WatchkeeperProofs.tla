-------------------------- MODULE WatchkeeperProofs --------------------------
(***************************************************************************)
(* Theorems about Watchkeeper, for any number of operations, workers and   *)
(* coordinators, any profiles and limits, and any number of failures and   *)
(* interventions.  First the system is shown to use the store and the      *)
(* service as their specifications allow, so that what is proved of them   *)
(* holds here; then effects are counted.                                   *)
(***************************************************************************)
EXTENDS Watchkeeper, RecoveryCoordinatorProofs, FiniteSetTheorems

\* Receipts on their way to the store, and those in it, are of recorded effects.
Persisting == {"persist", "reread", "compare"}

Backed ==
    /\ \A w \in Worker : at[w] \in Persisting => got[w] \in 1..effects[JobOf[w]]
    /\ \A r \in late : r.call = "persist" => r.receipt \in 1..effects[r.op]
    /\ \A o \in Op : receipt[o] <= effects[o]
    /\ \A w \in Worker : at[w] = "compare" => receipt[JobOf[w]] # NoReceipt

\* A confirmation under way has a try left.
TryLeft == \A w \in Worker : at[w] = "persist" => tries[w] < ConfirmTries

Linked ==
    /\ Fencing
    /\ ReceiptIffConfirmed
    /\ SystemTypeOK
    /\ KeyIsBound
    /\ ReceiptsAreDistinct
    /\ Numbered
    /\ Issued
    /\ Backed
    /\ TryLeft

LEMMA LinkedCoordinates ==
    ASSUME Linked
    PROVE  Coordinating
BY DEF Linked, Coordinating, SystemTypeOK

-----------------------------------------------------------------------------
(* The system uses the store as its specification allows.                   *)

\* What a worker does to the store is a call of the store.
LEMMA WorkersCall ==
    ASSUME Linked, NEW w \in Worker, WorkerStep(w) \/ Rerun(w) \/ WorkerFault(w)
    PROVE  [Next]_storeVars
<1>0. JobOf[w] \in Op
    BY WorkerAssumption
<1>1. CASE Start(w)
    BY <1>0, <1>1, LinkedCoordinates, CallsAreExpected DEF Start
<1>2. CASE StartAttempt(w)
    BY <1>0, <1>2, LinkedCoordinates, CallsAreExpected DEF StartAttempt
<1>3. CASE AskToDispatch(w)
    BY <1>0, <1>3, LinkedCoordinates, CallsAreExpected DEF AskToDispatch
<1>4. CASE Persist(w)
  <2>1. got[w] \in Receipt
    BY <1>4, WorkerAssumption
       DEF Persist, Linked, Backed, Persisting, SystemTypeOK, WorkerTypeOK
  <2> QED BY <1>0, <1>4, <2>1, LinkedCoordinates, CallsAreExpected DEF Persist
<1>5. CASE \/ Poll(w) \/ Send(w) \/ TakeAnswer(w) \/ Reread(w) \/ Compare(w)
           \/ WorkerFault(w) \/ Rerun(w)
    BY <1>5 DEF Poll, Send, TakeAnswer, Reread, Compare, WorkerFault, GiveUpWaiting,
                LoseReply, ReadFails, Crash, Rerun
<1> QED BY <1>1, <1>2, <1>3, <1>4, <1>5 DEF WorkerStep

LEMMA LateRequestsCall ==
    ASSUME Linked, LateRequests
    PROVE  [Next]_storeVars
<1>1. ASSUME NEW r \in late, DeliverLate(r) PROVE Next
  <2>1. r \in Request /\ r.op \in Op
    BY DEF Linked, SystemTypeOK, WorkerTypeOK, Request
  <2>2. r.call = "persist" => r.receipt \in Receipt
    <3>1. r.receipt \in 0..MaxEffects
        BY <2>1 DEF Request
    <3> QED BY <3>1, WorkerAssumption DEF Linked, Backed
  <2> QED BY <1>1, <2>1, <2>2, LinkedCoordinates, CallsAreExpected DEF DeliverLate
<1>2. ASSUME NEW v \in overdue, DeliverOverdue(v) PROVE Next
    BY <1>2, LinkedCoordinates, ResultsAreExpected
       DEF DeliverOverdue, Linked, SystemTypeOK, CoordinatorTypeOK, Issued
<1> QED BY <1>1, <1>2 DEF LateRequests

LEMMA StoreStep == Linked /\ [SystemNext]_systemVars => [Next]_storeVars
<1> SUFFICES ASSUME Linked, [SystemNext]_systemVars PROVE [Next]_storeVars
    OBVIOUS
<1>1. CASE UNCHANGED systemVars
    BY <1>1 DEF systemVars
<1>2. CASE Workers
    BY <1>2, WorkersCall DEF Workers
<1>3. CASE LateRequests
    BY <1>3, LateRequestsCall
<1>4. CASE Coordinators
    BY <1>4, LinkedCoordinates, CoordinatorsCall DEF Coordinators
<1>5. CASE Service
    BY <1>5 DEF Service
<1>6. CASE Administrator
    BY <1>6, LinkedCoordinates, CallsAreExpected DEF Administrator
<1>7. CASE Clock
    BY <1>7 DEF Clock, Next, ClockTick
<1> QED BY <1>1, <1>2, <1>3, <1>4, <1>5, <1>6, <1>7 DEF SystemNext

\* A request is sent under the version its worker holds, a grant it may name.
LEMMA ServiceStep == SystemTypeOK /\ [SystemNext]_systemVars => [ServiceNext]_serviceVars
<1> SUFFICES ASSUME SystemTypeOK, [SystemNext]_systemVars PROVE [ServiceNext]_serviceVars
    OBVIOUS
<1>1. CASE UNCHANGED systemVars
    BY <1>1 DEF systemVars
<1>2. ASSUME NEW w \in Worker, WorkerStep(w) \/ Rerun(w) \/ WorkerFault(w)
      PROVE  [ServiceNext]_serviceVars
  <2>1. CASE Send(w)
    <3>1. JobOf[w] \in Op /\ view[w].version \in Grants
        BY WorkerAssumption DEF SystemTypeOK, WorkerTypeOK, Snapshot
    <3> QED BY <2>1, <3>1 DEF Send, ServiceNext
  <2>2. CASE TakeAnswer(w)
    BY <2>2 DEF TakeAnswer, ServiceNext
  <2>3. CASE ~Send(w) /\ ~TakeAnswer(w)
    BY <1>2, <2>3
       DEF WorkerStep, Start, StartAttempt, AskToDispatch, Poll, Persist, Reread, Compare,
           WorkerFault, GiveUpWaiting, LoseReply, ReadFails, Crash, Rerun
  <2> QED BY <2>1, <2>2, <2>3
<1>3. CASE LateRequests
    BY <1>3 DEF LateRequests, DeliverLate, DeliverOverdue
<1>4. CASE Coordinators
    BY <1>4 DEF Coordinators, CoordinatorStep, CoordinatorFault, Claims, ClaimsInVain, Verifies,
                VerifiesInVain, Concludes, Submits, SubmitsInVain, Abandons
<1>5. CASE Service
    BY <1>5 DEF Service, ServiceNext
<1>6. CASE Administrator \/ Clock
    BY <1>6 DEF Administrator, Clock
<1> QED BY <1>1, <1>2, <1>3, <1>4, <1>5, <1>6 DEF SystemNext, Workers

-----------------------------------------------------------------------------
(* Types                                                                    *)

\* What a worker goes on with is well formed.
LEMMA ProceedType ==
    ASSUME SystemTypeOK, NEW w \in Worker, NEW place \in Place, NEW op \in Snapshot,
           NEW r \in 0..MaxEffects, NEW n \in 0..ConfirmTries,
           Proceed(w, place, op, r, n), late' \subseteq Request
    PROVE  WorkerTypeOK'
BY DEF Proceed, SystemTypeOK, WorkerTypeOK

LEMMA GoToType ==
    ASSUME SystemTypeOK, NEW w \in Worker, NEW place \in Place,
           GoTo(w, place), late' \subseteq Request
    PROVE  WorkerTypeOK'
<1>1. /\ Blank \in Snapshot
      /\ 0 \in 0..MaxEffects
      /\ 0 \in 0..ConfirmTries
    BY WorkerAssumption, ServiceAssumption DEF Blank, Snapshot
<1> QED BY <1>1, ProceedType DEF GoTo

\* The steps of Execute lead to well-formed places.
LEMMA FollowType ==
    ASSUME SystemTypeOK, NEW w \in Worker, NEW op \in Snapshot, Follow(w, op),
           late' \subseteq Request
    PROVE  WorkerTypeOK'
<1>1. /\ 0 \in 0..MaxEffects
      /\ 0 \in 0..ConfirmTries
      /\ {"done", "unsure", "poll", "retry", "grant"} \subseteq Place
    BY WorkerAssumption, ServiceAssumption DEF Place
<1> QED BY <1>1, ProceedType, GoToType DEF Follow

LEMMA WorkerTypeStep ==
    ASSUME Linked, TypeOK', NEW w \in Worker, WorkerStep(w) \/ Rerun(w) \/ WorkerFault(w)
    PROVE  WorkerTypeOK'
<1>0. /\ SystemTypeOK
      /\ TypeOK
      /\ late \subseteq Request
      /\ JobOf[w] \in Op
      /\ view[w] \in Snapshot
      /\ at[w] \in Place
      /\ got[w] \in 0..MaxEffects
      /\ tries[w] \in 0..ConfirmTries
      /\ 0 \in 0..MaxEffects
      /\ 0 \in 0..ConfirmTries
    BY WorkerAssumption, ServiceAssumption DEF Linked, Fencing, SystemTypeOK, WorkerTypeOK
<1>1. Row(JobOf[w]) \in Snapshot /\ Row(JobOf[w])' \in Snapshot
    BY <1>0 DEF Row, Snapshot, TypeOK
<1>2. Blank \in Snapshot
    BY DEF Blank, Snapshot
<1>3. {"start", "retry", "grant", "send", "await", "persist", "reread", "compare",
       "poll", "done", "unsure", "stopped"} \subseteq Place
    BY DEF Place
<1>4. CASE Start(w)
    BY <1>0, <1>1, <1>4, FollowType DEF Start
<1>5. CASE StartAttempt(w)
    BY <1>0, <1>1, <1>3, <1>5, ProceedType, GoToType DEF StartAttempt
<1>6. CASE AskToDispatch(w)
    BY <1>0, <1>1, <1>3, <1>6, ProceedType DEF AskToDispatch
<1>7. CASE Poll(w)
    BY <1>0, <1>1, <1>7, FollowType DEF Poll
<1>8. CASE Send(w)
    BY <1>0, <1>3, <1>8, ProceedType DEF Send
<1>9. CASE TakeAnswer(w)
  <2>1. \A c \in calls : c.receipt \in 0..MaxEffects
    BY <1>0 DEF SystemTypeOK, ServiceTypeOK, Call
  <2> QED BY <1>0, <1>3, <1>9, <2>1, ProceedType, GoToType DEF TakeAnswer
<1>10. at[w] = "persist" => tries[w] + 1 \in 0..ConfirmTries
    BY <1>0, WorkerAssumption DEF Linked, TryLeft
<1>11. CASE Persist(w)
    BY <1>0, <1>2, <1>3, <1>10, <1>11, ProceedType, GoToType DEF Persist
<1>12. CASE Reread(w)
    BY <1>0, <1>1, <1>2, <1>3, <1>12, ProceedType, GoToType DEF Reread
<1>13. CASE Compare(w)
    BY <1>0, <1>3, <1>13, GoToType DEF Compare
<1>14. CASE GiveUpWaiting(w)
    BY <1>0, <1>3, <1>14, GoToType DEF GiveUpWaiting
<1>15. CASE LoseReply(w)
  <2>1. view[w].version \in Nat
    BY <1>0 DEF Snapshot
  <2>2. [call |-> at[w], op |-> JobOf[w], version |-> view[w].version, receipt |-> got[w]]
            \in Request
    BY <1>0, <1>15, <2>1 DEF LoseReply, Request
  <2>3. late' \subseteq Request
    BY <1>0, <1>15, <2>2 DEF LoseReply
  <2> QED BY <1>0, <1>2, <1>3, <1>10, <1>15, <2>3, ProceedType, GoToType DEF LoseReply
<1>16. CASE ReadFails(w)
    BY <1>0, <1>3, <1>16, FollowType, GoToType DEF ReadFails
<1>17. CASE Crash(w)
    BY <1>0, <1>3, <1>17, GoToType DEF Crash
<1>18. CASE Rerun(w)
    BY <1>0, <1>3, <1>18, GoToType DEF Rerun
<1> QED BY <1>4, <1>5, <1>6, <1>7, <1>8, <1>9, <1>11, <1>12, <1>13, <1>14, <1>15, <1>16,
           <1>17, <1>18 DEF WorkerStep, WorkerFault

LEMMA SystemTypeStep == Linked /\ [SystemNext]_systemVars => SystemTypeOK'
<1> SUFFICES ASSUME Linked, [SystemNext]_systemVars PROVE SystemTypeOK'
    OBVIOUS
<1>0. SystemTypeOK /\ TypeOK /\ TypeOK'
    BY StoreStep, TypeStep DEF Linked, Fencing
<1>1. ServiceTypeOK'
    BY <1>0, ServiceStep, ServiceTypeStep DEF SystemTypeOK
<1>2. faults' \in 0..MaxFaults /\ interventions' \in 0..MaxInterventions
    BY <1>0, BudgetAssumption
       DEF SystemTypeOK, SystemNext, systemVars, Workers, LateRequests, Coordinators, Service,
           Administrator, Clock, NoFault, Fault, Timely
<1>3. CASE UNCHANGED systemVars
    BY <1>0, <1>3
       DEF systemVars, workerVars, coordinatorVars, serviceVars, SystemTypeOK, WorkerTypeOK,
           CoordinatorTypeOK, ServiceTypeOK
<1>4. CASE Workers
    BY <1>0, <1>1, <1>2, <1>4, WorkerTypeStep
       DEF Workers, coordinatorVars, SystemTypeOK, CoordinatorTypeOK
<1>5. CASE LateRequests
  <2>1. WorkerTypeOK'
    BY <1>0, <1>5 DEF LateRequests, DeliverLate, workerVars, SystemTypeOK, WorkerTypeOK
  <2>2. CoordinatorTypeOK'
    BY <1>0, <1>5 DEF LateRequests, DeliverOverdue, coordinatorVars, SystemTypeOK,
                      CoordinatorTypeOK
  <2> QED BY <1>1, <1>2, <2>1, <2>2 DEF SystemTypeOK
<1>6. CASE Coordinators
    BY <1>0, <1>1, <1>2, <1>6, LinkedCoordinates, CoordinatorTypeStep
       DEF Coordinators, workerVars, SystemTypeOK, WorkerTypeOK
<1>7. CASE Service \/ Administrator \/ Clock
    BY <1>0, <1>1, <1>2, <1>7
       DEF Service, Administrator, Clock, workerVars, coordinatorVars, SystemTypeOK,
           WorkerTypeOK, CoordinatorTypeOK
<1> QED BY <1>3, <1>4, <1>5, <1>6, <1>7 DEF SystemNext

-----------------------------------------------------------------------------
(* What only grows: versions, claims, effects, receipts                     *)

\* Nor is a receipt.
LEMMA ReceiptKept ==
    ASSUME Fencing, [Next]_storeVars, NEW o \in Op, receipt[o] # NoReceipt
    PROVE  receipt'[o] = receipt[o]
<1>1. CASE UNCHANGED storeVars
    BY <1>1 DEF storeVars
<1>2. ASSUME NEW p \in Op, NEW v \in Nat, NEW r \in Receipt, Confirm(p, v, r)
      PROVE  receipt'[o] = receipt[o]
    BY <1>2 DEF Confirm, MayConfirm, Fencing, TypeOK
<1>3. ASSUME receipt' = receipt PROVE receipt'[o] = receipt[o]
    BY <1>3
<1> QED
    BY <1>1, <1>2, <1>3, NextCases
       DEF Prepare, AuthorizeDispatch, BeginRetry, RequestReconciliation, ManualResolve,
           RenewClaim, SubmitRecoveryResult, ClaimRecovery, ClockTick, GraceElapses,
           ScheduleDue, LeaseAges

-----------------------------------------------------------------------------
(* The parts of Linked that tie workers and coordinators to the tables       *)

LEMMA SystemIssuedStep == Linked /\ [SystemNext]_systemVars => Issued'
<1> SUFFICES ASSUME Linked, [SystemNext]_systemVars PROVE Issued'
    OBVIOUS
<1>1. \/ UNCHANGED coordinatorVars
      \/ \E v \in overdue : DeliverOverdue(v)
      \/ \E c \in Coordinator : CoordinatorStep(c) \/ CoordinatorFault(c)
    BY DEF SystemNext, systemVars, Workers, LateRequests, Coordinators, Service,
           Administrator, Clock
<1> QED BY <1>1, LinkedCoordinates, StoreStep, IssuedStep

LEMMA TryLeftStep == Linked /\ [SystemNext]_systemVars => TryLeft'
<1> SUFFICES ASSUME Linked, [SystemNext]_systemVars PROVE TryLeft'
    OBVIOUS
<1>0. TryLeft /\ WorkerTypeOK /\ 0 < ConfirmTries
    BY WorkerAssumption DEF Linked, SystemTypeOK
<1>1. CASE UNCHANGED workerVars
    BY <1>0, <1>1 DEF workerVars, TryLeft
<1>2. ASSUME NEW r \in late, DeliverLate(r) PROVE TryLeft'
    BY <1>0, <1>2 DEF DeliverLate, TryLeft
<1>3. ASSUME NEW w \in Worker, WorkerStep(w) \/ Rerun(w) \/ WorkerFault(w) PROVE TryLeft'
  <2>1. ASSUME NEW place, NEW op, NEW g, NEW n, Proceed(w, place, op, g, n),
               place = "persist" => n < ConfirmTries
        PROVE  TryLeft'
    BY <1>0, <2>1 DEF Proceed, TryLeft, WorkerTypeOK
  <2>2. ASSUME NEW op, Follow(w, op) PROVE TryLeft'
    BY <2>1, <2>2 DEF Follow, GoTo
  <2>3. CASE Start(w) \/ Poll(w) \/ ReadFails(w)
    BY <2>1, <2>2, <2>3 DEF Start, Poll, ReadFails, GoTo
  <2>4. CASE StartAttempt(w) \/ AskToDispatch(w) \/ Send(w) \/ Persist(w) \/ Compare(w)
    BY <2>1, <2>4 DEF StartAttempt, AskToDispatch, Send, Persist, Compare, GoTo
  <2>5. CASE TakeAnswer(w)
    BY <1>0, <2>1, <2>5 DEF TakeAnswer, GoTo
  <2>6. CASE Reread(w)
    BY <2>1, <2>6 DEF Reread, MayPersist, GoTo
  <2>7. CASE GiveUpWaiting(w) \/ LoseReply(w) \/ Crash(w) \/ Rerun(w)
    BY <2>1, <2>7 DEF GiveUpWaiting, LoseReply, Crash, Rerun, GoTo
  <2> QED BY <1>3, <2>3, <2>4, <2>5, <2>6, <2>7 DEF WorkerStep, WorkerFault
<1> QED BY <1>1, <1>2, <1>3
        DEF SystemNext, systemVars, Workers, LateRequests, Coordinators, Service,
            Administrator, Clock

\* A worker that goes on with a receipt of a recorded effect, and compares it only
\* once there is one on file, leaves all workers so.
LEMMA BackedProceed ==
    ASSUME Linked, [Next]_storeVars, [ServiceNext]_serviceVars,
           NEW w \in Worker, NEW place, NEW op, NEW g, NEW n, Proceed(w, place, op, g, n),
           place \in Persisting => g \in 1..effects'[JobOf[w]],
           place = "compare" => receipt[JobOf[w]] # NoReceipt
    PROVE  \A u \in Worker :
             /\ at'[u] \in Persisting => got'[u] \in 1..effects'[JobOf[u]]
             /\ at'[u] = "compare" => receipt'[JobOf[u]] # NoReceipt
<1> SUFFICES ASSUME NEW u \in Worker
             PROVE  /\ at'[u] \in Persisting => got'[u] \in 1..effects'[JobOf[u]]
                    /\ at'[u] = "compare" => receipt'[JobOf[u]] # NoReceipt
    OBVIOUS
<1>0. /\ WorkerTypeOK /\ ServiceTypeOK /\ Fencing /\ Backed
      /\ JobOf[u] \in Op
    BY WorkerAssumption DEF Linked, SystemTypeOK
<1>1. receipt[JobOf[u]] # NoReceipt => receipt'[JobOf[u]] # NoReceipt
    BY <1>0, ReceiptKept
<1>2. CASE u = w
    BY <1>0, <1>1, <1>2 DEF Proceed, WorkerTypeOK
<1>3. CASE u # w
  <2>1. at'[u] = at[u] /\ got'[u] = got[u]
    BY <1>0, <1>3 DEF Proceed, WorkerTypeOK
  <2>2. at[u] \in Persisting => got[u] \in 1..effects[JobOf[u]]
    BY <1>0 DEF Backed
  <2>3. 1..effects[JobOf[u]] \subseteq 1..effects'[JobOf[u]]
    BY <1>0, EffectsGrow
  <2> QED BY <1>0, <1>1, <2>1, <2>2, <2>3 DEF Backed
<1> QED BY <1>2, <1>3

LEMMA BackedFollow ==
    ASSUME Linked, [Next]_storeVars, [ServiceNext]_serviceVars,
           NEW w \in Worker, NEW op, Follow(w, op)
    PROVE  \A u \in Worker :
             /\ at'[u] \in Persisting => got'[u] \in 1..effects'[JobOf[u]]
             /\ at'[u] = "compare" => receipt'[JobOf[u]] # NoReceipt
BY BackedProceed DEF Follow, GoTo, Persisting

LEMMA BackedWorkers ==
    ASSUME Linked, [Next]_storeVars, [ServiceNext]_serviceVars,
           NEW w \in Worker, WorkerStep(w) \/ Rerun(w) \/ WorkerFault(w)
    PROVE  \A u \in Worker :
             /\ at'[u] \in Persisting => got'[u] \in 1..effects'[JobOf[u]]
             /\ at'[u] = "compare" => receipt'[JobOf[u]] # NoReceipt
<1>0. /\ WorkerTypeOK /\ ServiceTypeOK /\ Fencing /\ Backed
      /\ JobOf[w] \in Op
    BY WorkerAssumption DEF Linked, SystemTypeOK
<1>1. 1..effects[JobOf[w]] \subseteq 1..effects'[JobOf[w]]
    BY <1>0, EffectsGrow
<1>2. at[w] \in Persisting => got[w] \in 1..effects'[JobOf[w]]
    BY <1>0, <1>1 DEF Backed
<1>3. CASE Start(w) \/ Poll(w) \/ ReadFails(w)
    BY <1>3, BackedFollow, BackedProceed DEF Start, Poll, ReadFails, GoTo, Persisting
<1>4. CASE StartAttempt(w) \/ AskToDispatch(w) \/ Send(w) \/ Compare(w)
    BY <1>4, BackedProceed
       DEF StartAttempt, AskToDispatch, Send, Compare, GoTo, Persisting
<1>5. CASE TakeAnswer(w)
  <2>1. PICK c \in calls :
            /\ IsCallOf(w, c)
            /\ \/ c.receipt # 0 /\ Proceed(w, "persist", view[w], c.receipt, 0)
               \/ c.receipt = 0 /\ GoTo(w, "poll")
    BY <1>5 DEF TakeAnswer
  <2>2. c.receipt # 0 => c.receipt \in 1..effects[JobOf[w]]
    <3>1. c.receipt \in 0..MaxEffects /\ effects[JobOf[w]] \in Nat
        BY <1>0, ServiceAssumption DEF ServiceTypeOK, Call
    <3>2. c.receipt # 0 => c.receipt <= effects[JobOf[w]]
        BY <2>1 DEF Linked, ReceiptsAreDistinct, IsCallOf
    <3> QED BY <3>1, <3>2, ServiceAssumption
  <2> QED BY <1>1, <2>1, <2>2, BackedProceed DEF GoTo, Persisting
<1>6. CASE Persist(w)
    BY <1>2, <1>6, BackedProceed DEF Persist, GoTo, Persisting
<1>7. CASE Reread(w)
  <2>1. state[JobOf[w]] = "confirmed" => receipt[JobOf[w]] # NoReceipt
    BY <1>0 DEF Linked, ReceiptIffConfirmed
  <2> QED BY <1>2, <1>7, <2>1, BackedProceed DEF Reread, GoTo, Persisting
<1>8. CASE GiveUpWaiting(w) \/ LoseReply(w) \/ Crash(w) \/ Rerun(w)
    BY <1>2, <1>8, BackedProceed
       DEF GiveUpWaiting, LoseReply, Crash, Rerun, GoTo, Persisting
<1> QED BY <1>3, <1>4, <1>5, <1>6, <1>7, <1>8 DEF WorkerStep, WorkerFault

LEMMA BackedStep ==
    ASSUME Linked, [SystemNext]_systemVars
    PROVE  Backed'
<1>0. /\ [Next]_storeVars
      /\ [ServiceNext]_serviceVars
      /\ WorkerTypeOK /\ ServiceTypeOK /\ Fencing /\ Backed /\ TypeOK
    BY StoreStep, ServiceStep DEF Linked, SystemTypeOK, Fencing
<1>1. /\ \A o \in Op : 1..effects[o] \subseteq 1..effects'[o]
      /\ \A o \in Op : effects[o] \in Nat /\ effects'[o] \in Nat /\ effects[o] <= effects'[o]
    BY <1>0, EffectsGrow
<1>2. \A o \in Op : receipt[o] # NoReceipt => receipt'[o] # NoReceipt
    BY <1>0, ReceiptKept
<1>3. \A u \in Worker :
         /\ at'[u] \in Persisting => got'[u] \in 1..effects'[JobOf[u]]
         /\ at'[u] = "compare" => receipt'[JobOf[u]] # NoReceipt
  <2>1. CASE UNCHANGED <<at, got>>
    BY <1>0, <1>1, <1>2, <2>1, WorkerAssumption DEF Backed
  <2>2. CASE Workers
    BY <1>0, <2>2, BackedWorkers DEF Workers
  <2> QED BY <2>1, <2>2
          DEF SystemNext, systemVars, workerVars, LateRequests, DeliverLate, Coordinators,
              Service, Administrator, Clock
<1>4. \A r \in late' : r.call = "persist" => r.receipt \in 1..effects'[r.op]
  <2>1. \A r \in late : r.op \in Op
    BY <1>0 DEF WorkerTypeOK, Request
  <2>2. CASE late' \subseteq late
    BY <1>0, <1>1, <2>1, <2>2 DEF Backed
  <2>3. ASSUME NEW w \in Worker, LoseReply(w)
        PROVE  \A r \in late' : r.call = "persist" => r.receipt \in 1..effects'[r.op]
    BY <1>0, <1>1, <2>1, <2>3, WorkerAssumption DEF LoseReply, Backed, Persisting
  <2>4. CASE Workers
    BY <2>2, <2>3, <2>4
       DEF Workers, WorkerStep, WorkerFault, Start, StartAttempt, AskToDispatch, Poll, Send,
           TakeAnswer, Persist, Reread, Compare, GiveUpWaiting, ReadFails, Crash, Rerun
  <2> QED BY <2>2, <2>4
          DEF SystemNext, systemVars, workerVars, LateRequests, DeliverLate, Coordinators,
              Service, Administrator, Clock
<1>5. \A o \in Op : receipt'[o] <= effects'[o]
  <2>1. CASE receipt' = receipt
    <3>1. \A o \in Op : receipt[o] \in Nat /\ receipt[o] <= effects[o]
        BY <1>0, WorkerAssumption, ServiceAssumption DEF Backed, TypeOK
    <3> QED BY <1>1, <2>1, <3>1
  <2>2. ASSUME NEW o \in Op, NEW v, NEW r, Confirm(o, v, r), r \in 1..effects[o]
        PROVE  \A p \in Op : receipt'[p] <= effects'[p]
    <3>1. receipt' = [receipt EXCEPT ![o] = r]
        BY <2>2 DEF Confirm
    <3>2. \A p \in Op : receipt[p] \in Nat
        BY <1>0, WorkerAssumption, ServiceAssumption DEF TypeOK
    <3> QED BY <1>0, <1>1, <2>2, <3>1, <3>2 DEF Backed, TypeOK
  <2>3. ASSUME NEW w \in Worker, Persist(w) PROVE \A p \in Op : receipt'[p] <= effects'[p]
    <3>1. JobOf[w] \in Op /\ got[w] \in 1..effects[JobOf[w]]
        BY <1>0, <2>3, WorkerAssumption DEF Persist, Backed, Persisting
    <3> QED BY <2>1, <2>2, <2>3, <3>1 DEF Persist, storeVars
  <2>4. CASE Workers
    BY <2>1, <2>3, <2>4
       DEF Workers, WorkerStep, WorkerFault, Start, StartAttempt, AskToDispatch, Poll, Send,
           TakeAnswer, Reread, Compare, GiveUpWaiting, LoseReply, ReadFails, Crash, Rerun,
           storeVars, Prepare, BeginRetry, AuthorizeDispatch
  <2>5. CASE LateRequests
    <3>1. ASSUME NEW r \in late, DeliverLate(r) PROVE \A p \in Op : receipt'[p] <= effects'[p]
      <4>1. r.op \in Op /\ (r.call = "persist" => r.receipt \in 1..effects[r.op])
        BY <1>0 DEF Backed, WorkerTypeOK, Request
      <4> QED BY <2>1, <2>2, <3>1, <4>1
              DEF DeliverLate, Prepare, BeginRetry, AuthorizeDispatch
    <3>2. ASSUME NEW v \in overdue, DeliverOverdue(v) PROVE receipt' = receipt
        BY <3>2 DEF DeliverOverdue, SubmitRecoveryResult
    <3> QED BY <2>1, <2>5, <3>1, <3>2 DEF LateRequests
  <2>6. CASE \/ UNCHANGED systemVars \/ Coordinators \/ Service \/ Administrator \/ Clock
    BY <2>1, <2>6
       DEF systemVars, storeVars, Coordinators, CoordinatorStep, CoordinatorFault, Claims,
           ClaimsInVain, ClaimRecovery, Verifies, VerifiesInVain, Concludes, Submits,
           SubmitRecoveryResult, SubmitsInVain, Abandons, Service, Administrator,
           RequestReconciliation, ManualResolve, Clock, GraceElapses, LeaseAges, ScheduleDue
  <2> QED BY <2>4, <2>5, <2>6 DEF SystemNext
<1> QED BY <1>3, <1>4, <1>5 DEF Backed

-----------------------------------------------------------------------------
(* The link holds in every behaviour                                        *)

LEMMA LinkedStep == Linked /\ [SystemNext]_systemVars => Linked'
<1> SUFFICES ASSUME Linked, [SystemNext]_systemVars PROVE Linked'
    OBVIOUS
<1>1. /\ [Next]_storeVars
      /\ [ServiceNext]_serviceVars
      /\ Fencing /\ TypeOK /\ ServiceTypeOK
    BY StoreStep, ServiceStep DEF Linked, SystemTypeOK, Fencing
<1>2. Fencing'
    BY <1>1, FencingStep
<1>3. ReceiptIffConfirmed'
  <2>1. CASE UNCHANGED storeVars
    BY <2>1 DEF Linked, storeVars, ReceiptIffConfirmed
  <2>2. CASE Next
    BY <1>1, <2>2, ReceiptStep DEF Linked, ReceiptIffConfirmed, Receipted
  <2> QED BY <1>1, <2>1, <2>2
<1>4. KeyIsBound' /\ ReceiptsAreDistinct'
    BY <1>1, KeyStep, DistinctStep DEF Linked
<1>5. SystemTypeOK' /\ Issued' /\ Backed' /\ TryLeft'
    BY SystemTypeStep, SystemIssuedStep, BackedStep, TryLeftStep
<1>6. Numbered'
    BY <1>1, NumberedStep DEF Linked
<1> QED BY <1>2, <1>3, <1>4, <1>5, <1>6 DEF Linked

LEMMA LinkedInit == SystemInit => Linked
<1> SUFFICES ASSUME SystemInit PROVE Linked
    OBVIOUS
<1>1. Coordinating /\ Fencing /\ CoordinatorTypeOK /\ Numbered /\ Issued
    BY CoordinatingInit DEF SystemInit, Coordinating
<1>2. ReceiptIffConfirmed
    BY DEF SystemInit, Init, ReceiptIffConfirmed
<1>3. WorkerTypeOK
    BY ServiceAssumption, WorkerAssumption DEF SystemInit, WorkerInit, WorkerTypeOK, Place, Blank, Snapshot
<1>4. ServiceTypeOK /\ KeyIsBound /\ ReceiptsAreDistinct
    BY ServiceTypeInit DEF SystemInit, ServiceInit, KeyIsBound, ReceiptsAreDistinct
<1>5. Backed
  <2>1. \A w \in Worker : at[w] = "start"
    BY DEF SystemInit, WorkerInit
  <2>2. late = {} /\ \A o \in Op : receipt[o] = 0 /\ effects[o] = 0
    BY WorkerAssumption DEF SystemInit, WorkerInit, Init, ServiceInit
  <2> QED BY <2>1, <2>2 DEF Backed, Persisting
<1>6. TryLeft
    BY DEF SystemInit, WorkerInit, TryLeft
<1>7. faults \in 0..MaxFaults /\ interventions \in 0..MaxInterventions
    BY BudgetAssumption DEF SystemInit
<1> QED BY <1>1, <1>2, <1>3, <1>4, <1>5, <1>6, <1>7 DEF Linked, SystemTypeOK

LEMMA LinkedInvariant == SystemSpec => []Linked
BY LinkedInit, LinkedStep, PTL DEF SystemSpec

\* Variables of workers, coordinators, requests and budgets keep their types.
THEOREM SystemTypesHold == SystemSpec => []SystemTypeOK
<1>1. Linked => SystemTypeOK
    BY DEF Linked
<1> QED BY <1>1, LinkedInvariant, PTL

\* Workers, coordinators, administrator and late requests drive the store only as
\* its specification with open callers provides for.
THEOREM SystemRefinesStore == SystemSpec => RefinesStore
<1>1. SystemInit => Init
    BY DEF SystemInit
<1> QED BY <1>1, LinkedInvariant, StoreStep, PTL DEF SystemSpec, Spec, RefinesStore

\* And they use the service as its specification with open callers provides for.
THEOREM SystemRefinesService == SystemSpec => ServiceSpec
<1>1. SystemInit => ServiceInit
    BY DEF SystemInit
<1>2. Linked => SystemTypeOK
    BY DEF Linked
<1> QED BY <1>1, <1>2, LinkedInvariant, ServiceStep, PTL DEF SystemSpec, ServiceSpec

\* What the store promises of its rows and leases to open callers, the composed
\* system keeps, and with it the abstract life cycle of every operation.
THEOREM SystemKeepsStorePromises ==
    SystemSpec => /\ []ClaimsAreSnapshots
                  /\ []OnlyNewestClaimHolds
                  /\ []ReceiptIffConfirmed
                  /\ TerminalIsFinal
                  /\ LifecycleSpec
BY SystemRefinesStore, ClaimsStaySnapshots, NewestClaimHolds, ReceiptsMatchStates,
   FinalStatesAreFinal, ImplementsLifecycle, PTL DEF RefinesStore

\* With idempotency keys no interleaving of workers, crashes, retries and late
\* requests makes the service send one message twice.
THEOREM SystemKeysAreIdempotent == SystemSpec => []OneEffectPerKey
BY SystemRefinesService, KeysAreIdempotent, PTL

-----------------------------------------------------------------------------
(* Effects: at most one, at most one sender, no new attempt while something *)
(* may be on its way, and no completion without an effect.                  *)

\* Open to a new grant, now or after BeginRetry.
Fresh(o) == ~authorized[o] \/ state[o] = "retryable"

\* Where a grant is the only protection against a second effect, it is a token:
\* it is with nobody, with one worker about to send, or spent on one request,
\* and the effect of that request is the only one.
OneAttempt(o) ==
    /\ Fresh(o) => Unsent(o)
    /\ \A c, d \in calls : c.op = o /\ d.op = o => c = d
    /\ \A c \in calls : c.op = o /\ c.working => effects[o] = 0
    /\ effects[o] <= 1
    /\ \A w \in Worker : JobOf[w] = o /\ at[w] = "send" =>
            effects[o] = 0 /\ \A c \in calls : c.op # o
    /\ \A w \in Worker : JobOf[w] = o /\ at[w] = "await" => \E c \in calls : IsCallOf(w, c)
    /\ \A w, u \in Worker : JobOf[w] = o /\ JobOf[u] = o /\ Sending(w) /\ Sending(u) => w = u

Ledger == Linked /\ \A o \in Op \ Replayable : OneAttempt(o)

-----------------------------------------------------------------------------
(* What makes an operation fresh *)

\* Without replay protection a verdict makes no operation fresh that was not.
LEMMA RetryIsFresh ==
    ASSUME TypeOK, NEW o \in Op, o \notin Replayable, NEW n, NEW v, NEW ob,
           SubmitRecoveryResult(o, n, n, v, ob), Fresh(o)'
    PROVE  Fresh(o)
<1> DEFINE d == Decision(o, n, ob)
<1>1. /\ state' = [state EXCEPT ![o] = DecidedState(o, d)]
      /\ UNCHANGED authorized
    BY DEF SubmitRecoveryResult
<1>2. state'[o] = DecidedState(o, d)
    BY <1>1 DEF TypeOK
<1>3. CASE d = "retry"
    BY <1>3 DEF Decision, NeverDispatched, ReplayGuaranteed, Fresh
<1>4. CASE d # "retry"
  <2>1. /\ d \in {"reconcile", "retry", "mark_uncertain", "none"}
        /\ d = "none" => DecidedState(o, d) = state[o]
        /\ d = "reconcile" => DecidedState(o, d) = "reconciled"
        /\ d = "mark_uncertain" => DecidedState(o, d) = "uncertain"
    BY DecisionType
  <2> HIDE DEF d
  <2>2. state'[o] \in {state[o], "reconciled", "uncertain"}
    BY <1>2, <1>4, <2>1
  <2> QED BY <1>1, <2>2 DEF Fresh
<1> QED BY <1>3, <1>4

\* Of the calls only an operator's finding of absence makes an operation fresh.
LEMMA FreshKept ==
    ASSUME TypeOK, NEW p \in Op, p \notin Replayable, Fresh(p)', NEW o \in Op, NEW v, NEW r,
           NEW n, NEW ob, NEW batch, NEW t,
           \/ UNCHANGED storeVars
           \/ Prepare(o)
           \/ AuthorizeDispatch(o, v)
           \/ Confirm(o, v, r)
           \/ BeginRetry(o, v)
           \/ RequestReconciliation(o, v)
           \/ ClaimRecovery(batch, t)
           \/ SubmitRecoveryResult(o, n, n, v, ob)
           \/ ClockTick(o)
    PROVE  Fresh(p)
<1> USE DEF TypeOK, Fresh, scheduleCols, leaseCols, claimTables
<1>1. CASE UNCHANGED storeVars
    BY <1>1 DEF storeVars
<1>2. CASE Prepare(o)
    BY <1>2 DEF Prepare
<1>3. CASE AuthorizeDispatch(o, v)
    BY <1>3 DEF AuthorizeDispatch
<1>4. CASE Confirm(o, v, r)
    BY <1>4 DEF Confirm
<1>5. CASE BeginRetry(o, v)
    BY <1>5 DEF BeginRetry, MayBeginRetry
<1>6. CASE RequestReconciliation(o, v)
    BY <1>6 DEF RequestReconciliation
<1>7. CASE ClaimRecovery(batch, t)
    BY <1>7 DEF ClaimRecovery
<1>8. CASE SubmitRecoveryResult(o, n, n, v, ob)
  <2>1. CASE p # o
    BY <1>8, <2>1 DEF SubmitRecoveryResult
  <2>2. CASE p = o
    BY <1>8, <2>2, RetryIsFresh
  <2> QED BY <2>1, <2>2
<1>9. CASE ClockTick(o)
    BY <1>9 DEF ClockTick, GraceElapses, ScheduleDue, LeaseAges
<1> QED BY <1>1, <1>2, <1>3, <1>4, <1>5, <1>6, <1>7, <1>8, <1>9

\* And the operator finds that only where nothing was sent.
LEMMA FreshIsUnsent ==
    ASSUME Ledger, [SystemNext]_systemVars, NEW p \in Op, p \notin Replayable, Fresh(p)'
    PROVE  Unsent(p)
<1>0. /\ TypeOK
      /\ Fresh(p) => Unsent(p)
      /\ WorkerTypeOK /\ CoordinatorTypeOK
    BY DEF Ledger, OneAttempt, Linked, Fencing, SystemTypeOK
<1>1. CASE UNCHANGED systemVars
    BY <1>0, <1>1, FreshKept DEF systemVars
<1>2. CASE Workers
  <2>1. PICK w \in Worker : WorkerStep(w) \/ Rerun(w) \/ WorkerFault(w)
    BY <1>2 DEF Workers
  <2>2. JobOf[w] \in Op
    BY WorkerAssumption
  <2>3. \/ UNCHANGED storeVars
        \/ Prepare(JobOf[w])
        \/ \E v : AuthorizeDispatch(JobOf[w], v)
        \/ \E v, r : Confirm(JobOf[w], v, r)
        \/ \E v : BeginRetry(JobOf[w], v)
    BY <2>1 DEF WorkerStep, Start, StartAttempt, AskToDispatch, Poll, Send, TakeAnswer, Persist,
                Reread, Compare, WorkerFault, GiveUpWaiting, LoseReply, ReadFails, Crash, Rerun
  <2> QED BY <1>0, <2>2, <2>3, FreshKept
<1>3. CASE LateRequests
  <2>1. ASSUME NEW r \in late, DeliverLate(r) PROVE Unsent(p)
    <3>1. r.op \in Op
        BY <1>0 DEF WorkerTypeOK, Request
    <3> QED BY <1>0, <2>1, <3>1, FreshKept DEF DeliverLate
  <2>2. ASSUME NEW v \in overdue, DeliverOverdue(v) PROVE Unsent(p)
    <3>1. v.op \in Op
        BY <1>0 DEF CoordinatorTypeOK, Verdict
    <3> QED BY <1>0, <2>2, <3>1, FreshKept DEF DeliverOverdue
  <2> QED BY <1>3, <2>1, <2>2 DEF LateRequests
<1>4. CASE Coordinators
  <2>1. PICK c \in Coordinator : CoordinatorStep(c) \/ CoordinatorFault(c)
    BY <1>4 DEF Coordinators
  <2>2. CASE \E v \in verdict[c] : SubmitRecoveryResult(v.op, v.attempt, v.attempt, Expected(v), v.ob)
    <3>1. \A v \in verdict[c] : v.op \in Op
        BY <1>0 DEF CoordinatorTypeOK, Verdict
    <3> QED BY <1>0, <2>2, <3>1, FreshKept
  <2>3. CASE UNCHANGED storeVars \/ \E batch : ClaimRecovery(batch, MaxTtl)
    BY <1>0, <2>3, FreshKept
  <2> QED BY <2>1, <2>2, <2>3
          DEF CoordinatorStep, CoordinatorFault, Claims, ClaimsInVain, Verifies, VerifiesInVain,
              Concludes, Submits, SubmitsInVain, Abandons
<1>5. CASE Service
    BY <1>0, <1>5, FreshKept DEF Service
<1>6. CASE Administrator
  <2>1. PICK o \in Op : \/ RequestReconciliation(o, version[o])
                        \/ \E m \in ManualOutcome :
                             Substantiated(o, m) /\ ManualResolve(o, version[o], m)
    BY <1>6 DEF Administrator
  <2>2. CASE RequestReconciliation(o, version[o])
    BY <1>0, <2>2, FreshKept
  <2>3. ASSUME NEW m \in ManualOutcome, Substantiated(o, m), ManualResolve(o, version[o], m)
        PROVE  Unsent(p)
    <3>1. CASE o # p \/ m # "absent"
        BY <1>0, <2>3, <3>1 DEF ManualResolve, ManualTarget, ManualOutcome, Fresh, TypeOK
    <3>2. CASE o = p /\ m = "absent"
        BY <2>3, <3>2 DEF Substantiated
    <3> QED BY <3>1, <3>2
  <2> QED BY <2>1, <2>2, <2>3
<1>7. CASE Clock
    BY <1>0, <1>7, FreshKept DEF Clock, ClockTick
<1> QED BY <1>1, <1>2, <1>3, <1>4, <1>5, <1>6, <1>7 DEF SystemNext

-----------------------------------------------------------------------------
(* A step preserves OneAttempt                                              *)

\* Nothing of the service's that concerns the operation moves.
Untouched(o) ==
    /\ effects'[o] = effects[o]
    /\ \A c : c.op = o => (c \in calls <=> c \in calls')

\* Nobody comes any closer to an effect.
NoneAdvances(o) ==
    \A w \in Worker : JobOf[w] = o =>
        \/ ~Sending(w)'
        \/ at'[w] = at[w] /\ view'[w] = view[w]
        \/ at[w] \in Persisting /\ at'[w] \in Persisting

LEMMA CalmStep ==
    ASSUME Ledger, [SystemNext]_systemVars, NEW o \in Op, o \notin Replayable,
           Untouched(o), NoneAdvances(o)
    PROVE  OneAttempt(o)'
<1>0. OneAttempt(o)
    BY DEF Ledger
<1>1. \A w \in Worker : JobOf[w] = o /\ Sending(w)' => Sending(w)
    BY DEF NoneAdvances, Sending, Persisting
<1>2. \A w \in Worker : JobOf[w] = o /\ at'[w] \in {"send", "await"} =>
            at'[w] = at[w] /\ view'[w] = view[w]
    BY DEF NoneAdvances, Sending, Persisting
<1>3. Fresh(o)' => Unsent(o)'
  <2>1. Fresh(o)' => Unsent(o)
    BY FreshIsUnsent
  <2>2. Unsent(o) => Unsent(o)'
    BY <1>2 DEF Unsent, Untouched
  <2> QED BY <2>1, <2>2
<1>4. /\ \A c, d \in calls' : c.op = o /\ d.op = o => c = d
      /\ \A c \in calls' : c.op = o /\ c.working => effects'[o] = 0
      /\ effects'[o] <= 1
    BY <1>0 DEF OneAttempt, Untouched
<1>5. \A w \in Worker : JobOf[w] = o /\ at'[w] = "send" =>
            effects'[o] = 0 /\ \A c \in calls' : c.op # o
    BY <1>0, <1>2 DEF OneAttempt, Untouched
<1>6. \A w \in Worker : JobOf[w] = o /\ at'[w] = "await" => \E c \in calls' : IsCallOf(w, c)'
    BY <1>0, <1>2 DEF OneAttempt, Untouched, IsCallOf
<1>7. \A w, u \in Worker : JobOf[w] = o /\ JobOf[u] = o /\ Sending(w)' /\ Sending(u)' => w = u
    BY <1>0, <1>1 DEF OneAttempt
<1> QED BY <1>3, <1>4, <1>5, <1>6, <1>7 DEF OneAttempt

\* A worker that gets no further, or only to its confirmation, disturbs nobody.
LEMMA ProceedCalm ==
    ASSUME WorkerTypeOK, NEW w \in Worker, NEW place, NEW op, NEW g, NEW n,
           Proceed(w, place, op, g, n), NEW o \in Op,
           \/ JobOf[w] # o
           \/ place \notin {"send", "await"} \union Persisting
           \/ at[w] \in Persisting /\ place \in Persisting
    PROVE  NoneAdvances(o)
<1> SUFFICES ASSUME NEW u \in Worker, JobOf[u] = o
             PROVE  \/ ~Sending(u)'
                    \/ at'[u] = at[u] /\ view'[u] = view[u]
                    \/ at[u] \in Persisting /\ at'[u] \in Persisting
    BY DEF NoneAdvances
<1>1. CASE u # w
    BY <1>1 DEF Proceed, WorkerTypeOK
<1>2. CASE u = w
    BY <1>2 DEF Proceed, WorkerTypeOK, Sending, Persisting
<1> QED BY <1>1, <1>2

LEMMA FollowCalm ==
    ASSUME WorkerTypeOK, NEW w \in Worker, NEW op, Follow(w, op), NEW o \in Op
    PROVE  NoneAdvances(o)
BY ProceedCalm DEF Follow, GoTo, Persisting

LEMMA WorkerCalm ==
    ASSUME WorkerTypeOK, NEW w \in Worker, NEW o \in Op,
           WorkerStep(w) \/ Rerun(w) \/ WorkerFault(w),
           \/ JobOf[w] # o
           \/ at[w] \notin {"grant", "send", "await"}
           \/ GiveUpWaiting(w) \/ LoseReply(w) \/ Crash(w)
    PROVE  NoneAdvances(o)
<1>1. CASE Start(w) \/ Poll(w) \/ ReadFails(w)
    BY <1>1, FollowCalm, ProceedCalm DEF Start, Poll, ReadFails, GoTo, Persisting
<1>2. CASE StartAttempt(w) \/ Compare(w) \/ GiveUpWaiting(w) \/ Crash(w) \/ Rerun(w)
    BY <1>2, ProceedCalm
       DEF StartAttempt, Compare, GiveUpWaiting, Crash, Rerun, GoTo, Persisting
<1>3. CASE AskToDispatch(w) \/ Send(w) \/ TakeAnswer(w)
  <2>1. JobOf[w] # o \/ GiveUpWaiting(w) \/ LoseReply(w) \/ Crash(w)
    BY <1>3 DEF AskToDispatch, Send, TakeAnswer
  <2> QED BY <1>2, <1>3, <2>1, ProceedCalm
          DEF AskToDispatch, Send, TakeAnswer, GoTo, LoseReply, Persisting
<1>4. CASE Persist(w) \/ Reread(w) \/ LoseReply(w)
    BY <1>4, ProceedCalm DEF Persist, Reread, LoseReply, GoTo, Persisting
<1> QED BY <1>1, <1>2, <1>3, <1>4 DEF WorkerStep, WorkerFault

\* The grant is given where nobody is sending.
LEMMA GrantStep ==
    ASSUME Ledger, [SystemNext]_systemVars, NEW w \in Worker, AskToDispatch(w),
           JobOf[w] \notin Replayable, UNCHANGED serviceVars
    PROVE  OneAttempt(JobOf[w])'
<1> DEFINE o == JobOf[w]
<1>0. /\ o \in Op /\ WorkerTypeOK /\ TypeOK /\ OneAttempt(o) /\ Backed
    BY WorkerAssumption DEF Ledger, Linked, SystemTypeOK, Fencing
<1>1. Untouched(o)
    BY DEF Untouched, serviceVars
<1>2. CASE ~AuthorizeDispatch(o, view[w].version)
    BY <1>0, <1>1, <1>2, CalmStep, ProceedCalm DEF AskToDispatch, Persisting
<1>3. CASE AuthorizeDispatch(o, view[w].version)
  <2>1. Unsent(o)
    BY <1>0, <1>3 DEF AuthorizeDispatch, MayAuthorize, OneAttempt, Fresh
  <2>2. ~Fresh(o)'
    BY <1>0, <1>3 DEF AuthorizeDispatch, MayAuthorize, Fresh, TypeOK
  <2>3. \A u \in Worker : JobOf[u] = o => ~Sending(u)
    BY <1>0, <2>1 DEF Sending, Unsent, OneAttempt, IsCallOf, Backed, Persisting
  <2>4. Proceed(w, "send", Row(JobOf[w])', 0, 0)
    BY <1>3 DEF AskToDispatch, AuthorizeDispatch
  <2>5. \A u \in Worker : u # w => at'[u] = at[u]
    BY <1>0, <2>4 DEF Proceed, WorkerTypeOK
  <2>6. at'[w] = "send"
    BY <1>0, <2>4 DEF Proceed, WorkerTypeOK
  <2>7. \A u \in Worker : JobOf[u] = o /\ Sending(u)' => u = w
    BY <2>3, <2>5 DEF Sending
  <2>8. effects'[o] = 0 /\ \A c \in calls' : c.op # o
    BY <2>1 DEF Unsent, serviceVars
  <2>9. \A u \in Worker : JobOf[u] = o => at'[u] # "await"
    BY <2>6, <2>7 DEF Sending
  <2> QED BY <2>2, <2>7, <2>8, <2>9 DEF OneAttempt
<1> QED BY <1>2, <1>3

\* The one grant is spent on one request.
LEMMA SendStep ==
    ASSUME Ledger, [SystemNext]_systemVars, NEW w \in Worker, Send(w),
           JobOf[w] \notin Replayable
    PROVE  OneAttempt(JobOf[w])'
<1> DEFINE o == JobOf[w]
           new == [op |-> o, grant |-> view[w].version, working |-> TRUE, receipt |-> 0]
<1>0. /\ o \in Op /\ WorkerTypeOK /\ OneAttempt(o)
      /\ at[w] = "send"
      /\ Proceed(w, "await", view[w], 0, 0)
      /\ calls' = calls \union {new}
      /\ effects' = effects
    BY WorkerAssumption DEF Ledger, Linked, SystemTypeOK, Send, Accept
<1>1. effects[o] = 0 /\ \A c \in calls : c.op # o
    BY <1>0 DEF OneAttempt
<1>2. at'[w] = "await" /\ view'[w] = view[w]
    BY <1>0 DEF Proceed, WorkerTypeOK
<1>3. \A u \in Worker : u # w => at'[u] = at[u] /\ view'[u] = view[u]
    BY <1>0 DEF Proceed, WorkerTypeOK
<1>4. \A u \in Worker : JobOf[u] = o /\ Sending(u)' => u = w
    BY <1>0, <1>3 DEF OneAttempt, Sending
<1>5. ~Fresh(o)'
  <2>1. ~Unsent(o)
    BY <1>0 DEF Unsent
  <2> QED BY <1>0, <2>1, FreshIsUnsent
<1>6. \A c \in calls' : c.op = o => c = new
    BY <1>0, <1>1
<1>7. new \in calls' /\ new.op = o /\ new.grant = view[w].version
    BY <1>0
<1>8. \E c \in calls' : IsCallOf(w, c)'
    BY <1>2, <1>7 DEF IsCallOf
<1> HIDE DEF new
<1>9. \A u \in Worker : JobOf[u] = o /\ at'[u] = "await" => \E c \in calls' : IsCallOf(u, c)'
    BY <1>4, <1>8 DEF Sending
<1>10. \A u \in Worker : JobOf[u] = o => at'[u] # "send"
    BY <1>2, <1>4 DEF Sending
<1> QED BY <1>0, <1>1, <1>4, <1>5, <1>6, <1>9, <1>10 DEF OneAttempt

\* The answer to a request ends it.
LEMMA AnswerStep ==
    ASSUME Ledger, [SystemNext]_systemVars, NEW w \in Worker, TakeAnswer(w),
           JobOf[w] \notin Replayable
    PROVE  OneAttempt(JobOf[w])'
<1> DEFINE o == JobOf[w]
<1>0. o \in Op /\ WorkerTypeOK /\ OneAttempt(o) /\ at[w] = "await"
    BY WorkerAssumption DEF Ledger, Linked, SystemTypeOK, TakeAnswer
<1>1. PICK c \in calls :
        /\ IsCallOf(w, c)
        /\ Finish(c)
        /\ \/ c.receipt # 0 /\ Proceed(w, "persist", view[w], c.receipt, 0)
           \/ c.receipt = 0 /\ GoTo(w, "poll")
    BY DEF TakeAnswer
<1>2. calls' = calls \ {c} /\ effects' = effects /\ c.op = o
    BY <1>1 DEF Finish, IsCallOf
<1>3. \E place \in {"persist", "poll"} : at' = [at EXCEPT ![w] = place]
    BY <1>1 DEF GoTo, Proceed
<1>4. /\ at'[w] \in {"persist", "poll"}
      /\ \A u \in Worker : u # w => at'[u] = at[u]
    BY <1>0, <1>3 DEF WorkerTypeOK
<1>5. \A u \in Worker : JobOf[u] = o /\ Sending(u)' => u = w
    BY <1>0, <1>4 DEF OneAttempt, Sending
<1>6. \A u \in Worker : JobOf[u] = o => at'[u] \notin {"send", "await"}
    BY <1>4, <1>5 DEF Sending
<1>7. ~Fresh(o)'
  <2>1. ~Unsent(o)
    BY <1>2 DEF Unsent
  <2> QED BY <1>0, <2>1, FreshIsUnsent
<1> QED BY <1>0, <1>2, <1>5, <1>6, <1>7 DEF OneAttempt

\* The one request is processed once.
LEMMA RequestStep ==
    ASSUME Ledger, [SystemNext]_systemVars, Service, NEW o \in Op, o \notin Replayable
    PROVE  OneAttempt(o)'
<1>0. /\ OneAttempt(o)
      /\ ServiceTypeOK
      /\ UNCHANGED <<at, view, got, tries, late>>
      /\ UNCHANGED storeVars
    BY DEF Ledger, Linked, SystemTypeOK, Service, workerVars
<1>1. PICK c \in calls : \/ Commit(c) \/ CommitUnanswered(c) \/ Refuse(c)
                         \/ ~Awaited(c) /\ Finish(c)
                         \/ Repeat(c)
    BY DEF Service
<1>2. ~AlreadyBound(o)
    BY DEF AlreadyBound, Keyed
<1>3. CASE c.op # o
  <2>1. NoneAdvances(o)
    BY <1>0 DEF NoneAdvances
  <2>2. effects'[o] = effects[o]
    BY <1>0, <1>1, <1>3
       DEF Commit, CommitUnanswered, Refuse, Finish, Repeat, RecordEffect, ServiceTypeOK
  <2>3. \A d : d.op = o => (d \in calls <=> d \in calls')
    <3>1. ASSUME NEW r, Answered(c, r) PROVE \A d : d.op = o => (d \in calls <=> d \in calls')
      <4>1. [c EXCEPT !.working = FALSE, !.receipt = r].op = c.op
        BY <1>0 DEF ServiceTypeOK, Call
      <4> QED BY <1>3, <3>1, <4>1 DEF Answered
    <3> QED BY <1>1, <1>3, <3>1 DEF Commit, CommitUnanswered, Refuse, Finish, Repeat
  <2> QED BY <2>1, <2>2, <2>3, CalmStep DEF Untouched
<1>4. CASE c.op = o
  <2>0. c \in Call /\ effects \in [Op -> 0..MaxEffects] /\ effects[o] \in Nat
    BY <1>0, ServiceAssumption DEF ServiceTypeOK
  <2>1. \A d \in calls : d.op = o => d = c
    BY <1>0, <1>4 DEF OneAttempt
  <2>2. ~Fresh(o)'
    <3>1. ~Unsent(o)
        BY <1>4 DEF Unsent
    <3> QED BY <3>1, FreshIsUnsent
  <2>3. \A w \in Worker : JobOf[w] = o => at'[w] # "send"
    BY <1>0, <1>4 DEF OneAttempt
  <2>4. \A w, u \in Worker : JobOf[w] = o /\ JobOf[u] = o /\ Sending(w)' /\ Sending(u)' => w = u
    BY <1>0 DEF OneAttempt, Sending
  <2>5. ASSUME NEW r, Answered(c, r), effects'[o] <= 1 PROVE OneAttempt(o)'
    <3> DEFINE new == [c EXCEPT !.working = FALSE, !.receipt = r]
    <3>1. new.op = o /\ new.grant = c.grant /\ new.working = FALSE
        BY <1>4, <2>0 DEF Call
    <3>2. calls' = (calls \ {c}) \union {new}
        BY <2>5 DEF Answered
    <3> HIDE DEF new
    <3>3. \A d \in calls' : d.op = o => d = new
        BY <2>1, <3>2
    <3>4. \A w \in Worker : JobOf[w] = o /\ at'[w] = "await" => IsCallOf(w, new)'
        BY <1>0, <2>1, <3>1 DEF OneAttempt, IsCallOf
    <3> QED BY <2>2, <2>3, <2>4, <2>5, <3>1, <3>2, <3>3, <3>4 DEF OneAttempt
  <2>6. CASE Commit(c) \/ CommitUnanswered(c)
    <3>1. effects'[o] <= 1
      <4>1. effects[o] = 0
        BY <1>0, <1>4, <2>6 DEF OneAttempt, Commit, CommitUnanswered
      <4>2. effects' = [effects EXCEPT ![o] = @ + 1]
        BY <1>2, <1>4, <2>6 DEF Commit, CommitUnanswered, RecordEffect
      <4> QED BY <2>0, <4>1, <4>2
    <3> QED BY <2>5, <2>6, <3>1 DEF Commit, CommitUnanswered
  <2>7. CASE Refuse(c)
    BY <1>0, <2>5, <2>7 DEF Refuse, OneAttempt
  <2>8. CASE ~Awaited(c) /\ Finish(c)
    <3>1. \A w \in Worker : JobOf[w] = o => at[w] # "await"
        BY <1>0, <2>1, <2>8 DEF OneAttempt, IsCallOf, Awaited
    <3>2. calls' = calls \ {c} /\ effects' = effects
        BY <2>8 DEF Finish
    <3> QED BY <1>0, <2>2, <2>3, <2>4, <3>1, <3>2 DEF OneAttempt
  <2>9. CASE Repeat(c)
    BY <1>4, <2>9 DEF Repeat
  <2> QED BY <1>1, <2>6, <2>7, <2>8, <2>9
<1> QED BY <1>3, <1>4

LEMMA LedgerStep == Ledger /\ [SystemNext]_systemVars => Ledger'
<1> SUFFICES ASSUME Ledger, [SystemNext]_systemVars PROVE Ledger'
    OBVIOUS
<1>1. Linked' /\ WorkerTypeOK
    BY LinkedStep DEF Ledger, Linked, SystemTypeOK
<1>2. ASSUME NEW o \in Op \ Replayable PROVE OneAttempt(o)'
  <2>1. CASE UNCHANGED <<effects, calls, at, view>>
    <3>1. Untouched(o) /\ NoneAdvances(o)
        BY <2>1 DEF Untouched, NoneAdvances
    <3> QED BY <1>2, <3>1, CalmStep
  <2>2. CASE Workers
    <3>1. PICK w \in Worker : WorkerStep(w) \/ Rerun(w) \/ WorkerFault(w)
        BY <2>2 DEF Workers
    <3>2. CASE JobOf[w] = o /\ Send(w)
        BY <1>2, <3>2, SendStep
    <3>3. CASE JobOf[w] = o /\ TakeAnswer(w)
        BY <1>2, <3>3, AnswerStep
    <3>4. CASE JobOf[w] = o /\ AskToDispatch(w)
        BY <1>2, <3>4, GrantStep DEF AskToDispatch
    <3>5. CASE ~(JobOf[w] = o /\ (Send(w) \/ TakeAnswer(w) \/ AskToDispatch(w)))
      <4>1. NoneAdvances(o)
        BY <1>1, <1>2, <3>1, <3>5, WorkerCalm
           DEF WorkerStep, WorkerFault, Start, StartAttempt, Poll, Persist, Reread, Compare,
               ReadFails, Rerun
      <4>2. Untouched(o)
        <5>1. CASE Send(w)
            BY <3>5, <5>1 DEF Send, Accept, Untouched
        <5>2. CASE TakeAnswer(w)
            BY <3>5, <5>2 DEF TakeAnswer, Finish, IsCallOf, Untouched
        <5>3. CASE ~Send(w) /\ ~TakeAnswer(w)
          <6>1. UNCHANGED serviceVars
            BY <3>1, <5>3
               DEF WorkerStep, WorkerFault, Start, StartAttempt, AskToDispatch, Poll, Persist,
                   Reread, Compare, GiveUpWaiting, LoseReply, ReadFails, Crash, Rerun
          <6> QED BY <6>1 DEF serviceVars, Untouched
        <5> QED BY <5>1, <5>2, <5>3
      <4> QED BY <1>2, <4>1, <4>2, CalmStep
    <3> QED BY <3>2, <3>3, <3>4, <3>5
  <2>3. CASE Service
    BY <1>2, <2>3, RequestStep
  <2>4. CASE LateRequests \/ Administrator \/ Clock
    BY <2>1, <2>4
       DEF LateRequests, DeliverLate, DeliverOverdue, Administrator, Clock, workerVars, serviceVars
  <2>5. CASE Coordinators
    BY <2>1, <2>5
       DEF Coordinators, CoordinatorStep, CoordinatorFault, Claims, ClaimsInVain, Verifies,
           VerifiesInVain, Concludes, Submits, SubmitsInVain, Abandons, workerVars, serviceVars
  <2>6. CASE UNCHANGED systemVars
    BY <2>1, <2>6 DEF systemVars, workerVars, serviceVars
  <2> QED BY <2>2, <2>3, <2>4, <2>5, <2>6 DEF SystemNext
<1> QED BY <1>1, <1>2 DEF Ledger

LEMMA LedgerInvariant == SystemSpec => []Ledger
<1>1. SystemInit => Ledger
  <2> SUFFICES ASSUME SystemInit, NEW o \in Op PROVE OneAttempt(o)
    BY LinkedInit DEF Ledger
  <2>1. calls = {} /\ effects[o] = 0 /\ \A w \in Worker : at[w] = "start"
    BY DEF SystemInit, ServiceInit, WorkerInit
  <2> QED BY <2>1 DEF OneAttempt, Unsent, Sending
<1> QED BY <1>1, LedgerStep, PTL DEF SystemSpec

-----------------------------------------------------------------------------
(* What follows of effects                                                  *)

LEMMA OneEffect ==
    ASSUME Ledger, NEW o \in Op, o \in Replayable => Honest(o)
    PROVE  effects[o] <= 1
<1>1. CASE o \notin Replayable
    BY <1>1 DEF Ledger, OneAttempt
<1>2. CASE o \in Replayable
  <2>1. Keyed(o)
    BY <1>2 DEF Keyed, Honest, Replayable
  <2> QED BY <2>1 DEF Ledger, Linked, KeyIsBound
<1> QED BY <1>1, <1>2

\* An effect is caused at most once, whatever fails and whoever intervenes, in any
\* number: the grant is a token where nothing else protects, and the key where
\* one is declared that the service honours.
THEOREM EffectsAreSingle == SystemSpec => []AtMostOneEffect
<1>1. Ledger => AtMostOneEffect
    BY OneEffect DEF AtMostOneEffect
<1> QED BY <1>1, LedgerInvariant, PTL

\* A new attempt never starts behind a request that may still arrive.
THEOREM AttemptsStartUnsent == SystemSpec => []FreshAttemptIsUnsent
<1>1. Ledger => FreshAttemptIsUnsent
    BY DEF Ledger, OneAttempt, Fresh, FreshAttemptIsUnsent
<1> QED BY <1>1, LedgerInvariant, PTL

\* However many workers run an operation, one at most acts on a grant.
THEOREM SendersAreSingle == SystemSpec => []OneSender
<1>1. ASSUME Ledger, NEW o \in Op, o \notin Replayable
      PROVE  Cardinality({w \in Worker : JobOf[w] = o /\ Sending(w)}) <= 1
  <2> DEFINE S == {w \in Worker : JobOf[w] = o /\ Sending(w)}
  <2>1. \A w, u \in S : w = u
    BY <1>1 DEF Ledger, OneAttempt
  <2>2. S = {} \/ \E w : S = {w}
    BY <2>1
  <2> HIDE DEF S
  <2>3. Cardinality(S) \in {0, 1}
    BY <2>2, FS_EmptySet, FS_Singleton
  <2> QED BY <2>3 DEF S
<1>2. Ledger => OneSender
    BY <1>1 DEF OneSender
<1> QED BY <1>2, LedgerInvariant, PTL

\* The receipt a worker compares with its own is its own.
THEOREM ReceiptsAreOwn == SystemSpec => []ReceiptIsOwn
<1>1. ASSUME Ledger, NEW w \in Worker, at[w] = "compare",
             JobOf[w] \in Replayable => Honest(JobOf[w])
      PROVE  receipt[JobOf[w]] = got[w]
  <2> DEFINE o == JobOf[w]
  <2>1. o \in Op /\ TypeOK /\ ServiceTypeOK
    BY <1>1, WorkerAssumption DEF Ledger, Linked, Fencing, SystemTypeOK
  <2>2. /\ got[w] \in 1..effects[o]
        /\ receipt[o] # NoReceipt
        /\ receipt[o] <= effects[o]
    BY <1>1, <2>1 DEF Ledger, Linked, Backed, Persisting
  <2>3. receipt[o] \in Nat \ {0} /\ effects[o] \in Nat
    BY <2>1, <2>2, WorkerAssumption, ServiceAssumption DEF TypeOK, ServiceTypeOK
  <2>4. effects[o] <= 1
    BY <1>1, <2>1, OneEffect
  <2> QED BY <2>2, <2>3, <2>4
<1>2. Ledger => ReceiptIsOwn
    BY <1>1 DEF ReceiptIsOwn
<1> QED BY <1>2, LedgerInvariant, PTL

-----------------------------------------------------------------------------
(* Completion                                                               *)

\* Operations whose evidence is about their own effects.
Telling(o) == ProfileOf[o] # "indirect_unique" \/ UniqueContent(o)

\* What a coordinator is about to report as completed, and what was recorded as
\* reconciled, has happened.
Attested(o) ==
    /\ \A c \in Coordinator : \A v \in verdict[c] :
            v.op = o /\ Completes(v.ob) => effects[o] > 0
    /\ \A v \in overdue : v.op = o /\ Completes(v.ob) => effects[o] > 0
    /\ state[o] = "reconciled" => effects[o] > 0

Witnessed == Linked /\ \A o \in Op : Telling(o) => Attested(o)

\* Nothing is found of an operation that has no effect.
LEMMA NothingFound ==
    ASSUME NEW o \in Op, Telling(o), effects[o] = 0
    PROVE  ~Completes(Evidence(o)) /\ ~Completes(Unreachable(o))
<1>1. Matching(o) = {o}
    BY DEF Matching, Telling, UniqueContent
<1>2. UNION {{p} \X (1..effects[p]) : p \in Matching(o)} = {}
    BY <1>1
<1>3. Found(o) = 0
    BY <1>2, FS_EmptySet DEF Found
<1>4. \A m : ~Completes(Lookup(o, m))
    BY <1>3 DEF Lookup, Observed, Completes
<1>5. ~Completes(Unreachable(o))
    BY DEF Unreachable, Observed, Completes
<1> QED BY <1>4, <1>5 DEF Evidence, Observed, Completes

\* Only a result that shows completion and an operator who has seen it make an
\* operation reconciled.
LEMMA ReconciledByResult ==
    ASSUME TypeOK, NEW p \in Op, state'[p] = "reconciled", NEW o \in Op, NEW v, NEW n, NEW ob,
           SubmitRecoveryResult(o, n, n, v, ob)
    PROVE  state[p] = "reconciled" \/ (p = o /\ Completes(ob))
<1> USE DEF TypeOK
<1>1. CASE p # o
    BY <1>1 DEF SubmitRecoveryResult
<1>2. CASE p = o /\ ~Completes(ob)
  <2>1. state'[o] = DecidedState(o, Decision(o, n, ob))
    BY <1>2 DEF SubmitRecoveryResult
  <2>2. Decision(o, n, ob) \in {"retry", "mark_uncertain", "none"}
    BY <1>2 DEF Decision
  <2>3. state'[o] \in {"retryable", "uncertain", state[o]}
    BY <2>1, <2>2, DecisionType
  <2> QED BY <1>2, <2>3
<1> QED BY <1>1, <1>2

LEMMA ReconciledByHand ==
    ASSUME TypeOK, NEW p \in Op, state'[p] = "reconciled", NEW o \in Op, NEW v,
           NEW m \in ManualOutcome, ManualResolve(o, v, m)
    PROVE  state[p] = "reconciled" \/ (p = o /\ m = "completed")
BY DEF TypeOK, ManualResolve, ManualOutcome, ManualTarget

LEMMA ReconciledBefore ==
    ASSUME TypeOK, NEW p \in Op, state'[p] = "reconciled", NEW o \in Op, NEW v, NEW r,
           NEW batch, NEW t,
           \/ UNCHANGED storeVars
           \/ Prepare(o)
           \/ AuthorizeDispatch(o, v)
           \/ Confirm(o, v, r)
           \/ BeginRetry(o, v)
           \/ RequestReconciliation(o, v)
           \/ ClaimRecovery(batch, t)
           \/ ClockTick(o)
    PROVE  state[p] = "reconciled"
BY DEF TypeOK, storeVars, Prepare, AuthorizeDispatch, Confirm, BeginRetry,
       RequestReconciliation, ClaimRecovery, ClockTick, GraceElapses, ScheduleDue, LeaseAges

LEMMA AttestedByState ==
    ASSUME Witnessed, [SystemNext]_systemVars, NEW p \in Op, Telling(p),
           state'[p] = "reconciled"
    PROVE  effects[p] > 0
<1>0. /\ TypeOK /\ WorkerTypeOK /\ CoordinatorTypeOK
      /\ state[p] = "reconciled" => effects[p] > 0
    BY DEF Witnessed, Attested, Linked, Fencing, SystemTypeOK
<1>1. ASSUME NEW v, v.op \in Op, SubmitRecoveryResult(v.op, v.attempt, v.attempt, Expected(v), v.ob),
             v.op = p /\ Completes(v.ob) => effects[p] > 0
      PROVE  effects[p] > 0
    BY <1>0, <1>1, ReconciledByResult
<1>2. CASE Workers
  <2>1. PICK w \in Worker : WorkerStep(w) \/ Rerun(w) \/ WorkerFault(w)
    BY <1>2 DEF Workers
  <2>2. JobOf[w] \in Op
    BY WorkerAssumption
  <2>3. \/ UNCHANGED storeVars
        \/ Prepare(JobOf[w])
        \/ \E v : AuthorizeDispatch(JobOf[w], v)
        \/ \E v, r : Confirm(JobOf[w], v, r)
        \/ \E v : BeginRetry(JobOf[w], v)
    BY <2>1 DEF WorkerStep, Start, StartAttempt, AskToDispatch, Poll, Send, TakeAnswer, Persist,
                Reread, Compare, WorkerFault, GiveUpWaiting, LoseReply, ReadFails, Crash, Rerun
  <2> QED BY <1>0, <2>2, <2>3, ReconciledBefore
<1>3. CASE LateRequests
  <2>1. ASSUME NEW r \in late, DeliverLate(r) PROVE effects[p] > 0
    <3>1. r.op \in Op
        BY <1>0 DEF WorkerTypeOK, Request
    <3> QED BY <1>0, <2>1, <3>1, ReconciledBefore DEF DeliverLate
  <2>2. ASSUME NEW v \in overdue, DeliverOverdue(v) PROVE effects[p] > 0
    <3>1. v.op \in Op /\ (v.op = p /\ Completes(v.ob) => effects[p] > 0)
        BY <1>0 DEF CoordinatorTypeOK, Verdict, Witnessed, Attested
    <3> QED BY <1>1, <2>2, <3>1 DEF DeliverOverdue
  <2> QED BY <1>3, <2>1, <2>2 DEF LateRequests
<1>4. CASE Coordinators
  <2>1. PICK c \in Coordinator : CoordinatorStep(c) \/ CoordinatorFault(c)
    BY <1>4 DEF Coordinators
  <2>2. ASSUME NEW v \in verdict[c],
               SubmitRecoveryResult(v.op, v.attempt, v.attempt, Expected(v), v.ob)
        PROVE  effects[p] > 0
    <3>1. v.op \in Op /\ (v.op = p /\ Completes(v.ob) => effects[p] > 0)
        BY <1>0 DEF CoordinatorTypeOK, Verdict, Witnessed, Attested
    <3> QED BY <1>1, <2>2, <3>1
  <2>3. CASE UNCHANGED storeVars \/ \E batch : ClaimRecovery(batch, MaxTtl)
    BY <1>0, <2>3, ReconciledBefore
  <2> QED BY <2>1, <2>2, <2>3
          DEF CoordinatorStep, CoordinatorFault, Claims, ClaimsInVain, Verifies, VerifiesInVain,
              Concludes, Submits, SubmitsInVain, Abandons
<1>5. CASE Administrator
  <2>1. PICK o \in Op : \/ RequestReconciliation(o, version[o])
                        \/ \E m \in ManualOutcome :
                             Substantiated(o, m) /\ ManualResolve(o, version[o], m)
    BY <1>5 DEF Administrator
  <2>2. CASE RequestReconciliation(o, version[o])
    BY <1>0, <2>2, ReconciledBefore
  <2>3. ASSUME NEW m \in ManualOutcome, Substantiated(o, m), ManualResolve(o, version[o], m)
        PROVE  effects[p] > 0
    BY <1>0, <2>3, ReconciledByHand DEF Substantiated
  <2> QED BY <2>1, <2>2, <2>3
<1>6. CASE UNCHANGED systemVars \/ Service
    BY <1>0, <1>6, ReconciledBefore DEF Service, systemVars
<1>7. CASE Clock
    BY <1>0, <1>7, ReconciledBefore DEF Clock, ClockTick
<1> QED BY <1>2, <1>3, <1>4, <1>5, <1>6, <1>7 DEF SystemNext

\* What a coordinator holds next it holds now, or it has just looked.
LEMMA AttestedByVerdict ==
    ASSUME Witnessed, [SystemNext]_systemVars, NEW p \in Op, Telling(p)
    PROVE  /\ \A c \in Coordinator : \A v \in verdict'[c] :
                v.op = p /\ Completes(v.ob) => effects[p] > 0
           /\ \A v \in overdue' : v.op = p /\ Completes(v.ob) => effects[p] > 0
<1> DEFINE Fine(v) == v.op = p /\ Completes(v.ob) => effects[p] > 0
           Goal == /\ \A c \in Coordinator : \A v \in verdict'[c] : Fine(v)
                   /\ \A v \in overdue' : Fine(v)
<1>0. /\ CoordinatorTypeOK /\ ServiceTypeOK
      /\ \A c \in Coordinator : \A v \in verdict[c] : Fine(v)
      /\ \A v \in overdue : Fine(v)
    BY DEF Witnessed, Attested, Linked, SystemTypeOK
<1>1. CASE UNCHANGED <<verdict, overdue>>
    BY <1>0, <1>1
<1>2. ASSUME NEW c \in Coordinator, NEW o, NEW n, NEW ob, Concludes(c, o, n, ob),
             o = p /\ Completes(ob) => effects[p] > 0
      PROVE  Goal
  <2> DEFINE new == [op |-> o, attempt |-> n, ob |-> ob]
  <2>1. Fine(new)
    BY <1>2
  <2>2. verdict' = [verdict EXCEPT ![c] = {new}] /\ overdue' = overdue
    BY <1>2 DEF Concludes
  <2> HIDE DEF new
  <2> QED BY <1>0, <2>1, <2>2 DEF CoordinatorTypeOK
<1>3. effects[p] = 0 \/ effects[p] > 0
    BY <1>0, ServiceAssumption DEF ServiceTypeOK
<1>4. ASSUME NEW c \in Coordinator, CoordinatorStep(c) \/ CoordinatorFault(c) PROVE Goal
  <2>1. CASE Claims(c) \/ ClaimsInVain(c)
    BY <1>1, <2>1 DEF Claims, ClaimsInVain, coordinatorVars
  <2>2. CASE Verifies(c) \/ VerifiesInVain(c)
    <3>1. PICK k \in work[c] : \/ Concludes(c, k[1], k[2], Evidence(k[1]))
                               \/ Concludes(c, k[1], k[2], Unreachable(k[1]))
        BY <2>2 DEF Verifies, VerifiesInVain
    <3>2. k[1] = p => (Completes(Evidence(k[1])) \/ Completes(Unreachable(k[1])) => effects[p] > 0)
        BY <1>3, NothingFound
    <3> QED BY <1>2, <3>1, <3>2
  <2>3. CASE Submits(c) \/ SubmitsInVain(c) \/ Abandons(c)
    BY <1>0, <2>3 DEF Submits, SubmitsInVain, Abandons, CoordinatorTypeOK
  <2> QED BY <1>4, <2>1, <2>2, <2>3 DEF CoordinatorStep, CoordinatorFault
<1>5. CASE LateRequests
    BY <1>0, <1>1, <1>5 DEF LateRequests, DeliverOverdue, coordinatorVars
<1> QED BY <1>1, <1>4, <1>5
        DEF SystemNext, systemVars, coordinatorVars, Workers, Coordinators, Service,
            Administrator, Clock

LEMMA WitnessedStep == Witnessed /\ [SystemNext]_systemVars => Witnessed'
<1> SUFFICES ASSUME Witnessed, [SystemNext]_systemVars, NEW p \in Op, Telling(p)
             PROVE  Attested(p)'
    BY LinkedStep DEF Witnessed, Telling, UniqueContent
<1>1. effects[p] > 0 => effects'[p] > 0
  <2>1. effects[p] \in Nat /\ effects'[p] \in Nat /\ effects[p] <= effects'[p]
    BY ServiceStep, EffectsGrow DEF Witnessed, Linked, SystemTypeOK
  <2> QED BY <2>1
<1> QED BY <1>1, AttestedByState, AttestedByVerdict DEF Attested

-----------------------------------------------------------------------------
(* What workers report                                                      *)

Settled(o) == state[o] \in {"confirmed", "reconciled"}

\* A copy that shows an operation settled stays true, so a worker may end on it.
Informed ==
    /\ \A w \in Worker : at[w] = "done" => Settled(JobOf[w])
    /\ \A w \in Worker : view[w].state \in {"confirmed", "reconciled"} => Settled(JobOf[w])

LEMMA SettledKept ==
    ASSUME Fencing, [Next]_storeVars, NEW o \in Op, Settled(o)
    PROVE  Settled(o)'
BY FinalStep DEF Settled, storeVars

LEMMA ProceedInformed ==
    ASSUME Linked, [Next]_storeVars, Informed,
           NEW w \in Worker, NEW place, NEW op, NEW g, NEW n, Proceed(w, place, op, g, n),
           place = "done" => Settled(JobOf[w])',
           op.state \in {"confirmed", "reconciled"} => Settled(JobOf[w])'
    PROVE  Informed'
<1>0. WorkerTypeOK /\ Fencing /\ JobOf \in [Worker -> Op]
    BY WorkerAssumption DEF Linked, SystemTypeOK
<1>1. \A u \in Worker : Settled(JobOf[u]) => Settled(JobOf[u])'
    BY <1>0, SettledKept
<1>2. /\ at'[w] = place /\ view'[w] = op
      /\ \A u \in Worker \ {w} : at'[u] = at[u] /\ view'[u] = view[u]
    BY <1>0 DEF Proceed, WorkerTypeOK
<1> QED BY <1>1, <1>2 DEF Informed

LEMMA FollowInformed ==
    ASSUME Linked, [Next]_storeVars, Informed, NEW w \in Worker, NEW op, Follow(w, op),
           op.state \in {"confirmed", "reconciled"} => Settled(JobOf[w])'
    PROVE  Informed'
<1>1. Blank.state = "absent"
    BY DEF Blank
<1> QED BY <1>1, ProceedInformed DEF Follow, GoTo

LEMMA WorkerInformed ==
    ASSUME Linked, [Next]_storeVars, Informed,
           NEW w \in Worker, WorkerStep(w) \/ Rerun(w) \/ WorkerFault(w)
    PROVE  Informed'
<1>0. /\ WorkerTypeOK /\ Fencing /\ TypeOK /\ TypeOK' /\ Backed /\ ReceiptIffConfirmed
      /\ JobOf[w] \in Op /\ NoReceipt = 0 /\ Blank.state = "absent"
    BY WorkerAssumption, FencingStep DEF Linked, SystemTypeOK, Fencing, Blank
<1>1. /\ Settled(JobOf[w]) => Settled(JobOf[w])'
      /\ view[w].state \in {"confirmed", "reconciled"} => Settled(JobOf[w])'
    BY <1>0, SettledKept DEF Informed
<1>2. at[w] \in Persisting /\ receipt[JobOf[w]] = got[w] => Settled(JobOf[w])'
  <2>1. at[w] \in Persisting => got[w] # 0
    BY <1>0 DEF Backed
  <2>2. receipt[JobOf[w]] # NoReceipt => Settled(JobOf[w])
    BY <1>0 DEF ReceiptIffConfirmed, Settled
  <2> QED BY <1>0, <1>1, <2>1, <2>2
<1>3. /\ Row(JobOf[w]).state \in {"confirmed", "reconciled"} => Settled(JobOf[w])
      /\ Row(JobOf[w])'.state \in {"confirmed", "reconciled"} => Settled(JobOf[w])'
    BY DEF Row, Settled
<1>4. CASE Start(w) \/ Poll(w)
    BY <1>1, <1>3, <1>4, FollowInformed DEF Start, Poll
<1>5. CASE StartAttempt(w) \/ AskToDispatch(w)
    BY <1>0, <1>1, <1>3, <1>5, ProceedInformed DEF StartAttempt, AskToDispatch, GoTo
<1>6. CASE Send(w) \/ TakeAnswer(w)
    BY <1>0, <1>1, <1>6, ProceedInformed DEF Send, TakeAnswer, GoTo
<1>7. CASE Persist(w)
  <2>1. ASSUME NEW v, NEW r, Confirm(JobOf[w], v, r) PROVE Settled(JobOf[w])'
    BY <1>0, <2>1 DEF Confirm, Settled, TypeOK
  <2>2. at[w] \in Persisting
    BY <1>7 DEF Persist, Persisting
  <2> QED BY <1>0, <1>2, <1>7, <2>1, <2>2, ProceedInformed DEF Persist, GoTo
<1>8. CASE Reread(w)
  <2>1. state[JobOf[w]] = "reconciled" => Settled(JobOf[w])'
    BY <1>1 DEF Settled
  <2> QED BY <1>0, <1>1, <1>3, <1>8, <2>1, ProceedInformed DEF Reread, GoTo
<1>9. CASE Compare(w)
  <2>1. at[w] \in Persisting
    BY <1>9 DEF Compare, Persisting
  <2> QED BY <1>0, <1>2, <1>9, <2>1, ProceedInformed DEF Compare, GoTo
<1>10. CASE ReadFails(w)
    BY <1>0, <1>1, <1>10, FollowInformed, ProceedInformed DEF ReadFails, GoTo
<1>11. CASE GiveUpWaiting(w) \/ LoseReply(w) \/ Crash(w) \/ Rerun(w)
    BY <1>0, <1>1, <1>11, ProceedInformed DEF GiveUpWaiting, LoseReply, Crash, Rerun, GoTo
<1> QED BY <1>4, <1>5, <1>6, <1>7, <1>8, <1>9, <1>10, <1>11 DEF WorkerStep, WorkerFault

LEMMA InformedStep == Linked /\ Informed /\ [SystemNext]_systemVars => Informed'
<1> SUFFICES ASSUME Linked, Informed, [SystemNext]_systemVars PROVE Informed'
    OBVIOUS
<1>0. [Next]_storeVars /\ Fencing /\ JobOf \in [Worker -> Op]
    BY StoreStep, WorkerAssumption DEF Linked
<1>1. CASE UNCHANGED <<at, view>>
    BY <1>0, <1>1, SettledKept DEF Informed
<1>2. ASSUME NEW w \in Worker, WorkerStep(w) \/ Rerun(w) \/ WorkerFault(w) PROVE Informed'
    BY <1>0, <1>2, WorkerInformed
<1> QED BY <1>1, <1>2
        DEF SystemNext, systemVars, Workers, LateRequests, DeliverLate, Coordinators, Service,
            Administrator, Clock, workerVars

\* Nothing is recorded as done that was not done, unless content is declared unique
\* that is not; and nothing is reported as done that is not recorded so.
THEOREM CompletionsAreTrue == SystemSpec => []NoFalseCompletion
<1>1. SystemInit => Witnessed
  <2> SUFFICES ASSUME SystemInit, NEW o \in Op PROVE Attested(o)
    BY LinkedInit DEF Witnessed
  <2> QED BY DEF SystemInit, Init, CoordinatorInit, Attested
<1>2. Witnessed /\ Informed => NoFalseCompletion
  <2> SUFFICES ASSUME Witnessed, NEW o \in Op, Telling(o)
               PROVE  /\ state[o] \in {"confirmed", "reconciled"} => effects[o] > 0
                      /\ receipt[o] <= effects[o]
    BY DEF NoFalseCompletion, Telling, Informed, Settled
  <2>1. /\ TypeOK /\ ServiceTypeOK
        /\ receipt[o] <= effects[o]
        /\ state[o] = "confirmed" => receipt[o] # NoReceipt
        /\ state[o] = "reconciled" => effects[o] > 0
    BY DEF Witnessed, Attested, Linked, Fencing, SystemTypeOK, Backed, ReceiptIffConfirmed
  <2>2. receipt[o] \in Nat /\ effects[o] \in Nat /\ (receipt[o] # NoReceipt => receipt[o] > 0)
    BY <2>1, WorkerAssumption, ServiceAssumption DEF TypeOK, ServiceTypeOK
  <2> QED BY <2>1, <2>2
<1>3. SystemInit => Informed
    BY DEF SystemInit, WorkerInit, Informed, Blank
<1> QED BY <1>1, <1>2, <1>3, LinkedInvariant, WitnessedStep, InformedStep, PTL DEF SystemSpec

-----------------------------------------------------------------------------
(* The promise of the whole system                                          *)

\* A step is the store's or the service's.
LEMMA StoreOrService ==
    ASSUME [SystemNext]_systemVars
    PROVE  \/ UNCHANGED effects
           \/ UNCHANGED <<state, authorized>> /\ Service
<1>1. CASE Workers
  <2>1. PICK w \in Worker : WorkerStep(w) \/ Rerun(w) \/ WorkerFault(w)
    BY <1>1 DEF Workers
  <2> QED BY <2>1
          DEF WorkerStep, WorkerFault, Start, StartAttempt, AskToDispatch, Poll, Send, TakeAnswer,
              Persist, Reread, Compare, GiveUpWaiting, LoseReply, ReadFails, Crash, Rerun,
              Accept, Finish, serviceVars
<1>2. CASE LateRequests \/ Administrator \/ Clock \/ UNCHANGED systemVars
    BY <1>2 DEF LateRequests, DeliverLate, DeliverOverdue, Administrator, Clock, serviceVars,
                systemVars
<1>3. CASE Coordinators
    BY <1>3 DEF Coordinators, CoordinatorStep, CoordinatorFault, Claims, ClaimsInVain, Verifies,
                VerifiesInVain, Concludes, Submits, SubmitsInVain, Abandons, serviceVars
<1>4. CASE Service
    BY <1>4 DEF Service, storeVars
<1> QED BY <1>1, <1>2, <1>3, <1>4 DEF SystemNext

\* A step of the life cycle: a grant is given where there was none, and taken back
\* only where nothing came of it.
LEMMA PromisedByStore ==
    ASSUME Ledger, Ledger', NoFalseCompletion', UNCHANGED effects, Lifecycle!Next
    PROVE  Promise!Next \/ UNCHANGED Promise!deliveryVars
<1> DEFINE Goal == Promise!Next \/ UNCHANGED Promise!deliveryVars
<1>0. TypeOK /\ effects \in [Op -> Nat]
    BY ServiceAssumption DEF Ledger, Linked, Fencing, SystemTypeOK, ServiceTypeOK
<1>1. PICK p \in Op : \/ Lifecycle!Intend(p)
                      \/ Lifecycle!Grant(p)
                      \/ Lifecycle!Complete(p)
                      \/ Lifecycle!Suspect(p)
                      \/ Lifecycle!Release(p)
                      \/ Lifecycle!Retry(p)
    BY DEF Lifecycle!Next
<1>2. \A o \in Op : o # p => state'[o] = state[o] /\ authorized'[o] = authorized[o]
    BY <1>0, <1>1
       DEF TypeOK, Lifecycle!Intend, Lifecycle!Grant, Lifecycle!Complete, Lifecycle!Suspect,
           Lifecycle!Release, Lifecycle!Retry
<1>3. CASE p \notin Delicate
    BY <1>2, <1>3 DEF Promise!deliveryVars, Delicate, UniqueContent
<1>4. ASSUME p \in Delicate PROVE Goal
  <2>0. /\ p \notin Replayable
        /\ effects[p] <= 1
        /\ Fresh(p) => effects[p] = 0
        /\ Fresh(p)' => effects[p] = 0
    BY <1>4 DEF Delicate, Ledger, OneAttempt, Unsent
  <2>1. state'[p] \in {"confirmed", "reconciled"} => effects[p] = 1
    <3>1. state'[p] \in {"confirmed", "reconciled"} => effects[p] > 0
        BY <1>4 DEF Delicate, NoFalseCompletion, UniqueContent
    <3> QED BY <1>0, <2>0, <3>1
  <2>2. CASE Lifecycle!Intend(p)
    <3>1. state[p] = "absent" /\ state'[p] = "prepared" /\ authorized' = authorized
        BY <1>0, <2>2 DEF TypeOK, Lifecycle!Intend
    <3>2. Promise!Record(p)
        BY <1>2, <1>4, <3>1 DEF Promise!Record, Delicate, UniqueContent
    <3> QED BY <1>4, <3>2 DEF Promise!Next
  <2>3. CASE Lifecycle!Grant(p)
    <3>1. Promise!Permit(p)
        BY <1>0, <1>2, <1>4, <2>0, <2>3
           DEF TypeOK, Fresh, Lifecycle!Grant, Promise!Permit, Delicate, UniqueContent
    <3> QED BY <1>4, <3>1 DEF Promise!Next
  <2>4. CASE Lifecycle!Complete(p)
    <3>1. /\ state[p] \in {"prepared", "uncertain"}
          /\ state'[p] \in {"confirmed", "reconciled"}
          /\ authorized' = authorized
        BY <1>0, <2>4
           DEF TypeOK, Lifecycle!Complete, Lifecycle!Terminal, Lifecycle!CanTransition,
               Lifecycle!AllowedTransitions
    <3>2. Promise!Complete(p)
        BY <1>0, <1>2, <1>4, <2>1, <3>1 DEF Promise!Complete, Delicate, UniqueContent
    <3> QED BY <1>4, <3>2 DEF Promise!Next
  <2>5. CASE Lifecycle!Suspect(p)
    <3>1. state[p] = "prepared" /\ state'[p] = "uncertain" /\ authorized' = authorized
        BY <1>0, <2>5
           DEF TypeOK, Lifecycle!Suspect, Lifecycle!CanTransition, Lifecycle!AllowedTransitions
    <3> QED BY <1>2, <3>1 DEF Promise!deliveryVars, Delicate, UniqueContent
  <2>6. CASE Lifecycle!Release(p)
    <3>1. /\ state[p] \in {"prepared", "uncertain"}
          /\ state'[p] = "retryable"
          /\ authorized' = authorized
        BY <1>0, <2>6
           DEF TypeOK, Lifecycle!Release, Lifecycle!CanTransition, Lifecycle!AllowedTransitions
    <3>2. effects[p] = 0
        BY <2>0, <3>1 DEF Fresh
    <3>3. Promise!Withdraw(p)
        BY <1>0, <1>2, <1>4, <3>1, <3>2 DEF Promise!Withdraw, Delicate, UniqueContent
    <3> QED BY <1>4, <3>3 DEF Promise!Next
  <2>7. CASE Lifecycle!Retry(p)
    <3>1. state[p] = "retryable" /\ state'[p] = "prepared" /\ ~authorized'[p]
        BY <1>0, <2>7
           DEF TypeOK, Lifecycle!Retry, Lifecycle!CanTransition, Lifecycle!AllowedTransitions
    <3> QED BY <1>2, <3>1 DEF Promise!deliveryVars, Delicate, UniqueContent
  <2> QED BY <1>1, <2>2, <2>3, <2>4, <2>5, <2>6, <2>7
<1> QED BY <1>3, <1>4

\* A request causes an effect only while its grant stands.
LEMMA PromisedByService ==
    ASSUME Ledger, Service, UNCHANGED <<state, authorized>>
    PROVE  Promise!Next \/ UNCHANGED Promise!deliveryVars
<1>0. effects \in [Op -> Nat] /\ \A c \in calls : c.op \in Op
    BY ServiceAssumption DEF Ledger, Linked, SystemTypeOK, ServiceTypeOK, Call
<1>1. CASE effects' = effects
    BY <1>1 DEF Promise!deliveryVars, Delicate, UniqueContent
<1>2. ASSUME effects' # effects PROVE Promise!Next \/ UNCHANGED Promise!deliveryVars
  <2>1. PICK c \in calls : c.working /\ effects' = [effects EXCEPT ![c.op] = @ + 1]
    BY <1>2
       DEF Service, Commit, CommitUnanswered, Refuse, Finish, Repeat, RecordEffect
  <2>2. CASE c.op \notin Delicate
    BY <1>0, <2>1, <2>2 DEF Promise!deliveryVars, Delicate, UniqueContent
  <2>3. ASSUME c.op \in Delicate PROVE Promise!Next
    <3>1. effects[c.op] = 0 /\ ~Fresh(c.op)
        BY <2>1, <2>3 DEF Delicate, Ledger, OneAttempt, Unsent
    <3>2. Promise!Perform(c.op)
        BY <1>0, <2>1, <2>3, <3>1 DEF Fresh, Promise!Perform, Delicate, UniqueContent
    <3> QED BY <2>3, <3>2 DEF Promise!Next
  <2> QED BY <2>2, <2>3
<1> QED BY <1>1, <1>2

\* The promise, for operations whose effect nobody absorbs when it is repeated: any
\* number of workers, coordinators, operators' interventions and failures look
\* like one performance of a durable intent under a standing grant, and then its
\* completion.
THEOREM SystemKeepsPromise == SystemSpec => KeepsPromise
<1>1. SystemInit => Promise!Init
    BY DEF SystemInit, Init, ServiceInit, Promise!Init, Delicate
<1>2. Ledger /\ Ledger' /\ NoFalseCompletion' /\ [SystemNext]_systemVars
        => [Promise!Next]_Promise!deliveryVars
  <2> SUFFICES ASSUME Ledger, Ledger', NoFalseCompletion', [SystemNext]_systemVars
               PROVE  Promise!Next \/ UNCHANGED Promise!deliveryVars
    OBVIOUS
  <2>1. CASE UNCHANGED <<state, authorized>> /\ Service
    BY <2>1, PromisedByService
  <2>2. ASSUME UNCHANGED effects PROVE Promise!Next \/ UNCHANGED Promise!deliveryVars
    <3>1. Lifecycle!Next \/ UNCHANGED <<state, authorized>>
      <4>1. Fencing /\ [Next]_storeVars
        BY StoreStep DEF Ledger, Linked
      <4> QED BY <4>1, LifecycleStep DEF storeVars
    <3>2. CASE UNCHANGED <<state, authorized>>
        BY <2>2, <3>2 DEF Promise!deliveryVars, Delicate, UniqueContent
    <3> QED BY <2>2, <3>1, <3>2, PromisedByStore
  <2> QED BY <2>1, <2>2, StoreOrService
<1> QED BY <1>1, <1>2, LedgerInvariant, CompletionsAreTrue, PTL
        DEF SystemSpec, KeepsPromise, Promise!Spec

=============================================================================
