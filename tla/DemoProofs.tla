----------------------------- MODULE DemoProofs -----------------------------
(***************************************************************************)
(* Theorems about a trial of the demo, for any number of operations and    *)
(* coordinators, any profiles and limits, and every order in which the     *)
(* process, its controller, the coordinators and the service take their    *)
(* steps: the trial uses the store and the service as their specifications *)
(* allow, and the table it ends in is true.                                *)
(***************************************************************************)
EXTENDS DemoTrial, RecoveryCoordinatorProofs, FiniteSetTheorems

Copy == [state : State \union {"absent"}, version : Nat, authorized : BOOLEAN]

Place == {"begin", "authorize", "send", "await", "request", "poll",
          "hanging", "finished", "crashed"}

Phase == {"prepared", "authorized", "committed", "refused", "verifying", "reconciled",
          "uncertain", "already-reconciled", "already-confirmed", "already-uncertain"}

TrialTypeOK ==
    /\ trial \in Protected \union {"blind_retry"}
    /\ life \in {1, 2}
    /\ step \in Place
    /\ copy \in Copy
    /\ reached \in Seq(Phase)

Told(phase) == \E i \in 1..Len(reached) : reached[i] = phase

\* What was sent under an operation ID: nothing, ...
Untouched(p) ==
    /\ effects[p] = 0
    /\ bound[p] = 0
    /\ \A c \in calls : c.op # p

\* ... one request that is not finished, ...
Pending(p) ==
    /\ \A c, d \in calls : c.op = p /\ d.op = p => c = d
    /\ \A c \in calls : c.op = p =>
        IF c.working THEN effects[p] = 0 /\ bound[p] = 0
        ELSE c.receipt = 0 \/ effects[p] = 1

\* ... or one that had its effect.
Delivered(p) ==
    /\ effects[p] = 1
    /\ \A c \in calls : c.op # p

\* The process that may send: the first one, and the second one of a blind trial.
Sender == Blind \/ life = 1

\* Nothing is sent but under the operation IDs of the trial, under each by one
\* process, which goes no further than its request does.  The second process of
\* a protected trial finds the grant used up.
SentOnce ==
    /\ \A p \in Op : p # Subject /\ ~(Blind /\ life = 2 /\ p = BlindSend[1]) => Untouched(p)
    /\ Sender /\ step \in {"begin", "authorize", "send"} => Untouched(Subject)
    /\ Sender /\ step = "await" => Pending(Subject)
    /\ Sender /\ step \in {"hanging", "finished"} => Delivered(Subject)
    /\ Blind /\ life = 2 => Delivered(BlindSend[1])
    /\ ~Blind /\ life = 2 => Delivered(trial)

\* The grant of a protected trial is used up as soon as its process may send.
GrantUsed ==
    /\ Sender => step \notin {"request", "poll"}
    /\ ~Sender => step \notin {"send", "await", "hanging"}
    /\ Blind => step # "authorize"
    /\ ~Blind /\ (life = 2 \/ step \in {"send", "await", "hanging"}) => authorized[trial]

\* The controller kills the process when it hears of the effect, and then only.
Killed ==
    /\ controller = "waiting" => life = 1
    /\ controller = "waiting" /\ Told("committed") => step = "hanging"
    /\ controller \in {"watching", "shown"} => life = 2

\* Of the operation that the process is about to change it holds a copy; the
\* restarted one does not go on with an uncertain operation.
Copied ==
    step \in {"authorize", "request"} =>
        /\ state[trial] # "absent"
        /\ copy.version <= version[trial]
        /\ copy.version = version[trial] => copy.state = state[trial]
        /\ life = 2 => copy.state # "uncertain"

\* Nobody asks for an uncertain operation to be looked at again, so it stays so.
Halted ==
    /\ \A p \in Op : state[p] = "uncertain" => due[p] = "null"
    /\ \A p \in Op : \A n \in 1..Len(claims[p]) : claims[p][n].state = "prepared"

Reconciled == ~Blind /\ state[trial] = "reconciled"

LeftUncertain == ~Blind /\ state[trial] = "uncertain"

\* What the process tells and what the controller makes of it is so.
Truthful ==
    /\ Told("reconciled") \/ Told("already-reconciled") => Reconciled
    /\ Told("uncertain") \/ Told("already-uncertain") => LeftUncertain
    /\ summary = "reconciled" => Reconciled
    /\ summary = "halted as uncertain" => LeftUncertain
    /\ summary = "duplicate effect" => Blind

Tracked ==
    /\ Coordinating
    /\ ServiceTypeOK
    /\ TrialTypeOK
    /\ SentOnce
    /\ GrantUsed
    /\ Killed
    /\ Copied
    /\ Halted
    /\ Truthful
    /\ TrialCounts

-----------------------------------------------------------------------------
(* The trial uses the store and the service as their specifications allow.  *)

\* Who is neither the process nor its controller leaves the trial alone; the
\* service is used by the process only.
LEMMA TrialCases ==
    ASSUME [TrialNext]_demoVars
    PROVE  \/ ProcessStep \/ ProcessFails \/ TakesPhase \/ TakesExit \/ TimesOut
           \/ /\ UNCHANGED <<trialVars, serviceVars>>
              /\ \/ UNCHANGED <<storeVars, coordinatorVars>>
                 \/ \E c \in Coordinator : CoordinatorStep(c) \/ CoordinatorFault(c)
                 \/ UNCHANGED coordinatorVars /\ \E o \in Op : ClockTick(o)
           \/ /\ UNCHANGED <<trialVars, storeVars, coordinatorVars>>
              /\ \E c \in calls : Commit(c) \/ CommitUnanswered(c) \/ Refuse(c)
<1>1. CASE UNCHANGED demoVars
    BY <1>1 DEF demoVars
<1>2. CASE CoordinatorActs
  <2>1. PICK c \in Coordinator : CoordinatorStep(c)
    BY <1>2 DEF CoordinatorActs
  <2>2. UNCHANGED serviceVars
    BY <2>1 DEF CoordinatorStep, Claims, Verifies, Submits, Concludes
  <2> QED BY <1>2, <2>1, <2>2 DEF CoordinatorActs
<1>3. CASE TimePasses
    BY <1>3 DEF TimePasses, ClockTick
<1>4. CASE SurroundingFault
  <2>1. CASE \E c \in Coordinator : VerifiesInVain(c)
    <3>1. PICK c \in Coordinator : VerifiesInVain(c)
        BY <2>1
    <3>2. UNCHANGED serviceVars /\ CoordinatorFault(c)
        BY <3>1 DEF VerifiesInVain, Concludes, CoordinatorFault
    <3> QED BY <1>4, <3>2 DEF SurroundingFault
  <2> QED BY <1>4, <2>1 DEF SurroundingFault
<1>5. CASE ServiceActs
    BY <1>5 DEF ServiceActs
<1> QED BY <1>1, <1>2, <1>3, <1>4, <1>5 DEF TrialNext

\* The operation IDs of a trial are operations.
LEMMA Subjects ==
    ASSUME TrialTypeOK
    PROVE  /\ Subject \in Op
           /\ ~Blind => trial \in Op /\ Subject = trial
           /\ Blind => trial \notin Protected
           /\ BlindSend[1] \in Op /\ BlindSend[2] \in Op /\ BlindSend[1] # BlindSend[2]
BY DemoAssumption DEF TrialTypeOK, Subject, Blind

LEMMA TrialUsesStore == Tracked /\ [TrialNext]_demoVars => [Next]_storeVars
<1> SUFFICES ASSUME Tracked, [TrialNext]_demoVars PROVE [Next]_storeVars
    OBVIOUS
<1>0. Coordinating /\ TrialTypeOK /\ GrantUsed
    BY DEF Tracked
<1>1. CASE ProcessStep
  <2>1. ASSUME NEW o \in Protected, BeginsProtected(o) PROVE [Next]_storeVars
    <3>1. o \in Op
        BY DemoAssumption
    <3> QED BY <1>0, <2>1, <3>1, CallsAreExpected DEF BeginsProtected
  <2>2. ASSUME NEW o \in Protected, AsksToSend(o) PROVE [Next]_storeVars
    <3>1. o \in Op
        BY DemoAssumption
    <3> QED BY <1>0, <2>2, <3>1, CallsAreExpected DEF AsksToSend
  <2>3. CASE AsksToReconcile
    <3>1. trial \in Op
        BY <1>0, <2>3, Subjects DEF AsksToReconcile, GrantUsed, Sender
    <3> QED BY <1>0, <2>3, <3>1, CallsAreExpected DEF AsksToReconcile
  <2> QED BY <1>1, <2>1, <2>2, <2>3
          DEF ProcessStep, BeginsBlind, SendsEmail, HearsOfEmail, AwaitsRecovery
<1>2. ASSUME NEW c \in Coordinator, CoordinatorStep(c) \/ CoordinatorFault(c)
      PROVE  [Next]_storeVars
    BY <1>0, <1>2, CoordinatorsCall
<1>3. ASSUME NEW o \in Op, ClockTick(o) PROVE Next
    BY <1>3 DEF Next
<1>4. ProcessFails \/ TakesPhase \/ TakesExit \/ TimesOut => UNCHANGED storeVars
    BY DEF ProcessFails, TakesPhase, TakesExit, TimesOut
<1> QED BY <1>1, <1>2, <1>3, <1>4, TrialCases

LEMMA TrialUsesService == TrialTypeOK /\ [TrialNext]_demoVars => [ServiceNext]_serviceVars
<1> SUFFICES ASSUME TrialTypeOK, [TrialNext]_demoVars PROVE [ServiceNext]_serviceVars
    OBVIOUS
<1>1. CASE SendsEmail
  <2>1. Subject \in Op /\ copy.version \in Grants
    BY Subjects, DemoAssumption DEF TrialTypeOK, Copy
  <2> QED BY <1>1, <2>1 DEF SendsEmail, ServiceNext
<1>2. CASE HearsOfEmail
    BY <1>2 DEF HearsOfEmail, ServiceNext
<1>3. CASE ProcessStep /\ ~SendsEmail /\ ~HearsOfEmail
    BY <1>3 DEF ProcessStep, BeginsBlind, BeginsProtected, AsksToSend, AsksToReconcile,
                AwaitsRecovery
<1>4. ProcessFails \/ TakesPhase \/ TakesExit \/ TimesOut => UNCHANGED serviceVars
    BY DEF ProcessFails, TakesPhase, TakesExit, TimesOut
<1>5. ASSUME NEW c \in calls, Commit(c) \/ CommitUnanswered(c) \/ Refuse(c) PROVE ServiceNext
    BY <1>5 DEF ServiceNext
<1> QED BY <1>1, <1>2, <1>3, <1>4, <1>5, TrialCases

\* The coordinators' part of the invariant, and the service's.
LEMMA SurroundingsStep ==
    Tracked /\ [TrialNext]_demoVars => Coordinating' /\ ServiceTypeOK'
<1> SUFFICES ASSUME Tracked, [TrialNext]_demoVars PROVE Coordinating' /\ ServiceTypeOK'
    OBVIOUS
<1>0. /\ Coordinating /\ Fencing /\ TypeOK /\ Numbered /\ CoordinatorTypeOK
      /\ ServiceTypeOK /\ TrialTypeOK
      /\ [Next]_storeVars /\ [ServiceNext]_serviceVars
    BY TrialUsesStore, TrialUsesService DEF Tracked, Coordinating, Fencing
<1>1. \/ UNCHANGED coordinatorVars
      \/ \E c \in Coordinator : CoordinatorStep(c) \/ CoordinatorFault(c)
  <2>1. ProcessStep => UNCHANGED coordinatorVars
    BY DEF ProcessStep, BeginsBlind, BeginsProtected, AsksToSend, SendsEmail, HearsOfEmail,
           AsksToReconcile, AwaitsRecovery
  <2>2. ProcessFails \/ TakesPhase \/ TakesExit \/ TimesOut => UNCHANGED coordinatorVars
    BY DEF ProcessFails, TakesPhase, TakesExit, TimesOut
  <2> QED BY <2>1, <2>2, TrialCases
<1>2. CoordinatorTypeOK'
  <2>1. CASE UNCHANGED coordinatorVars
    BY <1>0, <2>1 DEF coordinatorVars, CoordinatorTypeOK
  <2> QED BY <1>0, <1>1, <2>1, CoordinatorTypeStep
<1> QED BY <1>0, <1>1, <1>2, FencingStep, NumberedStep, IssuedStep, ServiceTypeStep
        DEF Coordinating

-----------------------------------------------------------------------------
(* What is told over the channel                                            *)

\* A phase that is sent is told from then on, and no other.
LEMMA TellsOne ==
    ASSUME reached \in Seq(Phase), NEW phase \in Phase, reached' = reached \o <<phase>>
    PROVE  /\ reached' \in Seq(Phase)
           /\ \A q : Told(q)' => Told(q) \/ q = phase
<1>1. reached' = Append(reached, phase)
    BY AppendIsConcat
<1>2. /\ reached' \in Seq(Phase)
      /\ Len(reached') = Len(reached) + 1
      /\ \A i \in 1..Len(reached) : reached'[i] = reached[i]
      /\ reached'[Len(reached) + 1] = phase
    BY <1>1, AppendProperties
<1>3. Len(reached) \in Nat
    BY LenProperties
<1>4. ASSUME NEW q, NEW i \in 1..Len(reached'), reached'[i] = q PROVE Told(q) \/ q = phase
  <2>1. i \in 1..Len(reached) \/ i = Len(reached) + 1
    BY <1>2, <1>3
  <2> QED BY <1>2, <1>4, <2>1 DEF Told
<1> QED BY <1>2, <1>4 DEF Told

LEMMA TellsNone ==
    ASSUME reached \in Seq(Phase), reached' = reached \o << >>
    PROVE  reached' = reached
BY ConcatEmptySeq

\* What is taken from the channel was told, and what is left.
LEMMA TakesOne ==
    ASSUME reached \in Seq(Phase), reached # << >>, reached' = Tail(reached)
    PROVE  /\ reached' \in Seq(Phase)
           /\ Told(Head(reached))
           /\ \A q : Told(q)' => Told(q)
<1>1. Len(reached) \in Nat /\ Len(reached) # 0
    BY LenProperties, EmptySeq
<1>2. /\ reached' \in Seq(Phase)
      /\ Len(reached') = Len(reached) - 1
      /\ \A i \in 1..Len(reached') : reached'[i] = reached[i + 1]
    BY HeadTailProperties
<1>3. Told(Head(reached))
    BY <1>1 DEF Told
<1>4. ASSUME NEW q, NEW i \in 1..Len(reached'), reached'[i] = q PROVE Told(q)
  <2>1. i + 1 \in 1..Len(reached) /\ reached[i + 1] = q
    BY <1>1, <1>2, <1>4
  <2> QED BY <2>1 DEF Told
<1> QED BY <1>2, <1>3, <1>4 DEF Told

-----------------------------------------------------------------------------
(* What becomes of a request                                                *)

\* The service answers a request once, with one effect or none.
LEMMA AnswersOnce ==
    ASSUME ServiceTypeOK, NEW c \in calls, Commit(c) \/ CommitUnanswered(c) \/ Refuse(c),
           NEW p \in Op
    PROVE  /\ Untouched(p) => Untouched(p)'
           /\ Pending(p) => Pending(p)'
           /\ Delivered(p) => Delivered(p)'
<1>0. c.op \in Op /\ c.working = TRUE /\ effects \in [Op -> 0..MaxEffects]
      /\ bound \in [Op -> 0..MaxEffects]
    BY DEF ServiceTypeOK, Call, Commit, CommitUnanswered, Refuse
<1> DEFINE answer(r) == [c EXCEPT !.working = FALSE, !.receipt = r]
<1>1. PICK r : calls' = (calls \ {c}) \union {answer(r)} /\
               (r = 0 \/ (Commit(c) /\ r = ReceiptFor(c.op)))
    BY DEF Commit, CommitUnanswered, Refuse, Answered
<1>2. answer(r).op = c.op /\ answer(r).working = FALSE /\ answer(r).receipt = r
    BY DEF ServiceTypeOK, Call
<1> HIDE DEF answer
<1>3. CASE c.op # p
  <2>1. effects'[p] = effects[p] /\ bound'[p] = bound[p]
    BY <1>0, <1>3 DEF Commit, CommitUnanswered, Refuse, RecordEffect
  <2>2. {d \in calls' : d.op = p} = {d \in calls : d.op = p}
    BY <1>1, <1>2, <1>3
  <2> QED BY <2>1, <2>2 DEF Untouched, Pending, Delivered
<1>4. CASE c.op = p
  <2>1. ~Untouched(p) /\ ~Delivered(p)
    BY <1>4 DEF Untouched, Delivered
  <2>2. ASSUME Pending(p) PROVE Pending(p)'
    <3>1. effects[p] = 0 /\ bound[p] = 0 /\ \A d \in calls : d.op = p => d = c
        BY <1>0, <1>4, <2>2 DEF Pending
    <3>2. \A d \in calls' : d.op = p => d = answer(r)
        BY <1>1, <3>1
    <3>3. r = 0 \/ effects'[p] = 1
        BY <1>0, <1>1, <1>4, <3>1 DEF Commit, RecordEffect, AlreadyBound
    <3> QED BY <1>2, <3>2, <3>3 DEF Pending
  <2> QED BY <2>1, <2>2
<1> QED BY <1>3, <1>4

\* Sending puts one request on its way.
LEMMA SendsOne ==
    ASSUME NEW o \in Op, NEW g, Accept(o, g), NEW p \in Op
    PROVE  /\ p = o /\ Untouched(p) => Pending(p)'
           /\ p # o /\ Untouched(p) => Untouched(p)'
           /\ p # o /\ Delivered(p) => Delivered(p)'
<1> DEFINE new == [op |-> o, grant |-> g, working |-> TRUE, receipt |-> 0]
<1>1. calls' = calls \union {new} /\ UNCHANGED <<effects, bound>>
    BY DEF Accept
<1>2. new.op = o /\ new.working
    OBVIOUS
<1> HIDE DEF new
<1>3. p = o /\ Untouched(p) => Pending(p)'
    BY <1>1, <1>2 DEF Untouched, Pending
<1>4. p # o => (Untouched(p) => Untouched(p)') /\ (Delivered(p) => Delivered(p)')
    BY <1>1, <1>2 DEF Untouched, Delivered
<1> QED BY <1>3, <1>4

\* Its answer ends it.
LEMMA EndsOne ==
    ASSUME NEW c \in calls, Finish(c), NEW p \in Op
    PROVE  /\ Untouched(p) => Untouched(p)'
           /\ Delivered(p) => Delivered(p)'
           /\ p = c.op /\ Pending(p) /\ c.receipt # 0 => Delivered(p)'
BY DEF Finish, Untouched, Pending, Delivered

-----------------------------------------------------------------------------
(* The process and its controller keep their types.                         *)

LEMMA DoesType ==
    ASSUME TrialTypeOK, NEW next \in Place, NEW op \in Copy, NEW phase \in Phase,
           Does(next, op, << >>) \/ Does(next, op, <<phase>>)
    PROVE  TrialTypeOK'
<1>1. reached' \in Seq(Phase)
    BY TellsOne, TellsNone DEF TrialTypeOK, Does
<1> QED BY <1>1 DEF TrialTypeOK, Does

LEMMA DecidesType ==
    ASSUME TrialTypeOK, NEW op \in Copy, Decides(op)
    PROVE  TrialTypeOK'
<1>1. {"authorize", "finished"} \subseteq Place
    BY DEF Place
<1>2. {"prepared", "already-reconciled", "already-confirmed", "already-uncertain"} \subseteq Phase
    BY DEF Phase
<1> QED BY <1>1, <1>2, DoesType DEF Decides

LEMMA TrialTypeStep == Tracked /\ [TrialNext]_demoVars => TrialTypeOK'
<1> SUFFICES ASSUME Tracked, [TrialNext]_demoVars PROVE TrialTypeOK'
    OBVIOUS
<1>0. TrialTypeOK /\ copy \in Copy /\ TypeOK /\ TypeOK'
    BY SurroundingsStep DEF Tracked, Coordinating, Fencing, TrialTypeOK
<1>1. {"begin", "authorize", "send", "await", "request", "poll",
       "hanging", "finished", "crashed"} \subseteq Place
    BY DEF Place
<1>2. {"authorized", "committed", "refused", "verifying", "reconciled", "uncertain"}
        \subseteq Phase
    BY DEF Phase
<1>3. Nothing \in Copy /\ \A o \in Op : Held(o) \in Copy /\ Held(o)' \in Copy
  <2>1. Nothing \in Copy
    BY DEF Nothing, Copy
  <2>2. \A o \in Op : Held(o) \in Copy
    BY <1>0 DEF TypeOK, Held, Copy
  <2>3. \A o \in Op : Held(o)' \in Copy
    BY <1>0 DEF TypeOK, Held, Copy
  <2> QED BY <2>1, <2>2, <2>3
<1>4. Protected \subseteq Op
    BY DemoAssumption
<1>5. CASE BeginsBlind
    BY <1>0, <1>1, <1>2, <1>3, <1>5, DoesType DEF BeginsBlind
<1>6. ASSUME NEW o \in Protected, BeginsProtected(o) PROVE TrialTypeOK'
    BY <1>0, <1>3, <1>4, <1>6, DecidesType DEF BeginsProtected
<1>7. ASSUME NEW o \in Protected, AsksToSend(o) PROVE TrialTypeOK'
    BY <1>0, <1>1, <1>2, <1>3, <1>4, <1>7, DoesType DEF AsksToSend
<1>8. CASE SendsEmail
    BY <1>0, <1>1, <1>2, <1>8, DoesType DEF SendsEmail
<1>9. CASE HearsOfEmail
    BY <1>0, <1>1, <1>2, <1>9, DoesType DEF HearsOfEmail
<1>10. CASE AsksToReconcile
    BY <1>0, <1>1, <1>2, <1>10, DoesType DEF AsksToReconcile
<1>11. CASE AwaitsRecovery
  <2>1. state[trial] # "retryable" => state[trial] \in Phase
    BY <1>2, <1>11 DEF AwaitsRecovery
  <2> QED BY <1>0, <1>1, <1>2, <1>11, <2>1, DoesType DEF AwaitsRecovery
<1>12. CASE ProcessFails
    BY <1>0, <1>1, <1>2, <1>12, DoesType DEF ProcessFails
<1>13. CASE TakesPhase
  <2>1. reached' \in Seq(Phase)
    BY <1>0, <1>13, TakesOne DEF TrialTypeOK, TakesPhase
  <2>2. UNCHANGED trial
    BY <1>13 DEF TakesPhase
  <2>3. UNCHANGED processVars \/ KillsAndRestarts
    BY <1>13 DEF TakesPhase
  <2>4. life' \in {1, 2} /\ step' \in Place /\ copy' \in Copy
    BY <1>0, <1>1, <1>3, <2>3 DEF TrialTypeOK, processVars, KillsAndRestarts
  <2> QED BY <1>0, <2>1, <2>2, <2>4 DEF TrialTypeOK
<1>14. CASE TakesExit
  <2>1. reached' \in Seq(Phase)
    BY <1>0, <1>14, EmptySeq DEF TrialTypeOK, TakesExit
  <2> QED BY <1>0, <1>14, <2>1 DEF TrialTypeOK, TakesExit, processVars
<1>15. CASE TimesOut
    BY <1>0, <1>1, <1>15 DEF TrialTypeOK, TimesOut
<1>16. CASE UNCHANGED trialVars
    BY <1>0, <1>16 DEF trialVars, processVars, TrialTypeOK
<1> QED BY <1>5, <1>6, <1>7, <1>8, <1>9, <1>10, <1>11, <1>12, <1>13, <1>14, <1>15, <1>16,
           TrialCases DEF ProcessStep

-----------------------------------------------------------------------------
(* What a trial does to the store: less than other callers may              *)

LEMMA StoreCases ==
    ASSUME Tracked, [TrialNext]_demoVars
    PROVE  \/ UNCHANGED storeVars
           \/ \E o \in Op : Prepare(o) \/ AuthorizeDispatch(o, copy.version)
           \/ /\ step = "request" /\ ~Sender /\ trial \in Op
              /\ RequestReconciliation(trial, copy.version)
           \/ \E batch \in SUBSET Op : ClaimRecovery(batch, MaxTtl)
           \/ \E v \in Verdict : /\ v.attempt \in 1..Len(claims[v.op])
                                 /\ SubmitRecoveryResult(v.op, v.attempt, v.attempt,
                                                         Expected(v), v.ob)
           \/ \E o \in Op : ClockTick(o)
<1>0. /\ TrialTypeOK /\ GrantUsed /\ Coordinating
      /\ Protected \subseteq Op
    BY DemoAssumption DEF Tracked
<1>1. CASE ProcessStep
  <2>1. CASE AsksToReconcile
    <3>1. step = "request" /\ ~Sender
        BY <1>0, <2>1 DEF AsksToReconcile, GrantUsed
    <3>2. trial \in Op
        BY <1>0, <3>1, Subjects DEF Sender
    <3> QED BY <2>1, <3>1, <3>2 DEF AsksToReconcile
  <2>2. CASE \E o \in Protected : BeginsProtected(o) \/ AsksToSend(o)
    BY <1>0, <2>2 DEF BeginsProtected, AsksToSend
  <2>3. CASE BeginsBlind \/ SendsEmail \/ HearsOfEmail \/ AwaitsRecovery
    BY <2>3 DEF BeginsBlind, SendsEmail, HearsOfEmail, AwaitsRecovery
  <2> QED BY <1>1, <2>1, <2>2, <2>3 DEF ProcessStep
<1>2. ASSUME NEW c \in Coordinator, CoordinatorStep(c) \/ CoordinatorFault(c)
      PROVE  \/ UNCHANGED storeVars
             \/ \E batch \in SUBSET Op : ClaimRecovery(batch, MaxTtl)
             \/ \E v \in verdict[c] : SubmitRecoveryResult(v.op, v.attempt, v.attempt,
                                                           Expected(v), v.ob)
    BY <1>2 DEF CoordinatorStep, CoordinatorFault, Claims, ClaimsInVain, Verifies,
                VerifiesInVain, Concludes, Submits, SubmitsInVain, Abandons
<1>3. \A c \in Coordinator : \A v \in verdict[c] :
        v \in Verdict /\ v.attempt \in 1..Len(claims[v.op])
    BY <1>0 DEF Coordinating, CoordinatorTypeOK, Issued, IsClaim
<1>4. ProcessFails \/ TakesPhase \/ TakesExit \/ TimesOut => UNCHANGED storeVars
    BY DEF ProcessFails, TakesPhase, TakesExit, TimesOut
<1> QED BY <1>1, <1>2, <1>3, <1>4, TrialCases

\* Recovery answers for prepared operations only.
LEMMA AnswersPrepared ==
    ASSUME Coordinating, Halted, NEW v \in Verdict, v.attempt \in 1..Len(claims[v.op]),
           SubmitRecoveryResult(v.op, v.attempt, v.attempt, Expected(v), v.ob)
    PROVE  /\ v.op \in Op
           /\ state[v.op] = "prepared"
           /\ state'[v.op] # "absent"
           /\ state'[v.op] = "uncertain" => due'[v.op] = "null"
           /\ \A p \in Op : p # v.op => state'[p] = state[p] /\ due'[p] = due[p]
           /\ UNCHANGED <<authorized, claims>>
<1> DEFINE o == v.op
           d == Decision(v.op, v.attempt, v.ob)
<1>0. o \in Op /\ Fencing /\ TypeOK
    BY DEF Verdict, Coordinating, Fencing
<1>1. SubmitRecoveryResult(o, v.attempt, v.attempt, claims[o][v.attempt].version, v.ob)
    BY DEF Expected
<1>2. /\ version[o] = claims[o][v.attempt].version
      /\ state'[o] = DecidedState(o, d)
      /\ DecidedState(o, d) # "absent"
    BY <1>0, <1>1, AcceptedResult
<1>3. state[o] = "prepared"
    BY <1>0, <1>2 DEF Fencing, ClaimsAreSnapshots, Halted
<1>4. d = "none" => DecidedState(o, d) = state[o]
    BY <1>0, DecisionType
<1>5. /\ due' = [due EXCEPT ![o] = IF d = "none" THEN "future" ELSE "null"]
      /\ state' = [state EXCEPT ![o] = DecidedState(o, d)]
      /\ UNCHANGED <<authorized, claims>>
    BY <1>1 DEF SubmitRecoveryResult
<1>6. state \in [Op -> State \union {"absent"}] /\ due \in [Op -> {"null", "future", "reached"}]
    BY <1>0 DEF TypeOK
<1> HIDE DEF d
<1>7. state'[o] = "uncertain" => due'[o] = "null"
    BY <1>0, <1>2, <1>3, <1>4, <1>5, <1>6
<1>8. \A p \in Op : p # o => state'[p] = state[p] /\ due'[p] = due[p]
    BY <1>5, <1>6
<1> QED BY <1>0, <1>2, <1>3, <1>5, <1>7, <1>8

\* Nobody retries in a trial, so grants stay used; rows stay, and what is settled
\* or uncertain stays so.
LEMMA RowsKept ==
    ASSUME Tracked, [TrialNext]_demoVars, NEW p \in Op
    PROVE  /\ authorized[p] => authorized'[p]
           /\ state[p] # "absent" => state'[p] # "absent"
           /\ state[p] \in {"reconciled", "uncertain"} => state'[p] = state[p]
<1>0. Fencing /\ TypeOK /\ Halted /\ Coordinating
    BY DEF Tracked, Coordinating, Fencing
<1> USE DEF scheduleCols, leaseCols, claimTables
<1>1. CASE UNCHANGED storeVars
    BY <1>1 DEF storeVars
<1>2. ASSUME NEW o \in Op, Prepare(o) \/ AuthorizeDispatch(o, copy.version)
      PROVE  /\ authorized[p] => authorized'[p]
             /\ state[p] # "absent" => state'[p] # "absent"
             /\ state[p] \in {"reconciled", "uncertain"} => state'[p] = state[p]
    BY <1>0, <1>2 DEF TypeOK, Prepare, AuthorizeDispatch, MayAuthorize
<1>3. ASSUME NEW v, RequestReconciliation(trial, v) PROVE UNCHANGED <<state, authorized>>
    BY <1>3 DEF RequestReconciliation
<1>4. ASSUME NEW batch, ClaimRecovery(batch, MaxTtl) PROVE UNCHANGED <<state, authorized>>
    BY <1>4 DEF ClaimRecovery
<1>5. ASSUME NEW v \in Verdict, v.attempt \in 1..Len(claims[v.op]),
             SubmitRecoveryResult(v.op, v.attempt, v.attempt, Expected(v), v.ob)
      PROVE  /\ authorized[p] => authorized'[p]
             /\ state[p] # "absent" => state'[p] # "absent"
             /\ state[p] \in {"reconciled", "uncertain"} => state'[p] = state[p]
    BY <1>0, <1>5, AnswersPrepared
<1>6. ASSUME NEW o \in Op, ClockTick(o) PROVE UNCHANGED <<state, authorized>>
    BY <1>6 DEF ClockTick, GraceElapses, ScheduleDue, LeaseAges
<1> QED BY <1>1, <1>2, <1>3, <1>4, <1>5, <1>6, StoreCases

\* A row whose version stays keeps its state, once it is there.
LEMMA VersionTells ==
    ASSUME Tracked, [TrialNext]_demoVars, NEW p \in Op, state[p] # "absent"
    PROVE  /\ version[p] \in Nat
           /\ \/ version'[p] = version[p] /\ state'[p] = state[p]
              \/ version'[p] = version[p] + 1
<1>0. Fencing /\ TypeOK /\ version \in [Op -> Nat] /\ version[p] \in Nat
      /\ state \in [Op -> State \union {"absent"}]
    BY DEF Tracked, Coordinating, Fencing, TypeOK
<1> USE DEF scheduleCols, leaseCols, claimTables
<1>1. CASE UNCHANGED storeVars
    BY <1>0, <1>1 DEF storeVars
<1>2. ASSUME NEW o \in Op, Prepare(o) \/ AuthorizeDispatch(o, copy.version)
      PROVE  \/ version'[p] = version[p] /\ state'[p] = state[p]
             \/ version'[p] = version[p] + 1
    BY <1>0, <1>2 DEF Prepare, AuthorizeDispatch, MoveVersion
<1>3. ASSUME NEW v, RequestReconciliation(trial, v)
      PROVE  \/ version'[p] = version[p] /\ state'[p] = state[p]
             \/ version'[p] = version[p] + 1
    BY <1>0, <1>3 DEF RequestReconciliation, MoveVersion
<1>4. ASSUME NEW batch, ClaimRecovery(batch, MaxTtl)
      PROVE  \/ version'[p] = version[p] /\ state'[p] = state[p]
             \/ version'[p] = version[p] + 1
    BY <1>0, <1>4 DEF ClaimRecovery
<1>5. ASSUME NEW v, SubmitRecoveryResult(v.op, v.attempt, v.attempt, Expected(v), v.ob)
      PROVE  \/ version'[p] = version[p] /\ state'[p] = state[p]
             \/ version'[p] = version[p] + 1
  <2>1. /\ version' = [version EXCEPT ![v.op] = @ + 1]
        /\ \E s : state' = [state EXCEPT ![v.op] = s]
    BY <1>5 DEF SubmitRecoveryResult, MoveVersion
  <2> QED BY <1>0, <2>1
<1>6. ASSUME NEW o \in Op, ClockTick(o) PROVE UNCHANGED <<state, version>>
    BY <1>6 DEF ClockTick, GraceElapses, ScheduleDue, LeaseAges
<1> QED BY <1>0, <1>1, <1>2, <1>3, <1>4, <1>5, <1>6, StoreCases

LEMMA HaltedStep == Tracked /\ [TrialNext]_demoVars => Halted'
<1> SUFFICES ASSUME Tracked, [TrialNext]_demoVars PROVE Halted'
    OBVIOUS
<1>0. Fencing /\ TypeOK /\ TypeOK' /\ Halted /\ Coordinating /\ Copied /\ TrialTypeOK
    BY SurroundingsStep DEF Tracked, Coordinating, Fencing
<1> USE DEF scheduleCols, leaseCols, claimTables
<1>1. CASE UNCHANGED storeVars
    BY <1>0, <1>1 DEF storeVars, Halted
<1>2. ASSUME NEW o \in Op, Prepare(o) \/ AuthorizeDispatch(o, copy.version) PROVE Halted'
  <2>1. UNCHANGED <<due, claims>> /\ \A p \in Op : state'[p] = "uncertain" => state[p] = "uncertain"
    BY <1>0, <1>2 DEF Prepare, AuthorizeDispatch, TypeOK
  <2> QED BY <1>0, <2>1 DEF Halted
<1>3. CASE /\ step = "request" /\ ~Sender /\ trial \in Op
           /\ RequestReconciliation(trial, copy.version)
  <2>1. state[trial] # "uncertain"
    BY <1>0, <1>3 DEF RequestReconciliation, Copied, Sender, TrialTypeOK
  <2>2. UNCHANGED <<state, claims>> /\ \A p \in Op : p # trial => due'[p] = due[p]
    BY <1>0, <1>3 DEF RequestReconciliation, TypeOK
  <2> QED BY <1>0, <2>1, <2>2 DEF Halted
<1>4. ASSUME NEW batch \in SUBSET Op, ClaimRecovery(batch, MaxTtl) PROVE Halted'
  <2>1. UNCHANGED <<state, due>>
    BY <1>4 DEF ClaimRecovery
  <2>2. ASSUME NEW p \in Op, NEW n \in 1..Len(claims'[p])
        PROVE  claims'[p][n].state = "prepared"
    <3>1. CASE p \in batch
      <4>1. state[p] = "prepared"
        BY <1>0, <1>4, <3>1 DEF ClaimRecovery, Eligible, Halted
      <4> DEFINE new == [version |-> version[p] + 1, state |-> state[p],
                         authorized |-> authorized[p]]
      <4>2. claims'[p] = Append(claims[p], new)
        BY <1>4, <3>1 DEF ClaimRecovery
      <4>3. claims[p] \in Seq(Claim) /\ new \in Claim /\ Len(claims[p]) \in Nat
        BY <1>0, <1>4, <3>1, EligibleState, LenProperties DEF ClaimRecovery, TypeOK
      <4>4. new.state = "prepared"
        BY <4>1
      <4> HIDE DEF new
      <4>5. /\ Len(claims'[p]) = Len(claims[p]) + 1
            /\ \A i \in 1..Len(claims[p]) : claims'[p][i] = claims[p][i]
            /\ claims'[p][Len(claims[p]) + 1] = new
        BY <4>2, <4>3, AppendProperties
      <4>6. n \in 1..Len(claims[p]) \/ n = Len(claims[p]) + 1
        BY <4>3, <4>5
      <4> QED BY <1>0, <4>4, <4>5, <4>6 DEF Halted
    <3>2. CASE p \notin batch
      <4>1. claims'[p] = claims[p]
        BY <1>4, <3>2 DEF ClaimRecovery
      <4> QED BY <1>0, <4>1, <2>2 DEF Halted
    <3> QED BY <3>1, <3>2
  <2> QED BY <1>0, <2>1, <2>2 DEF Halted
<1>5. ASSUME NEW v \in Verdict, v.attempt \in 1..Len(claims[v.op]),
             SubmitRecoveryResult(v.op, v.attempt, v.attempt, Expected(v), v.ob)
      PROVE  Halted'
    BY <1>0, <1>5, AnswersPrepared DEF Halted
<1>6. ASSUME NEW o \in Op, ClockTick(o) PROVE Halted'
  <2>1. UNCHANGED <<state, claims>> /\ \A p \in Op : due[p] = "null" => due'[p] = "null"
    BY <1>0, <1>6 DEF ClockTick, GraceElapses, ScheduleDue, LeaseAges, TypeOK
  <2> QED BY <1>0, <2>1 DEF Halted
<1> QED BY <1>1, <1>2, <1>3, <1>4, <1>5, <1>6, StoreCases

-----------------------------------------------------------------------------
(* One request for each operation ID                                        *)

\* A step that sends nothing and ends no request keeps the count, if the process
\* does not move past its request.
LEMMA SentQuietly ==
    ASSUME SentOnce, UNCHANGED <<serviceVars, trial, life>>,
           \/ step' = step
           \/ step' \in {"request", "poll", "crashed"}
           \/ step = "begin" /\ step' \in {"authorize", "send"}
           \/ step = "authorize" /\ step' = "send"
           \/ ~Sender
    PROVE  SentOnce'
BY DEF SentOnce, Untouched, Pending, Delivered, Sender, Blind, Subject, serviceVars

LEMMA SentStep == Tracked /\ [TrialNext]_demoVars => SentOnce'
<1> SUFFICES ASSUME Tracked, [TrialNext]_demoVars PROVE SentOnce'
    OBVIOUS
<1>0. /\ TrialTypeOK /\ SentOnce /\ GrantUsed /\ Killed /\ ServiceTypeOK
      /\ Protected \subseteq Op /\ "blind_retry" \notin Protected
      /\ life \in {1, 2}
    BY DemoAssumption DEF Tracked, TrialTypeOK
<1>1. CASE BeginsBlind
    BY <1>0, <1>1, SentQuietly DEF BeginsBlind, Does
<1>2. ASSUME NEW o \in Protected, BeginsProtected(o) PROVE SentOnce'
  <2>1. ~Blind
    BY <1>0, <1>2 DEF BeginsProtected, Blind
  <2>2. step = "begin" /\ UNCHANGED <<serviceVars, trial, life>> /\ (step' = "authorize" \/ ~Sender)
    BY <1>0, <1>2, <2>1 DEF BeginsProtected, Decides, Does, Sender
  <2> QED BY <1>0, <2>2, SentQuietly
<1>3. ASSUME NEW o \in Protected, AsksToSend(o) PROVE SentOnce'
  <2>1. /\ step = "authorize" /\ step' \in {"send", "crashed", "request"}
        /\ UNCHANGED <<serviceVars, trial, life>>
    BY <1>3 DEF AsksToSend, Does
  <2> QED BY <1>0, <2>1, SentQuietly
<1>4. CASE SendsEmail
  <2>1. /\ step = "send" /\ step' = "await" /\ Accept(Subject, copy.version)
        /\ UNCHANGED <<trial, life>>
    BY <1>4 DEF SendsEmail, Does
  <2>2. Sender /\ Untouched(Subject)
    BY <1>0, <2>1 DEF GrantUsed, SentOnce
  <2>3. Subject \in Op /\ UNCHANGED <<Subject, Blind>>
    BY <1>0, <2>1, Subjects DEF Subject, Blind
  <2>4. /\ Pending(Subject)'
        /\ \A p \in Op : p # Subject /\ Untouched(p) => Untouched(p)'
        /\ \A p \in Op : p # Subject /\ Delivered(p) => Delivered(p)'
    BY <2>1, <2>2, <2>3, SendsOne
  <2>5. Blind /\ life = 2 => BlindSend[1] \in Op /\ BlindSend[1] # Subject
    BY <1>0, Subjects DEF Subject
  <2> QED BY <1>0, <2>1, <2>2, <2>3, <2>4, <2>5 DEF SentOnce, Sender
<1>5. CASE HearsOfEmail
  <2>1. PICK c \in calls :
            /\ c.op = Subject /\ Finish(c)
            /\ step' = "crashed" \/ c.receipt # 0
    BY <1>5 DEF HearsOfEmail, Does
  <2>2. step = "await" /\ UNCHANGED <<trial, life>> /\ step' \in {"crashed", "hanging", "finished"}
    BY <1>5 DEF HearsOfEmail, Does
  <2>3. Sender /\ Pending(Subject)
    BY <1>0, <2>2 DEF GrantUsed, SentOnce
  <2>4. Subject \in Op /\ UNCHANGED <<Subject, Blind>> /\ (Blind => BlindSend[1] \in Op)
    BY <1>0, <2>2, Subjects DEF Subject, Blind
  <2>5. /\ step' # "crashed" => Delivered(Subject)'
        /\ \A p \in Op : Untouched(p) => Untouched(p)'
        /\ \A p \in Op : Delivered(p) => Delivered(p)'
    BY <2>1, <2>3, <2>4, EndsOne
  <2> QED BY <1>0, <2>2, <2>3, <2>4, <2>5 DEF SentOnce, Sender
<1>6. CASE AsksToReconcile \/ AwaitsRecovery
  <2>1. ~Sender /\ UNCHANGED <<serviceVars, trial, life>>
    BY <1>0, <1>6 DEF AsksToReconcile, AwaitsRecovery, Does, GrantUsed
  <2> QED BY <1>0, <2>1, SentQuietly
<1>7. CASE ProcessFails
    BY <1>0, <1>7, SentQuietly DEF ProcessFails, Does
<1>8. CASE TakesPhase
  <2>1. UNCHANGED <<serviceVars, trial>>
    BY <1>8 DEF TakesPhase
  <2>2. CASE UNCHANGED processVars
    BY <1>0, <2>1, <2>2, SentQuietly DEF processVars
  <2>3. CASE controller = "waiting" /\ Head(reached) = "committed" /\ KillsAndRestarts
    <3>1. Told("committed")
        BY <1>0, <1>8, <2>3, TakesOne DEF TakesPhase, TrialTypeOK
    <3>2. life = 1 /\ step = "hanging" /\ life' = 2 /\ step' = "begin"
        BY <1>0, <2>3, <3>1 DEF Killed, KillsAndRestarts
    <3>3. Delivered(Subject) /\ \A p \in Op : p # Subject => Untouched(p)
        BY <1>0, <3>2 DEF SentOnce, Sender
    <3>4. /\ UNCHANGED Blind
          /\ Blind => Subject = BlindSend[1] /\ Subject' = BlindSend[2]
          /\ ~Blind => Subject = trial /\ Subject' = trial
        BY <2>1, <3>2 DEF Subject, Blind
    <3>5. \A p : /\ Untouched(p) => Untouched(p)'
                 /\ Delivered(p) => Delivered(p)'
        BY <2>1 DEF serviceVars, Untouched, Delivered
    <3>6. BlindSend[2] \in Op /\ BlindSend[2] # BlindSend[1]
        BY DemoAssumption
    <3> QED BY <2>1, <3>2, <3>3, <3>4, <3>5, <3>6 DEF SentOnce, Sender
  <2> QED BY <1>8, <2>2, <2>3 DEF TakesPhase
<1>9. CASE TakesExit \/ TimesOut
    BY <1>0, <1>9, SentQuietly DEF TakesExit, TimesOut, processVars
<1>10. CASE UNCHANGED <<trialVars, serviceVars>>
    BY <1>0, <1>10, SentQuietly DEF trialVars, processVars
<1>11. ASSUME NEW c \in calls, Commit(c) \/ CommitUnanswered(c) \/ Refuse(c),
              UNCHANGED trialVars
       PROVE  SentOnce'
  <2>1. \A p \in Op : /\ Untouched(p) => Untouched(p)'
                      /\ Pending(p) => Pending(p)'
                      /\ Delivered(p) => Delivered(p)'
    BY <1>0, <1>11, AnswersOnce
  <2>2. UNCHANGED <<trial, life, step>>
    BY <1>11 DEF trialVars, processVars
  <2>3. /\ Subject \in Op /\ BlindSend[1] \in Op /\ (~Blind => trial \in Op)
        /\ UNCHANGED <<Subject, Blind>>
    BY <1>0, <2>2, Subjects DEF Subject, Blind
  <2> QED BY <1>0, <2>1, <2>2, <2>3 DEF SentOnce, Sender
<1> QED BY <1>1, <1>2, <1>3, <1>4, <1>5, <1>6, <1>7, <1>8, <1>9, <1>10, <1>11, TrialCases
        DEF ProcessStep

-----------------------------------------------------------------------------
(* The grant is used up, the process killed at the right moment, and its copy *)
(* of the operation not better than the row.                                 *)

\* What a step may not change for the rest to be kept.
LEMMA TrialStays ==
    ASSUME Tracked, [TrialNext]_demoVars
    PROVE  /\ UNCHANGED <<trial, Blind>>
           /\ ~Blind => trial \in Op /\ (authorized[trial] => authorized'[trial])
<1>0. TrialTypeOK
    BY DEF Tracked
<1>1. UNCHANGED trial
    BY TrialCases DEF ProcessStep, ProcessFails, TakesPhase, TakesExit, TimesOut, BeginsBlind,
        BeginsProtected, Decides, AsksToSend, SendsEmail, HearsOfEmail, AsksToReconcile,
        AwaitsRecovery, Does, trialVars
<1> QED BY <1>0, <1>1, Subjects, RowsKept DEF Blind

\* The moves of the process.
LEMMA Moves ==
    ASSUME Tracked, ProcessStep \/ ProcessFails
    PROVE  /\ UNCHANGED <<life, controllerVars>>
           /\ \/ step' = "crashed"
              \/ step = "begin" /\ Blind /\ step' = "send"
              \/ step = "begin" /\ ~Blind /\ step' = "authorize"
              \/ step = "begin" /\ ~Sender /\ step' = "finished"
              \/ step = "authorize" /\ Sender /\ step' = "send" /\ authorized'[trial]
              \/ step = "authorize" /\ ~Sender /\ step' = "request"
              \/ step = "send" /\ step' = "await"
              \/ step = "await" /\ step' = IF life = 1 THEN "hanging" ELSE "finished"
              \/ step = "request" /\ step' = "poll"
              \/ step = "poll" /\ step' = "finished"
<1>0. /\ TrialTypeOK /\ GrantUsed /\ life \in {1, 2}
      /\ Protected \subseteq Op /\ "blind_retry" \notin Protected
      /\ authorized \in [Op -> BOOLEAN]
    BY DemoAssumption DEF Tracked, TrialTypeOK, Coordinating, Fencing, TypeOK
<1>1. ASSUME NEW o \in Protected, BeginsProtected(o)
      PROVE  /\ UNCHANGED <<life, controllerVars>>
             /\ step = "begin" /\ ~Blind
             /\ step' = "authorize" \/ (step' = "finished" /\ ~Sender)
    BY <1>0, <1>1 DEF BeginsProtected, Decides, Does, Blind, Sender
<1>2. ASSUME NEW o \in Protected, AsksToSend(o)
      PROVE  /\ UNCHANGED <<life, controllerVars>>
             /\ step = "authorize"
             /\ \/ step' = "crashed"
                \/ Sender /\ step' = "send" /\ authorized'[trial]
                \/ ~Sender /\ step' = "request"
  <2>1. o \in Op /\ ~Blind /\ trial = o /\ step = "authorize"
    BY <1>0, <1>2 DEF AsksToSend, Blind
  <2>2. CASE AuthorizeDispatch(o, copy.version)
    <3>1. ~authorized[o] /\ authorized'[o]
        BY <1>0, <2>1, <2>2 DEF AuthorizeDispatch, MayAuthorize
    <3>2. life = 1
        BY <1>0, <2>1, <3>1 DEF GrantUsed
    <3>3. ~(life = 2) /\ MayAuthorize(o, copy.version)
        BY <2>2, <3>2 DEF AuthorizeDispatch
    <3> QED BY <1>2, <2>1, <3>1, <3>2, <3>3 DEF AsksToSend, Does, Sender
  <2>3. CASE ~AuthorizeDispatch(o, copy.version)
    BY <1>0, <1>2, <2>1, <2>3 DEF AsksToSend, Does, Sender
  <2> QED BY <2>2, <2>3
<1>3. CASE BeginsBlind \/ SendsEmail
    BY <1>3 DEF BeginsBlind, SendsEmail, Does
<1>4. CASE HearsOfEmail
    BY <1>4 DEF HearsOfEmail, Does
<1>5. CASE AsksToReconcile \/ AwaitsRecovery \/ ProcessFails
    BY <1>5 DEF AsksToReconcile, AwaitsRecovery, ProcessFails, Does
<1> QED BY <1>1, <1>2, <1>3, <1>4, <1>5 DEF ProcessStep

\* The controller kills a process whose effect is committed, which waits for it.
LEMMA Kills ==
    ASSUME Tracked, TakesPhase, ~UNCHANGED processVars
    PROVE  /\ controller = "waiting" /\ life = 1 /\ step = "hanging"
           /\ KillsAndRestarts
<1>0. TrialTypeOK /\ Killed
    BY DEF Tracked
<1>1. controller = "waiting" /\ Head(reached) = "committed" /\ KillsAndRestarts
    BY DEF TakesPhase
<1>2. Told("committed")
    BY <1>0, <1>1, TakesOne DEF TakesPhase, TrialTypeOK
<1> QED BY <1>0, <1>1, <1>2 DEF Killed

LEMMA GrantUsedStep == Tracked /\ [TrialNext]_demoVars => GrantUsed'
<1> SUFFICES ASSUME Tracked, [TrialNext]_demoVars PROVE GrantUsed'
    OBVIOUS
<1>0. GrantUsed /\ life \in {1, 2}
    BY DEF Tracked, TrialTypeOK
<1>1. /\ UNCHANGED <<trial, Blind>>
      /\ ~Blind => trial \in Op /\ (authorized[trial] => authorized'[trial])
    BY TrialStays
<1>2. CASE ProcessStep \/ ProcessFails
    BY <1>0, <1>1, <1>2, Moves DEF GrantUsed, Sender
<1>3. CASE TakesPhase /\ ~UNCHANGED processVars
  <2>1. step = "hanging" /\ life' = 2 /\ step' = "begin"
    BY <1>3, Kills DEF KillsAndRestarts
  <2> QED BY <1>0, <1>1, <2>1 DEF GrantUsed, Sender
<1>4. CASE UNCHANGED life /\ step' \in {step, "crashed"}
    BY <1>0, <1>1, <1>4 DEF GrantUsed, Sender
<1> QED BY <1>2, <1>3, <1>4, TrialCases DEF TakesExit, TimesOut, trialVars, processVars

LEMMA KilledStep == Tracked /\ [TrialNext]_demoVars => Killed'
<1> SUFFICES ASSUME Tracked, [TrialNext]_demoVars PROVE Killed'
    OBVIOUS
<1>0. Killed /\ TrialTypeOK /\ life \in {1, 2} /\ reached \in Seq(Phase)
    BY DEF Tracked, TrialTypeOK
<1>1. CASE ProcessStep \/ ProcessFails
  <2>1. UNCHANGED <<life, controller>> /\ step # "hanging"
    BY <1>1, Moves DEF controllerVars, ProcessStep, ProcessFails, Runs, BeginsBlind,
       BeginsProtected, AsksToSend, SendsEmail, HearsOfEmail, AsksToReconcile, AwaitsRecovery
  <2>2. Told("committed")' => Told("committed") \/ (step' = IF life = 1 THEN "hanging" ELSE "finished")
    <3>1. CASE HearsOfEmail
        BY <1>0, <3>1, TellsNone DEF HearsOfEmail, Does, Told
    <3>2. ASSUME NEW q \in Phase, q # "committed", reached' = reached \o <<q>>
          PROVE  Told("committed")' => Told("committed")
        BY <1>0, <3>2, TellsOne
    <3>3. reached' = reached \o << >> => (Told("committed")' => Told("committed"))
        BY <1>0, TellsNone DEF Told
    <3>4. {"prepared", "authorized", "refused", "verifying", "reconciled", "uncertain",
           "already-reconciled", "already-confirmed", "already-uncertain"} \subseteq Phase
        BY DEF Phase
    <3>5. CASE \E o \in Protected : BeginsProtected(o)
        BY <3>2, <3>3, <3>4, <3>5 DEF BeginsProtected, Decides, Does
    <3>6. CASE \E o \in Protected : AsksToSend(o)
        BY <3>2, <3>3, <3>4, <3>6 DEF AsksToSend, Does
    <3>7. CASE BeginsBlind \/ SendsEmail \/ ProcessFails
        BY <3>3, <3>7 DEF BeginsBlind, SendsEmail, ProcessFails, Does
    <3>8. CASE AsksToReconcile \/ AwaitsRecovery
        BY <3>2, <3>3, <3>4, <3>8 DEF AsksToReconcile, AwaitsRecovery, Does
    <3> QED BY <1>1, <3>1, <3>5, <3>6, <3>7, <3>8 DEF ProcessStep
  <2> QED BY <1>0, <2>1, <2>2 DEF Killed
<1>2. CASE TakesPhase
  <2>1. Told("committed")' => Told("committed")
    BY <1>0, <1>2, TakesOne DEF TakesPhase
  <2>2. CASE UNCHANGED processVars
    BY <1>0, <1>2, <2>1, <2>2 DEF Killed, TakesPhase, processVars, controllerVars, KillsAndRestarts
  <2>3. CASE ~UNCHANGED processVars
    BY <1>2, <2>3, Kills DEF Killed, KillsAndRestarts
  <2> QED BY <2>2, <2>3
<1>3. CASE TakesExit
    BY <1>0, <1>3 DEF TakesExit, Killed, processVars
<1>4. CASE TimesOut
    BY <1>0, <1>4 DEF TimesOut, Killed
<1>5. CASE UNCHANGED trialVars
    BY <1>0, <1>5 DEF trialVars, processVars, controllerVars, Killed, Told
<1> QED BY <1>1, <1>2, <1>3, <1>4, <1>5, TrialCases

LEMMA CopiedStep == Tracked /\ [TrialNext]_demoVars => Copied'
<1> SUFFICES ASSUME Tracked, [TrialNext]_demoVars PROVE Copied'
    OBVIOUS
<1>0. /\ Copied /\ GrantUsed /\ TrialTypeOK /\ copy \in Copy /\ copy.version \in Nat
      /\ Protected \subseteq Op /\ "blind_retry" \notin Protected /\ life \in {1, 2}
      /\ TypeOK /\ TypeOK'
    BY SurroundingsStep, DemoAssumption DEF Tracked, TrialTypeOK, Copy, Coordinating, Fencing
<1>1. UNCHANGED <<trial, Blind>>
    BY TrialStays
<1>2. ASSUME step \in {"authorize", "request"}, UNCHANGED copy, UNCHANGED life
      PROVE  Copied'
  <2>1. ~Blind
    BY <1>0, <1>2 DEF GrantUsed, Sender
  <2>2. trial \in Op /\ state[trial] # "absent" /\ state'[trial] # "absent"
    BY <1>0, <1>2, <2>1, Subjects, RowsKept DEF Copied
  <2>3. /\ version[trial] \in Nat
        /\ \/ version'[trial] = version[trial] /\ state'[trial] = state[trial]
           \/ version'[trial] = version[trial] + 1
    BY <2>2, VersionTells
  <2> QED BY <1>0, <1>1, <1>2, <2>2, <2>3 DEF Copied
<1>3. ASSUME NEW o \in Protected, BeginsProtected(o) PROVE Copied'
  <2>1. o \in Op /\ trial = o /\ trial' = o
    BY <1>0, <1>1, <1>3 DEF BeginsProtected
  <2>2. PICK h \in Copy :
            /\ Decides(h)
            /\ h.state = state'[o] /\ h.version = version'[o] /\ state'[o] # "absent"
    <3>1. CASE Prepare(o) /\ Decides(Held(o)')
        <4>1. state'[o] = "prepared"
            BY <1>0, <2>1, <3>1 DEF Prepare, TypeOK
        <4>2. Held(o)' \in Copy /\ Held(o)'.state = state'[o] /\ Held(o)'.version = version'[o]
            BY <1>0, <2>1 DEF TypeOK, Held, Copy
        <4> QED BY <3>1, <4>1, <4>2
    <3>2. CASE state[o] # "absent" /\ Decides(Held(o)) /\ UNCHANGED storeVars
        <4>1. Held(o) \in Copy /\ Held(o).state = state[o] /\ Held(o).version = version[o]
            BY <1>0, <2>1 DEF TypeOK, Held, Copy
        <4>2. UNCHANGED <<state, version>>
            BY <3>2 DEF storeVars
        <4> QED BY <3>2, <4>1, <4>2
    <3> QED BY <1>3, <3>1, <3>2 DEF BeginsProtected
  <2>3. /\ copy' = h /\ life' = life
        /\ step' \in {"authorize", "request"} /\ life = 2 => h.state # "uncertain"
    BY <1>0, <2>2 DEF Decides, Does
  <2>4. version'[o] \in Nat
    BY <1>0, <2>1 DEF TypeOK
  <2> QED BY <2>1, <2>2, <2>3, <2>4 DEF Copied
<1>4. CASE /\ ProcessStep \/ ProcessFails
           /\ ~\E o \in Protected : BeginsProtected(o)
           /\ step' \in {"authorize", "request"}
  <2>1. PICK o \in Protected : AsksToSend(o)
    BY <1>4 DEF ProcessStep, ProcessFails, BeginsBlind, SendsEmail, HearsOfEmail,
                AsksToReconcile, AwaitsRecovery, Does
  <2>2. step = "authorize" /\ UNCHANGED life /\ UNCHANGED copy
    BY <1>4, <2>1 DEF AsksToSend, Does
  <2> QED BY <1>2, <2>2
<1>5. CASE TakesPhase /\ ~UNCHANGED processVars
    BY <1>5, Kills DEF KillsAndRestarts, Copied
<1>6. CASE UNCHANGED <<life, copy>> /\ step' \in {step, "crashed"}
    BY <1>2, <1>6 DEF Copied
<1>7. step' \notin {"authorize", "request"} => Copied'
    BY DEF Copied
<1> QED BY <1>3, <1>4, <1>5, <1>6, <1>7, TrialCases
        DEF ProcessStep, TakesExit, TimesOut, trialVars, processVars

-----------------------------------------------------------------------------
(* What is told and shown is true.                                          *)

\* Phases that say how the operation ended are told when it has ended so.
LEMMA TellsTruth ==
    ASSUME Tracked, [TrialNext]_demoVars
    PROVE  /\ Told("reconciled")' \/ Told("already-reconciled")' => Reconciled'
           /\ Told("uncertain")' \/ Told("already-uncertain")' => LeftUncertain'
<1>0. /\ Truthful /\ GrantUsed /\ TrialTypeOK /\ reached \in Seq(Phase)
      /\ Protected \subseteq Op /\ "blind_retry" \notin Protected
      /\ TypeOK
    BY DemoAssumption DEF Tracked, TrialTypeOK, Coordinating, Fencing
<1>1. UNCHANGED Blind /\ UNCHANGED trial
    BY TrialStays
<1>2. (Reconciled => Reconciled') /\ (LeftUncertain => LeftUncertain')
    BY <1>1, TrialStays, RowsKept DEF Reconciled, LeftUncertain
<1> DEFINE Ends == {"reconciled", "already-reconciled", "uncertain", "already-uncertain"}
<1>3. ASSUME \A q \in Ends : Told(q)' => Told(q)
      PROVE  /\ Told("reconciled")' \/ Told("already-reconciled")' => Reconciled'
             /\ Told("uncertain")' \/ Told("already-uncertain")' => LeftUncertain'
    BY <1>0, <1>2, <1>3 DEF Truthful
<1>4. ASSUME NEW q \in Phase, reached' = reached \o <<q>>, q \notin Ends
      PROVE  \A e \in Ends : Told(e)' => Told(e)
    BY <1>0, <1>4, TellsOne
<1>5. reached' = reached \o << >> \/ UNCHANGED reached => \A e \in Ends : Told(e)' => Told(e)
    BY <1>0, TellsNone DEF Told
<1>6. ASSUME NEW q \in Phase, reached' = reached \o <<q>>,
             q \in {"reconciled", "already-reconciled"} => Reconciled',
             q \in {"uncertain", "already-uncertain"} => LeftUncertain'
      PROVE  /\ Told("reconciled")' \/ Told("already-reconciled")' => Reconciled'
             /\ Told("uncertain")' \/ Told("already-uncertain")' => LeftUncertain'
  <2>1. \A e : Told(e)' => Told(e) \/ e = q
    BY <1>0, <1>6, TellsOne
  <2> QED BY <1>0, <1>2, <1>6, <2>1 DEF Truthful
<1>7. {"prepared", "authorized", "committed", "refused", "verifying", "reconciled", "uncertain",
       "already-reconciled", "already-confirmed", "already-uncertain"} \subseteq Phase
    BY DEF Phase
<1>8. ASSUME NEW o \in Protected, BeginsProtected(o)
      PROVE  /\ Told("reconciled")' \/ Told("already-reconciled")' => Reconciled'
             /\ Told("uncertain")' \/ Told("already-uncertain")' => LeftUncertain'
  <2>1. o \in Op /\ trial' = o /\ ~Blind'
    BY <1>0, <1>1, <1>8 DEF BeginsProtected, Blind
  <2>2. PICK h : Decides(h) /\ h.state = state'[o]
    <3>1. Held(o).state = state[o] /\ Held(o)'.state = state'[o]
        BY DEF Held
    <3> QED BY <1>8, <3>1 DEF BeginsProtected, storeVars
  <2>3. h.state = "reconciled" => Reconciled'
    BY <2>1, <2>2 DEF Reconciled
  <2>4. h.state = "uncertain" => LeftUncertain'
    BY <2>1, <2>2 DEF LeftUncertain
  <2>5. \/ reached' = reached \o << >>
        \/ reached' = reached \o <<"prepared">>
        \/ reached' = reached \o <<"already-confirmed">>
        \/ reached' = reached \o <<"already-reconciled">> /\ h.state = "reconciled"
        \/ reached' = reached \o <<"already-uncertain">> /\ h.state = "uncertain"
    BY <2>2 DEF Decides, Does
  <2> QED BY <1>3, <1>5, <1>6, <1>7, <2>3, <2>4, <2>5
<1>9. ASSUME NEW o \in Protected, AsksToSend(o) PROVE \A e \in Ends : Told(e)' => Told(e)
  <2>1. \/ reached' = reached \o << >>
        \/ reached' = reached \o <<"authorized">>
        \/ reached' = reached \o <<"refused">>
    BY <1>9 DEF AsksToSend, Does
  <2> QED BY <1>4, <1>5, <1>7, <2>1
<1>10. CASE HearsOfEmail \/ AsksToReconcile
  <2>1. \/ reached' = reached \o << >>
        \/ reached' = reached \o <<"committed">>
        \/ reached' = reached \o <<"verifying">>
    BY <1>10 DEF HearsOfEmail, AsksToReconcile, Does
  <2> QED BY <1>3, <1>4, <1>5, <1>7, <2>1
<1>11. CASE AwaitsRecovery
  <2>1. ~Blind
    BY <1>0, <1>11 DEF AwaitsRecovery, GrantUsed, Sender
  <2>2. UNCHANGED state
    BY <1>11 DEF AwaitsRecovery, storeVars
  <2>3. \/ reached' = reached \o << >>
        \/ state[trial] = "reconciled" /\ reached' = reached \o <<"reconciled">>
        \/ state[trial] = "uncertain" /\ reached' = reached \o <<"uncertain">>
    BY <1>11 DEF AwaitsRecovery, Does
  <2>4. /\ state[trial] = "reconciled" => Reconciled'
        /\ state[trial] = "uncertain" => LeftUncertain'
    BY <1>1, <2>1, <2>2 DEF Reconciled, LeftUncertain
  <2> QED BY <1>3, <1>5, <1>6, <1>7, <2>3, <2>4
<1>12. BeginsBlind \/ SendsEmail \/ ProcessFails => \A e \in Ends : Told(e)' => Told(e)
    BY <1>5 DEF BeginsBlind, SendsEmail, ProcessFails, Does
<1>13. TakesPhase => \A e \in Ends : Told(e)' => Told(e)
    BY <1>0, TakesOne DEF TakesPhase
<1>14. CASE TakesExit
  <2>1. UNCHANGED reached \/ reached' = << >>
    BY <1>14 DEF TakesExit
  <2>2. reached' = << >> => \A e \in Ends : ~Told(e)'
    BY EmptySeq DEF Told
  <2> QED BY <1>3, <1>5, <2>1, <2>2
<1>15. TimesOut \/ UNCHANGED trialVars => UNCHANGED reached
    BY DEF TimesOut, trialVars
<1> QED BY <1>3, <1>5, <1>8, <1>9, <1>10, <1>11, <1>12, <1>13, <1>14, <1>15, TrialCases
        DEF ProcessStep

LEMMA TruthfulStep == Tracked /\ [TrialNext]_demoVars => Truthful'
<1> SUFFICES ASSUME Tracked, [TrialNext]_demoVars PROVE Truthful'
    OBVIOUS
<1>0. Truthful /\ TrialTypeOK
    BY DEF Tracked
<1>1. UNCHANGED Blind /\ (Reconciled => Reconciled') /\ (LeftUncertain => LeftUncertain')
    BY TrialStays, RowsKept DEF Reconciled, LeftUncertain
<1>2. CASE UNCHANGED summary
    BY <1>0, <1>1, <1>2, TellsTruth DEF Truthful
<1>3. CASE TakesPhase /\ summary' = Summary(Head(reached))
  <2>1. Told(Head(reached))
    BY <1>0, <1>3, TakesOne DEF TakesPhase, TrialTypeOK
  <2>2. \/ summary' = "duplicate effect" /\ Blind
        \/ summary' = "reconciled" /\ Reconciled
        \/ summary' = "halted as uncertain" /\ LeftUncertain
        \/ summary' = "confirmed"
        \/ summary' = summary
    BY <1>0, <1>3, <2>1 DEF Summary, Truthful
  <2> QED BY <1>0, <1>1, <2>2, TellsTruth DEF Truthful
<1>4. ProcessStep \/ ProcessFails => UNCHANGED summary
    BY Moves DEF controllerVars
<1> QED BY <1>2, <1>3, <1>4, TrialCases
        DEF TakesPhase, TakesExit, TimesOut, KillsAndRestarts, trialVars, controllerVars

\* When the second process has finished, the ledger holds one email for each
\* process that sent one.
LEMMA EmailsCount ==
    ASSUME TrialTypeOK, SentOnce, life = 2, step = "finished"
    PROVE  Emails = IF Blind THEN 2 ELSE 1
<1> DEFINE same == {p \in Op : ContentOf[p] = ContentOf[Subject]}
           rows == UNION {{p} \X (1..effects[p]) : p \in same}
<1>0. Emails = Cardinality(rows)
    BY DEF Emails
<1>1. Subject \in Op /\ Subject \in same
    BY Subjects
<1>2. 1..0 = {} /\ 1..1 = {1}
    OBVIOUS
<1>3. CASE ~Blind
  <2>1. effects[Subject] = 1 /\ \A p \in same : p # Subject => effects[p] = 0
    BY <1>3, Subjects DEF SentOnce, Delivered, Untouched
  <2>2. rows = {<<Subject, 1>>}
    BY <1>1, <1>2, <2>1
  <2> HIDE DEF rows
  <2> QED BY <1>0, <1>3, <2>2, FS_Singleton
<1>4. CASE Blind
  <2> DEFINE one == BlindSend[1]
             two == BlindSend[2]
  <2>1. Subject = two /\ one \in Op /\ one # two /\ one \in same /\ two \in same
    BY <1>1, <1>4, DemoAssumption DEF Subject
  <2>2. /\ effects[one] = 1 /\ effects[two] = 1
        /\ \A p \in same : p # one /\ p # two => effects[p] = 0
    BY <1>4, <2>1 DEF SentOnce, Sender, Delivered, Untouched
  <2>3. rows = {<<one, 1>>} \union {<<two, 1>>}
    BY <1>2, <2>1, <2>2
  <2>4. <<two, 1>> \notin {<<one, 1>>}
    BY <2>1
  <2>5. IsFiniteSet({<<one, 1>>}) /\ Cardinality({<<one, 1>>}) = 1
    BY FS_Singleton
  <2>6. Cardinality({<<one, 1>>} \union {<<two, 1>>}) = 1 + 1
    BY <2>4, <2>5, FS_AddElement
  <2> HIDE DEF rows
  <2> QED BY <1>0, <1>4, <2>3, <2>6
<1> QED BY <1>3, <1>4

LEMMA CountsStep == Tracked /\ [TrialNext]_demoVars => TrialCounts'
<1> SUFFICES ASSUME Tracked, [TrialNext]_demoVars PROVE TrialCounts'
    OBVIOUS
<1>0. TrialCounts /\ TrialTypeOK /\ SentOnce /\ Killed
    BY DEF Tracked
<1>1. UNCHANGED Blind
    BY TrialStays
<1>2. CASE UNCHANGED controllerVars
    BY <1>0, <1>1, <1>2 DEF TrialCounts, controllerVars
<1>3. CASE controller' # "shown"
    BY <1>3 DEF TrialCounts
<1>4. CASE TakesExit /\ controller' = "shown"
  <2>1. controller = "watching" /\ step = "finished" /\ committed' = Emails
    BY <1>4 DEF TakesExit
  <2>2. Emails = IF Blind THEN 2 ELSE 1
    BY <1>0, <2>1, EmailsCount DEF Killed
  <2> QED BY <1>1, <2>1, <2>2 DEF TrialCounts
<1>5. CASE TakesPhase /\ ~UNCHANGED controllerVars
    BY <1>5 DEF TakesPhase, KillsAndRestarts, TrialCounts
<1>6. ProcessStep \/ ProcessFails => UNCHANGED controllerVars
    BY Moves
<1>7. TimesOut => controller' # "shown"
    BY DEF TimesOut
<1> QED BY <1>2, <1>3, <1>4, <1>5, <1>6, <1>7, TrialCases DEF trialVars

LEMMA TrackedInit == DemoInit => Tracked
<1> SUFFICES ASSUME DemoInit PROVE Tracked
    OBVIOUS
<1>0. Init /\ ServiceInit /\ CoordinatorInit /\ TrialInit /\ reached = << >>
    BY DEF DemoInit, TrialInit
<1>1. Coordinating
    BY <1>0, CoordinatingInit
<1>2. ServiceTypeOK
    BY <1>0, ServiceTypeInit
<1>3. TrialTypeOK
  <2>1. reached \in Seq(Phase)
    BY <1>0, EmptySeq
  <2> QED BY <1>0, <2>1 DEF TrialInit, TrialTypeOK, Place, Nothing, Copy
<1>4. \A p : ~Told(p)
    BY <1>0, EmptySeq DEF Told
<1>5. SentOnce
    BY <1>0, <1>3, Subjects DEF SentOnce, Untouched, ServiceInit, TrialInit
<1>6. GrantUsed /\ Copied
  <2>1. step = "begin" /\ life = 1
    BY <1>0 DEF TrialInit
  <2>2. Sender
    BY <2>1 DEF Sender
  <2> QED BY <2>1, <2>2 DEF GrantUsed, Copied
<1>7. Killed
    BY <1>0, <1>4 DEF TrialInit, Killed
<1>8. Truthful /\ TrialCounts
    BY <1>0, <1>4 DEF TrialInit, Truthful, TrialCounts
<1>9. Halted
    BY <1>0, EmptySeq DEF Init, Halted
<1> QED BY <1>1, <1>2, <1>3, <1>5, <1>6, <1>7, <1>8, <1>9 DEF Tracked

\* Each part of the invariant is kept; no part is without the others.
LEMMA TrackedInvariant == DemoSpec => []Tracked
<1>1. Tracked /\ [TrialNext]_demoVars => Tracked'
    BY SurroundingsStep, TrialTypeStep, SentStep, GrantUsedStep, KilledStep, CopiedStep,
       HaltedStep, TruthfulStep, CountsStep DEF Tracked
<1> QED BY <1>1, TrackedInit, PTL DEF DemoSpec

\* The count in the table the demo prints: whatever the killed process, the
\* restarted one, coordinators and delayed requests do, a protected trial that is
\* shown had exactly one email, and a blind one exactly two.
THEOREM TrialsCount == DemoSpec => []TrialCounts
<1>1. Tracked => TrialCounts
    BY DEF Tracked
<1> QED BY <1>1, TrackedInvariant, PTL

\* The outcome in that table: what a restarted process told its controller is
\* still so when it is shown, and a duplicate is only spoken of where it exists.
THEOREM ShownIsTrue == DemoSpec => []ShownIsSo
<1>1. ASSUME Tracked PROVE ShownIsSo
  <2>1. Truthful /\ TrialCounts /\ (~Blind => Subject = trial)
    BY <1>1, Subjects DEF Tracked
  <2> QED BY <2>1 DEF ShownIsSo, Truthful, TrialCounts, Reconciled, LeftUncertain
<1> QED BY <1>1, TrackedInvariant, PTL

\* The demo's process and the coordinators drive the store only as its
\* specification with open callers provides for: what is proved of the store's
\* rows, leases and claims holds in a trial.
THEOREM TrialRefinesStore == DemoSpec => Spec
<1>1. DemoInit => Init
    BY DEF DemoInit
<1> QED BY <1>1, TrackedInvariant, TrialUsesStore, PTL DEF DemoSpec, Spec

\* And they use the service as its specification with open callers provides for.
THEOREM TrialRefinesService == DemoSpec => ServiceSpec
<1>1. DemoInit => ServiceInit
    BY DEF DemoInit
<1>2. Tracked => TrialTypeOK
    BY DEF Tracked
<1> QED BY <1>1, <1>2, TrackedInvariant, TrialUsesService, PTL DEF DemoSpec, ServiceSpec

\* So a trial's rows and leases keep what the store promises, and its messages what
\* the service promises of a key.
THEOREM TrialKeepsPromises ==
    DemoSpec => /\ []ClaimsAreSnapshots
                /\ []OnlyNewestClaimHolds
                /\ []ReceiptIffConfirmed
                /\ TerminalIsFinal
                /\ LifecycleSpec
                /\ []OneEffectPerKey
BY TrialRefinesStore, TrialRefinesService, ClaimsStaySnapshots, NewestClaimHolds,
   ReceiptsMatchStates, FinalStatesAreFinal, ImplementsLifecycle, KeysAreIdempotent, PTL

=============================================================================
