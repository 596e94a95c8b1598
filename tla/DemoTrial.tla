------------------------------ MODULE DemoTrial ------------------------------
(***************************************************************************)
(* cmd/demo: one trial (act) and the process it kills and restarts         *)
(* (worker).  The process reports phases to its controller over a buffered *)
(* channel; the controller kills it when the effect has been committed and *)
(* reads phases and the exit of the second process in one select.  Phases  *)
(* that are only printed are left out.                                     *)
(***************************************************************************)
EXTENDS RecoveryCoordinator

CONSTANTS
    Protected,  \* operations of the trials that use Watchkeeper
    BlindSend   \* the operation ID each process of a blind trial makes up

\* Both processes of a trial send the same message.
ASSUME DemoAssumption ==
    /\ Protected \subseteq Op
    /\ "blind_retry" \notin Protected
    /\ BlindSend[1] \in Op /\ BlindSend[2] \in Op /\ BlindSend[1] # BlindSend[2]
    /\ ContentOf[BlindSend[1]] = ContentOf[BlindSend[2]]
    /\ Grants = Nat

VARIABLES
    trial,      \* "blind_retry", or the operation that is protected
    life,       \* 1 until the process is killed, 2 for the restarted one
    step,       \* what the process does next, or how it ended
    copy,       \* the operation it holds
    reached,    \* the channel
    controller, \* what act does: waits, watches, or has returned
    summary,    \* the outcome it will show
    committed   \* rows counted in the service's ledger

processVars    == <<life, step, copy>>
controllerVars == <<controller, summary, committed>>
trialVars      == <<trial, processVars, reached, controllerVars>>

Blind == trial = "blind_retry"

Subject == IF Blind THEN BlindSend[life] ELSE trial

Held(o) == [state |-> state[o], version |-> version[o], authorized |-> authorized[o]]

Nothing == [state |-> "absent", version |-> 0, authorized |-> FALSE]

TrialInit ==
    /\ trial \in Protected \union {"blind_retry"}
    /\ life = 1
    /\ step = "begin"
    /\ copy = Nothing
    /\ reached = << >>
    /\ controller = "waiting"
    /\ summary = "exactly once"
    /\ committed = 0

-----------------------------------------------------------------------------
(* The process *)

Runs == step \notin {"hanging", "finished", "crashed"}

Does(next, op, phases) ==
    /\ step' = next
    /\ copy' = op
    /\ reached' = reached \o phases
    /\ UNCHANGED <<trial, life, controllerVars>>

BeginsBlind ==
    /\ step = "begin"
    /\ Blind
    /\ Does("send", Nothing, << >>)
    /\ UNCHANGED <<storeVars, serviceVars, coordinatorVars>>

\* A restarted process first looks at what became of its operation.
Decides(op) ==
    IF life = 1 THEN Does("authorize", op, <<"prepared">>)
    ELSE IF op.state = "reconciled" THEN Does("finished", op, <<"already-reconciled">>)
    ELSE IF op.state = "confirmed" THEN Does("finished", op, <<"already-confirmed">>)
    ELSE IF op.state = "uncertain" THEN Does("finished", op, <<"already-uncertain">>)
    ELSE Does("authorize", op, << >>)

BeginsProtected(o) ==
    /\ step = "begin"
    /\ trial = o
    /\ \/ Prepare(o) /\ Decides(Held(o)')
       \/ state[o] # "absent" /\ Decides(Held(o)) /\ UNCHANGED storeVars
    /\ UNCHANGED <<serviceVars, coordinatorVars>>

\* Without BeginRetry the grant for a retryable operation is never given.
AsksToSend(o) ==
    /\ step = "authorize"
    /\ trial = o
    /\ \/ /\ AuthorizeDispatch(o, copy.version)
          /\ Does("send", Held(o)', IF life = 1 THEN <<"authorized">> ELSE << >>)
       \/ /\ ~MayAuthorize(o, copy.version)
          /\ IF life = 1 \/ copy.state = "retryable"
             THEN Does("crashed", copy, << >>)
             ELSE Does("request", copy, <<"refused">>)
          /\ UNCHANGED storeVars
    /\ UNCHANGED <<serviceVars, coordinatorVars>>

SendsEmail ==
    /\ step = "send"
    /\ Accept(Subject, copy.version)
    /\ Does("await", copy, << >>)
    /\ UNCHANGED <<storeVars, coordinatorVars>>

\* The first process then waits to be killed.
HearsOfEmail ==
    /\ step = "await"
    /\ \E c \in calls :
        /\ c.op = Subject
        /\ Finish(c)
        /\ IF c.receipt = 0 THEN Does("crashed", copy, << >>)
           ELSE Does(IF life = 1 THEN "hanging" ELSE "finished", copy, <<"committed">>)
    /\ UNCHANGED <<storeVars, coordinatorVars>>

\* The coordinator may have claimed the row since it was read.
AsksToReconcile ==
    /\ step = "request"
    /\ \/ /\ RequestReconciliation(trial, copy.version)
          /\ Does("poll", copy, <<"verifying">>)
       \/ /\ Held(trial) # copy
          /\ Does("crashed", copy, << >>)
          /\ UNCHANGED storeVars
    /\ UNCHANGED <<serviceVars, coordinatorVars>>

\* Mutant: any change of state is taken for success.
AwaitsChange ==
    /\ step = "poll"
    /\ state[trial] # "prepared"
    /\ Does("finished", copy, <<"reconciled">>)
    /\ UNCHANGED <<storeVars, serviceVars, coordinatorVars>>

AwaitsRecovery ==
    /\ step = "poll"
    /\ state[trial] \in {"reconciled", "uncertain", "retryable"}
    /\ IF state[trial] = "retryable" THEN Does("crashed", copy, << >>)
       ELSE Does("finished", copy, <<state[trial]>>)
    /\ UNCHANGED <<storeVars, serviceVars, coordinatorVars>>

ProcessStep ==
    \/ BeginsBlind
    \/ \E o \in Protected : BeginsProtected(o) \/ AsksToSend(o)
    \/ SendsEmail
    \/ HearsOfEmail
    \/ AsksToReconcile
    \/ AwaitsRecovery

\* A call fails, or the 40 seconds for polling are over.
ProcessFails ==
    /\ Runs
    /\ Does("crashed", copy, << >>)
    /\ UNCHANGED <<storeVars, serviceVars, coordinatorVars>>

-----------------------------------------------------------------------------
(* The controller *)

\* SIGKILL, and at once another process.
KillsAndRestarts ==
    /\ controller' = "watching"
    /\ life' = 2
    /\ step' = "begin"
    /\ copy' = Nothing
    /\ UNCHANGED <<summary, committed>>

Summary(phase) ==
    CASE phase = "committed" /\ Blind -> "duplicate effect"
      [] phase \in {"reconciled", "already-reconciled"} -> "reconciled"
      [] phase \in {"uncertain", "already-uncertain"} -> "halted as uncertain"
      [] phase = "already-confirmed" -> "confirmed"
      [] OTHER -> summary

TakesPhase ==
    /\ reached # << >>
    /\ reached' = Tail(reached)
    /\ \/ /\ controller = "waiting"
          /\ Head(reached) = "committed"
          /\ KillsAndRestarts
       \/ /\ controller = "waiting"
          /\ Head(reached) # "committed"
          /\ UNCHANGED <<processVars, controllerVars>>
       \/ /\ controller = "watching"
          /\ summary' = Summary(Head(reached))
          /\ UNCHANGED <<processVars, controller, committed>>
    /\ UNCHANGED <<trial, storeVars, serviceVars, coordinatorVars>>

\* The ledger is counted by message, whatever operation it was sent under.
Emails ==
    LET same == {p \in Op : ContentOf[p] = ContentOf[Subject]}
    IN  Cardinality(UNION {{p} \X (1..effects[p]) : p \in same})

\* Of a phase and an exit that are both there, select takes either one.  Phases
\* left over after the exit are printed at most.
TakesExit ==
    /\ \/ /\ controller = "watching"
          /\ step = "finished"
          /\ controller' = "shown"
          /\ committed' = Emails
          /\ reached' = << >>
       \/ /\ controller \in {"waiting", "watching"}
          /\ step = "crashed"
          /\ controller' = "failed"
          /\ UNCHANGED <<committed, reached>>
    /\ UNCHANGED <<trial, processVars, summary, storeVars, serviceVars, coordinatorVars>>

\* 30 seconds for the effect, 45 for recovery.
TimesOut ==
    /\ controller \in {"waiting", "watching"}
    /\ controller' = "failed"
    /\ step' = IF controller = "watching" THEN "crashed" ELSE step
    /\ UNCHANGED <<trial, life, copy, reached, summary, committed,
                   storeVars, serviceVars, coordinatorVars>>

-----------------------------------------------------------------------------
(* Coordinator, service and clock, as the programs under cmd meet them: a  *)
(* coordinator that is alive answers while its lease lasts, and only a     *)
(* failed lookup is left of its troubles.                                  *)

CoordinatorActs == (\E c \in Coordinator : CoordinatorStep(c)) /\ UNCHANGED trialVars

ServiceActs ==
    /\ \E c \in calls : Commit(c)
    /\ UNCHANGED <<storeVars, coordinatorVars, trialVars>>

TimePasses ==
    /\ \E o \in Op : \/ GraceElapses(o)
                     \/ ScheduleDue(o)
                     \/ LeaseAges(o) /\ \A c \in Coordinator : ~Holds(c, o, lease[o])
    /\ UNCHANGED <<serviceVars, coordinatorVars, trialVars>>

SurroundingFault ==
    /\ \/ \E c \in Coordinator : VerifiesInVain(c)
       \/ /\ \E c \in calls : CommitUnanswered(c) \/ Refuse(c)
          /\ UNCHANGED <<storeVars, coordinatorVars>>
    /\ UNCHANGED trialVars

TrialNext ==
    \/ (ProcessStep \/ ProcessFails \/ TakesPhase \/ TakesExit \/ TimesOut)
    \/ CoordinatorActs
    \/ ServiceActs
    \/ TimePasses
    \/ SurroundingFault

demoVars == <<trialVars, storeVars, serviceVars, coordinatorVars>>

DemoInit == Init /\ ServiceInit /\ CoordinatorInit /\ TrialInit

\* All of them run on; nothing need ever fail or time out.
DemoSpec ==
    /\ DemoInit
    /\ [][TrialNext]_demoVars
    /\ WF_demoVars(ProcessStep)
    /\ WF_demoVars(TakesPhase \/ TakesExit)
    /\ WF_demoVars(CoordinatorActs)
    /\ WF_demoVars(ServiceActs)
    /\ WF_demoVars(TimePasses)

-----------------------------------------------------------------------------
(* Properties *)

\* The table the demo prints: one email per protected trial, although the process
\* is killed between the effect and its record and the next one asks to send
\* again while a coordinator recovers; two per blind one.
TrialCounts ==
    controller = "shown" => committed = IF Blind THEN 2 ELSE 1

\* The outcome beside the count is never better than the truth: a trial said to
\* be reconciled is, one said to have been halted was, and a duplicate exists.
ShownIsSo ==
    controller = "shown" =>
        /\ summary = "reconciled" => state[Subject] = "reconciled"
        /\ summary = "halted as uncertain" => state[Subject] = "uncertain"
        /\ summary = "duplicate effect" => committed = 2

\* A trial comes to an end without either timeout: what the restarted process
\* asked to be reconciled is claimed and decided, also after failed lookups.
TrialEnds == <>(controller \in {"shown", "failed"})

\* docs/demo.md: the demo "compares blind retry, status-based Watchkeeper
\* recovery, and no-evidence uncertainty": a trial whose operation was left
\* uncertain is shown as such.
UncertaintyIsShown ==
    controller = "shown" /\ state[Subject] = "uncertain"
        => summary = "halted as uncertain"

=============================================================================
