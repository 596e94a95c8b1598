--------------------------- MODULE BenchmarkSuite ---------------------------
(***************************************************************************)
(* The controller of the benchmark, internal/benchmark/runner.go: it works *)
(* off a matrix of trials and may be killed, interrupted or fail between   *)
(* any two writes to the output directory and the database, and be started *)
(* again with resume.  A trial itself is the outcome runTrial returns.     *)
(*                                                                         *)
(* The locks on the directory and in the database let one controller run.  *)
(* Files are put in place by rename, so they are there or not; a line that *)
(* was only partly appended to raw.jsonl, which nobody reads back, counts  *)
(* as there or not, too.                                                   *)
(***************************************************************************)
EXTENDS Naturals, Sequences

CONSTANTS
    Matrix,         \* the trials in the order of the loops, shuffled by the seed
    Asserted,       \* assert_no_duplicate_effects
    MaxExecutions,  \* bound: execution IDs
    MaxStarts       \* bound: how often the program is started

Strategy == {"blind_retry", "idempotency_key_retry", "checkpoint_recovery", "watchkeeper"}
Profile  == {"receipt_status", "idempotency_only", "indirect_unique", "none"}
Scenario == {"none", "before_intent", "before_dispatch", "accepted_before_commit",
             "after_commit", "after_response", "after_persistence", "lost_response",
             "duplicate_delivery", "delayed_commit", "service_unavailable",
             "database_unavailable", "coordinator_before_result",
             "coordinator_after_result"}

Trial == [strategy : Strategy, profile : Profile, scenario : Scenario,
          repetition : Nat \ {0}]

\* LoadConfig rejects values that are repeated.
ASSUME SuiteAssumption ==
    /\ Matrix \in Seq(Trial)
    /\ \A i, j \in 1..Len(Matrix) : Matrix[i] = Matrix[j] => i = j
    /\ Asserted \subseteq Strategy
    /\ MaxExecutions \in Nat
    /\ MaxStarts \in Nat

VARIABLES
    \* what outlives the controller
    manifest,    \* manifest.json is there
    drawn,       \* the trial each execution ID was drawn for
    running,     \* executions with a running.json
    result,      \* result.json of each execution
    raw,         \* raw.jsonl
    row,         \* status of the row in experiment_runs
    \* what does not
    controller,  \* what it does next, or how it ended
    at,          \* its place in the matrix
    done,        \* completed: trials that need no other execution
    marks,       \* the running.json it has yet to look at
    current,     \* the execution it is at, 0 for none
    verdict,     \* what it will save of it
    failed,      \* a trial of this run failed
    interrupted, \* SIGINT or SIGTERM has cancelled its context
    starts

durable  == <<manifest, drawn, running, result, raw, row>>
progress == <<at, done, marks, failed>>
suiteVars == <<durable, controller, progress, current, verdict, interrupted, starts>>

Execution == 1..MaxExecutions

Status == {"completed", "unsupported", "invalid", "failed"}

\* excess: more effects than steps.
Outcome == [status : Status, excess : BOOLEAN]

NoOutcome == [status |-> "none", excess |-> FALSE]

Concluded(status) == [status |-> status, excess |-> FALSE]

Ended == {"off", "passed", "failed"}

SuiteTypeOK ==
    /\ manifest \in BOOLEAN
    /\ drawn \in Seq(Trial)
    /\ Len(drawn) <= MaxExecutions
    /\ running \subseteq 1..Len(drawn)
    /\ result \in [Execution -> Outcome \union {NoOutcome}]
    /\ raw \in Seq([execution : Execution, outcome : Outcome])
    /\ row \in [Execution -> {"none", "running", "completed", "invalid", "failed"}]
    /\ controller \in Ended \union {"recovering", "choosing", "registering", "working",
                                    "filing", "journalling", "updating", "unmarking"}
    /\ at \in 1..(Len(Matrix) + 1)
    /\ done \subseteq {Matrix[i] : i \in 1..Len(Matrix)}
    /\ marks \subseteq running
    /\ current \in 0..Len(drawn)
    /\ verdict \in Outcome \union {NoOutcome}
    /\ failed \in BOOLEAN
    /\ interrupted \in BOOLEAN
    /\ starts \in 0..MaxStarts

Forgotten ==
    /\ at' = 1
    /\ done' = {}
    /\ marks' = {}
    /\ failed' = FALSE
    /\ current' = 0
    /\ verdict' = NoOutcome
    /\ interrupted' = FALSE

SuiteInit ==
    /\ manifest = FALSE
    /\ drawn = << >>
    /\ running = {}
    /\ result = [e \in Execution |-> NoOutcome]
    /\ raw = << >>
    /\ row = [e \in Execution |-> "none"]
    /\ controller = "off"
    /\ at = 1
    /\ done = {}
    /\ marks = {}
    /\ failed = FALSE
    /\ current = 0
    /\ verdict = NoOutcome
    /\ interrupted = FALSE
    /\ starts = 0

-----------------------------------------------------------------------------
(* Starting and resuming *)

Starts ==
    /\ controller \in Ended
    /\ starts < MaxStarts
    /\ starts' = starts + 1
    /\ UNCHANGED <<at, failed, current, verdict, interrupted>>

RunsAnew ==
    /\ ~manifest
    /\ Starts
    /\ manifest' = TRUE
    /\ controller' = "choosing"
    /\ UNCHANGED <<drawn, running, result, raw, row, done, marks>>

\* Mutant: whatever has a result is not tried again.
HasAnyResult(e) == result[e] # NoOutcome

Preserved(e) == result[e].status \in {"completed", "unsupported"}

Resumes ==
    /\ manifest
    /\ Starts
    /\ done' = {drawn[e] : e \in {d \in 1..Len(drawn) : Preserved(d)}}
    /\ marks' = running
    /\ controller' = "recovering"
    /\ UNCHANGED durable

\* The error of os.Remove is ignored.
Removes(e) == running' \in {running, running \ {e}}

\* Mutant: a mark is cleared whether or not there is a result.
ClearsAnyMark(e) ==
    /\ controller = "recovering"
    /\ e \in marks
    /\ Removes(e)
    /\ marks' = marks \ {e}
    /\ UNCHANGED <<manifest, drawn, result, raw, row, controller, at, done, failed,
                   current, verdict, interrupted, starts>>

ClearsMark(e) ==
    /\ controller = "recovering"
    /\ e \in marks
    /\ result[e] # NoOutcome
    /\ Removes(e)
    /\ marks' = marks \ {e}
    /\ UNCHANGED <<manifest, drawn, result, raw, row, controller, at, done, failed,
                   current, verdict, interrupted, starts>>

\* Mutant: a result that was saved before the crash is not looked for.
InvalidatesUnseen(e) ==
    /\ controller = "recovering"
    /\ e \in marks
    /\ current' = e
    /\ verdict' = Concluded("invalid")
    /\ controller' = "filing"
    /\ UNCHANGED <<durable, progress, interrupted, starts>>

\* "controller interrupted before trial completion"
Invalidates(e) ==
    /\ controller = "recovering"
    /\ e \in marks
    /\ result[e] = NoOutcome
    /\ current' = e
    /\ verdict' = Concluded("invalid")
    /\ controller' = "filing"
    /\ UNCHANGED <<durable, progress, interrupted, starts>>

EndsRecovery ==
    /\ controller = "recovering"
    /\ marks = {}
    /\ controller' = "choosing"
    /\ UNCHANGED <<durable, progress, current, verdict, interrupted, starts>>

-----------------------------------------------------------------------------
(* A trial *)

Supported(t) ==
    /\ t.strategy = "idempotency_key_retry" => t.profile = "idempotency_only"
    /\ t.scenario \in {"coordinator_before_result", "coordinator_after_result"}
        => t.strategy = "watchkeeper"
    /\ t.scenario = "database_unavailable"
        => t.strategy \notin {"blind_retry", "idempotency_key_retry"}

\* The context is looked at before every trial.
Considers ==
    /\ controller = "choosing"
    /\ at <= Len(Matrix)
    /\ ~interrupted

Skips ==
    /\ Considers
    /\ Matrix[at] \in done
    /\ at' = at + 1
    /\ UNCHANGED <<durable, controller, done, marks, failed, current, verdict,
                   interrupted, starts>>

Draws ==
    /\ Considers
    /\ Matrix[at] \notin done
    /\ Len(drawn) < MaxExecutions
    /\ drawn' = Append(drawn, Matrix[at])
    /\ current' = Len(drawn) + 1

RulesOut ==
    /\ Draws
    /\ ~Supported(Matrix[at])
    /\ verdict' = Concluded("unsupported")
    /\ controller' = "filing"
    /\ UNCHANGED <<manifest, running, result, raw, row, progress, interrupted, starts>>

Begins ==
    /\ Draws
    /\ Supported(Matrix[at])
    /\ running' = running \union {current'}
    /\ controller' = "registering"
    /\ UNCHANGED <<manifest, result, raw, row, progress, verdict, interrupted, starts>>

\* Any status but "completed" comes with an error of runTrial.
Concludes(outcome) ==
    /\ verdict' = outcome
    /\ failed' = (failed \/ outcome.status # "completed")
    /\ controller' = "filing"
    /\ UNCHANGED <<at, done, marks, interrupted, starts>>

CannotBegin ==
    /\ Draws
    /\ Supported(Matrix[at])
    /\ Concludes(Concluded("failed"))
    /\ UNCHANGED <<manifest, running, result, raw, row>>

Registered == [row EXCEPT ![current] = "running"]

Registers ==
    /\ controller = "registering"
    /\ ~interrupted
    /\ row' = Registered
    /\ controller' = "working"
    /\ UNCHANGED <<manifest, drawn, running, result, raw, progress, current, verdict,
                   interrupted, starts>>

\* The INSERT may have been committed all the same.
CannotRegister ==
    /\ controller = "registering"
    /\ row' \in {row, Registered}
    /\ Concludes(Concluded("failed"))
    /\ UNCHANGED <<manifest, drawn, running, result, raw, current>>

\* A cancelled context fails the queries for the truth, or the drain before them;
\* without a fault, an effect too many fails the trial.
Works ==
    /\ controller = "working"
    /\ \/ /\ ~interrupted
          /\ \E excess \in BOOLEAN :
                /\ excess => drawn[current].scenario # "none"
                /\ Concludes([status |-> "completed", excess |-> excess])
       \/ \E status \in {"invalid", "failed"} : Concludes(Concluded(status))
    /\ UNCHANGED <<durable, current>>

-----------------------------------------------------------------------------
(* saveResult, write by write *)

\* Mutant: the row is brought up to date with the file, before raw.jsonl.
FilesWithRow ==
    /\ controller = "filing"
    /\ result' = [result EXCEPT ![current] = verdict]
    /\ row' = IF row[current] = "none" THEN row
              ELSE [row EXCEPT ![current] = verdict.status]
    /\ controller' = "journalling"
    /\ UNCHANGED <<manifest, drawn, running, raw, progress, current, verdict,
                   interrupted, starts>>

Files ==
    /\ controller = "filing"
    /\ result' = [result EXCEPT ![current] = verdict]
    /\ controller' = "journalling"
    /\ UNCHANGED <<manifest, drawn, running, raw, row, progress, current, verdict,
                   interrupted, starts>>

Journalled == Append(raw, [execution |-> current, outcome |-> verdict])

Journals ==
    /\ controller = "journalling"
    /\ raw' = Journalled
    /\ controller' = "updating"
    /\ UNCHANGED <<manifest, drawn, running, result, row, progress, current, verdict,
                   interrupted, starts>>

\* An UPDATE that finds no row is no error.
Updated ==
    IF verdict.status = "unsupported" \/ row[current] = "none" THEN row
    ELSE [row EXCEPT ![current] = verdict.status]

Updates ==
    /\ controller = "updating"
    /\ interrupted => verdict.status = "unsupported"
    /\ row' = Updated
    /\ controller' = "unmarking"
    /\ UNCHANGED <<manifest, drawn, running, result, raw, progress, current, verdict,
                   interrupted, starts>>

\* Back to the marks that are left, or on to the next trial.
Unmarks ==
    /\ controller = "unmarking"
    /\ Removes(current)
    /\ \/ /\ current \in marks
          /\ marks' = marks \ {current}
          /\ controller' = "recovering"
          /\ UNCHANGED at
       \/ /\ current \notin marks
          /\ at' = at + 1
          /\ controller' = "choosing"
          /\ UNCHANGED marks
    /\ current' = 0
    /\ verdict' = NoOutcome
    /\ UNCHANGED <<manifest, drawn, result, raw, row, done, failed, interrupted, starts>>

-----------------------------------------------------------------------------
(* The end of a run *)

Ends(how) ==
    /\ controller' = how
    /\ Forgotten
    /\ UNCHANGED starts

\* A write that was under way may have been done.
UnderWay ==
    /\ \/ raw' = raw
       \/ controller = "journalling" /\ raw' = Journalled
    /\ \/ row' = row
       \/ controller = "registering" /\ row' = Registered
       \/ controller = "updating" /\ row' = Updated
    /\ UNCHANGED <<manifest, drawn, running, result>>

CannotSave ==
    /\ controller \in {"filing", "journalling", "updating"}
    /\ controller = "updating" => verdict.status # "unsupported"
    /\ UnderWay
    /\ Ends("failed")

Stops ==
    /\ controller = "choosing"
    /\ at <= Len(Matrix)
    /\ interrupted
    /\ Ends("failed")
    /\ UNCHANGED durable

\* SIGKILL
Crashes ==
    /\ controller \notin Ended
    /\ UnderWay
    /\ Ends("off")

Interrupted ==
    /\ controller \notin Ended
    /\ ~interrupted
    /\ interrupted' = TRUE
    /\ UNCHANGED <<durable, controller, progress, current, verdict, starts>>

\* Results of every start count; extra effects that the service makes do not.
Observed == {e \in 1..Len(drawn) :
                /\ result[e].status = "completed"
                /\ drawn[e].strategy \in Asserted
                /\ drawn[e].scenario # "duplicate_delivery"}

AssertionsHold ==
    /\ \A e \in Observed : ~result[e].excess
    /\ \A s \in Asserted : \E e \in Observed : drawn[e].strategy = s

\* The summary may fail to be written.
Finishes ==
    /\ controller = "choosing"
    /\ at > Len(Matrix)
    /\ \/ Ends("failed")
       \/ ~failed /\ AssertionsHold /\ Ends("passed")
    /\ UNCHANGED durable

-----------------------------------------------------------------------------

SuiteNext ==
    \/ RunsAnew
    \/ Resumes
    \/ \E e \in Execution : ClearsMark(e) \/ Invalidates(e)
    \/ EndsRecovery
    \/ Skips
    \/ RulesOut
    \/ Begins
    \/ CannotBegin
    \/ Registers
    \/ CannotRegister
    \/ Works
    \/ Files
    \/ Journals
    \/ Updates
    \/ Unmarks
    \/ CannotSave
    \/ Stops
    \/ Crashes
    \/ Interrupted
    \/ Finishes

SuiteSpec == SuiteInit /\ [][SuiteNext]_suiteVars

-----------------------------------------------------------------------------
(* Properties *)

\* docs/benchmarks.md: "Interrupted trials are marked invalid and retained".  No
\* execution the database knows of is lost to the suite, wherever the controller
\* was killed: it has a result, or a mark that the next resume will find.
TrialsAreRetained ==
    \A e \in Execution : row[e] # "none" =>
        result[e] # NoOutcome \/ e \in running

\* docs/benchmarks.md: "Completed and unsupported trials are preserved", and
\* raw.jsonl is append-only.  What was once saved of an execution is never saved
\* otherwise, by whichever start of the program.
ResultsStand ==
    [][/\ \A e \in Execution : result[e] # NoOutcome => result'[e] = result[e]
       /\ SubSeq(raw', 1, Len(raw)) = raw]_suiteVars

\* The database concludes nothing that raw.jsonl lacks, and that records no
\* execution twice and none other than its result says.
RecordsAgree ==
    /\ \A i, j \in 1..Len(raw) : raw[i].execution = raw[j].execution => i = j
    /\ \A i \in 1..Len(raw) : result[raw[i].execution] = raw[i].outcome
    /\ \A e \in Execution : row[e] \notin {"none", "running"} =>
        \E i \in 1..Len(raw) : raw[i].execution = e /\ raw[i].outcome.status = row[e]

\* The one execution that counts for a trial.
Counts(e, t) == drawn[e] = t /\ result[e].status = IF Supported(t) THEN "completed"
                                                   ELSE "unsupported"

\* A suite that passed, after however many crashes and resumes, has exactly one
\* result that counts for every trial of the matrix, and one for every trial
\* that was ever begun.
PassedIsEarned ==
    controller = "passed" =>
        /\ \A i \in 1..Len(Matrix) : \E e \in 1..Len(drawn) :
            /\ Counts(e, Matrix[i])
            /\ \A d \in 1..Len(drawn) : Counts(d, Matrix[i]) => d = e
        /\ \A e \in running : result[e] # NoOutcome

=============================================================================
