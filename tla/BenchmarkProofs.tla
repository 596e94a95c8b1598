--------------------------- MODULE BenchmarkProofs ---------------------------
(***************************************************************************)
(* Theorems about BenchmarkSuite, for any matrix, any assertions, and any  *)
(* number of executions, crashes and resumes.                              *)
(***************************************************************************)
EXTENDS BenchmarkSuite, TLAPS

LEMMA Appending ==
    ASSUME NEW S, NEW s \in Seq(S), NEW x \in S
    PROVE  /\ Append(s, x) \in Seq(S)
           /\ Len(Append(s, x)) = Len(s) + 1
           /\ Len(s) \in Nat
           /\ Append(s, x)[Len(s) + 1] = x
           /\ \A i \in 1..Len(s) : Append(s, x)[i] = s[i]
           /\ SubSeq(Append(s, x), 1, Len(s)) = s
<1>1. SubSeq(Append(s, x), 1, Len(s)) = s
    OBVIOUS
<1> QED BY <1>1

LEMMA TrialsOfMatrix ==
    /\ Len(Matrix) \in Nat
    /\ \A i \in 1..Len(Matrix) : Matrix[i] \in Trial
BY SuiteAssumption

LEMMA Verdicts ==
    /\ \A s \in Status : Concluded(s) \in Outcome /\ Concluded(s).status = s
    /\ \A s \in Status, x \in BOOLEAN : [status |-> s, excess |-> x] \in Outcome
    /\ NoOutcome \notin Outcome
    /\ "none" \notin Status
    /\ NoOutcome.status = "none"
    /\ \A o \in Outcome : o.status \in Status
BY DEF Concluded, NoOutcome, Outcome, Status

-----------------------------------------------------------------------------
(* Where the controller is and what it holds                                *)

Saving == {"filing", "journalling", "updating", "unmarking"}

Acting == {"registering", "working"} \union Saving

Recorded(e, outcome) == \E i \in 1..Len(raw) :
    raw[i].execution = e /\ raw[i].outcome = outcome

Phases ==
    /\ controller \in Ended =>
        /\ at = 1 /\ done = {} /\ marks = {} /\ ~failed
        /\ current = 0 /\ verdict = NoOutcome /\ ~interrupted
    /\ ~manifest => controller \in Ended /\ Len(drawn) = 0
    /\ controller \notin Acting => current = 0
    /\ controller \in Acting => current # 0
    /\ controller \in {"registering", "working"} => current \in running \ marks
    /\ controller \in Acting /\ current \notin marks =>
        at <= Len(Matrix) /\ drawn[current] = Matrix[at]
    /\ controller \in Saving => verdict \in Outcome
    /\ controller \in {"registering", "working", "filing"} => result[current] = NoOutcome
    /\ controller \in Saving \ {"filing"} => result[current] = verdict
    /\ controller = "journalling" => \A i \in 1..Len(raw) : raw[i].execution # current
    /\ controller \in {"updating", "unmarking"} => Recorded(current, verdict)
    /\ \A e \in Execution : e > Len(drawn) => result[e] = NoOutcome /\ row[e] = "none"
    /\ \A i \in 1..Len(raw) : result[raw[i].execution] = raw[i].outcome
    /\ \A e \in 1..Len(drawn) : \E i \in 1..Len(Matrix) : drawn[e] = Matrix[i]

LEMMA SuiteTypeStep == SuiteTypeOK /\ Phases /\ [SuiteNext]_suiteVars => SuiteTypeOK'
<1> SUFFICES ASSUME SuiteTypeOK, Phases, [SuiteNext]_suiteVars PROVE SuiteTypeOK'
    OBVIOUS
<1> USE SuiteAssumption, TrialsOfMatrix, Verdicts
<1> USE DEF SuiteTypeOK, Ended, durable, progress
<1>a. Len(drawn) \in Nat /\ \A n \in 0..Len(drawn) : n = 0 \/ n \in Execution
    BY DEF Execution
<1>b. controller \in Saving => current \in Execution /\ verdict \in Outcome
    BY <1>a DEF Phases, Saving, Acting
<1>c. controller \in {"registering", "working"} => current \in Execution
    BY <1>a DEF Phases, Acting
<1> USE <1>a
<1>d. ASSUME Forgotten, starts' = starts, controller' \in Ended,
             UNCHANGED durable \/ UNCHANGED <<manifest, drawn, running, result>>,
             (raw \in Seq([execution : Execution, outcome : Outcome]))',
             (row \in [Execution -> {"none", "running", "completed", "invalid", "failed"}])'
      PROVE  SuiteTypeOK'
  <2>1. (at \in 1..(Len(Matrix) + 1) /\ done \subseteq {Matrix[i] : i \in 1..Len(Matrix)})'
    BY <1>d DEF Forgotten
  <2>2. (marks \subseteq running /\ current \in 0..Len(drawn))'
    BY <1>d DEF Forgotten
  <2>3. (verdict \in Outcome \union {NoOutcome} /\ failed \in BOOLEAN)'
    BY <1>d DEF Forgotten
  <2>4. (interrupted \in BOOLEAN /\ starts \in 0..MaxStarts)'
    BY <1>d DEF Forgotten
  <2> QED BY <1>d, <2>1, <2>2, <2>3, <2>4
<1>e. ASSUME UnderWay
      PROVE  /\ (raw \in Seq([execution : Execution, outcome : Outcome]))'
             /\ (row \in [Execution -> {"none", "running", "completed", "invalid", "failed"}])'
             /\ UNCHANGED <<manifest, drawn, running, result>>
  <2>1. CASE controller = "journalling"
    <3>1. [execution |-> current, outcome |-> verdict]
              \in [execution : Execution, outcome : Outcome]
      BY <1>b, <2>1 DEF Saving
    <3>2. Journalled \in Seq([execution : Execution, outcome : Outcome])
      BY <3>1, Appending DEF Journalled
    <3> QED BY <1>e, <2>1, <3>2 DEF UnderWay
  <2>2. CASE controller # "journalling"
    BY <1>b, <1>c, <1>e, <2>2 DEF UnderWay, Registered, Updated, Saving, Status
  <2> QED BY <2>1, <2>2
<1>1. CASE UNCHANGED suiteVars
    BY <1>1 DEF suiteVars
<1>2. CASE RunsAnew
    BY <1>2 DEF RunsAnew, Starts
<1>3. CASE Resumes
    BY <1>3 DEF Resumes, Starts, Preserved, Phases
<1>4. ASSUME NEW e \in Execution, ClearsMark(e) PROVE SuiteTypeOK'
    BY <1>4 DEF ClearsMark, Removes
<1>5. ASSUME NEW e \in Execution, Invalidates(e) PROVE SuiteTypeOK'
    BY <1>5 DEF Invalidates, Status
<1>6. CASE EndsRecovery
    BY <1>6 DEF EndsRecovery
<1>7. CASE Skips
    BY <1>7 DEF Skips, Considers
<1>8. CASE RulesOut
    BY <1>8, Appending DEF RulesOut, Draws, Considers, Status
<1>9. CASE Begins
  <2>1. (drawn \in Seq(Trial) /\ Len(drawn) <= MaxExecutions /\ current \in 1..Len(drawn))'
    BY <1>9, Appending DEF Begins, Draws, Considers
  <2>2. Len(drawn') = Len(drawn) + 1
    BY <1>9, Appending DEF Begins, Draws, Considers
  <2>3. (running \subseteq 1..Len(drawn) /\ marks \subseteq running)'
    BY <1>9, <2>1, <2>2 DEF Begins
  <2> QED BY <1>9, <2>1, <2>3 DEF Begins
<1>10. CASE CannotBegin
    BY <1>10, Appending DEF CannotBegin, Draws, Considers, Concludes, Status
<1>11. CASE Registers
    BY <1>11, <1>c DEF Registers, Registered
<1>12. CASE CannotRegister
    BY <1>12, <1>c DEF CannotRegister, Registered, Concludes, Status
<1>13. CASE Works
  <2>1. PICK outcome \in Outcome : Concludes(outcome)
    BY <1>13 DEF Works, Status
  <2> QED BY <1>13, <2>1 DEF Works, Concludes
<1>14. CASE Files
    BY <1>14 DEF Files
<1>15. CASE Journals
  <2>1. [execution |-> current, outcome |-> verdict]
            \in [execution : Execution, outcome : Outcome]
    BY <1>15, <1>b DEF Journals, Saving
  <2> QED BY <1>15, <2>1, Appending DEF Journals, Journalled
<1>16. CASE Updates
    BY <1>16, <1>b DEF Updates, Updated, Saving, Status
<1>17. CASE Unmarks
  <2>1. (running \subseteq 1..Len(drawn) /\ marks \subseteq running)'
    BY <1>17 DEF Unmarks, Removes
  <2>2. (at \in 1..(Len(Matrix) + 1) /\ current \in 0..Len(drawn))'
    BY <1>17 DEF Unmarks, Phases, Acting, Saving
  <2> QED BY <1>17, <2>1, <2>2 DEF Unmarks
<1>18. CASE CannotSave
    BY <1>18, <1>d, <1>e DEF CannotSave, Ends
<1>19. CASE Stops
    BY <1>19, <1>d DEF Stops, Ends
<1>20. CASE Crashes
    BY <1>20, <1>d, <1>e DEF Crashes, Ends
<1>21. CASE Interrupted
    BY <1>21 DEF Interrupted
<1>22. CASE Finishes
    BY <1>22, <1>d DEF Finishes, Ends
<1> QED
    BY <1>1, <1>2, <1>3, <1>4, <1>5, <1>6, <1>7, <1>8, <1>9, <1>10, <1>11, <1>12,
       <1>13, <1>14, <1>15, <1>16, <1>17, <1>18, <1>19, <1>20, <1>21, <1>22
       DEF SuiteNext

LEMMA RawEntries ==
    SuiteTypeOK => /\ Len(raw) \in Nat
                   /\ \A i \in 1..Len(raw) : /\ raw[i].execution \in Execution
                                            /\ raw[i].outcome \in Outcome
<1> SUFFICES ASSUME SuiteTypeOK
             PROVE  /\ Len(raw) \in Nat
                    /\ \A i \in 1..Len(raw) : /\ raw[i].execution \in Execution
                                             /\ raw[i].outcome \in Outcome
    OBVIOUS
<1> DEFINE Entry == [execution : Execution, outcome : Outcome]
<1>1. \A x \in Entry : x.execution \in Execution /\ x.outcome \in Outcome
    OBVIOUS
<1>2. raw \in Seq(Entry)
    BY DEF SuiteTypeOK
<1> HIDE DEF Entry
<1>3. Len(raw) \in Nat /\ \A i \in 1..Len(raw) : raw[i] \in Entry
    BY <1>2
<1> QED BY <1>1, <1>3

LEMMA EntryAppended ==
    ASSUME SuiteTypeOK, Phases, controller \in Saving
    PROVE  /\ \A i \in 1..Len(raw) : i \in 1..Len(Journalled) /\ Journalled[i] = raw[i]
           /\ \E i \in 1..Len(Journalled) : /\ Journalled[i].execution = current
                                            /\ Journalled[i].outcome = verdict
           /\ \A i \in 1..Len(Journalled) :
                \/ i \in 1..Len(raw) /\ Journalled[i] = raw[i]
                \/ /\ i = Len(raw) + 1
                   /\ Journalled[i].execution = current
                   /\ Journalled[i].outcome = verdict
           /\ SubSeq(Journalled, 1, Len(raw)) = raw
<1> DEFINE entry == [execution |-> current, outcome |-> verdict]
<1>1. entry \in [execution : Execution, outcome : Outcome]
    BY SuiteAssumption DEF SuiteTypeOK, Phases, Saving, Acting, Execution
<1>2. entry.execution = current /\ entry.outcome = verdict
    OBVIOUS
<1>3. /\ Len(Journalled) = Len(raw) + 1 /\ Len(raw) \in Nat
      /\ Journalled[Len(raw) + 1] = entry
      /\ \A i \in 1..Len(raw) : Journalled[i] = raw[i]
      /\ SubSeq(Journalled, 1, Len(raw)) = raw
    BY <1>1, Appending DEF SuiteTypeOK, Journalled
<1> HIDE DEF entry
<1> QED BY <1>2, <1>3

LEMMA Drawing ==
    ASSUME SuiteTypeOK, Draws
    PROVE  /\ Len(drawn) \in Nat /\ Len(drawn') = Len(drawn) + 1
           /\ current' = Len(drawn')
           /\ current' \in Execution
           /\ drawn'[current'] = Matrix[at]
           /\ \A e \in 1..Len(drawn') : e = current' \/ e \in 1..Len(drawn)
           /\ \A e \in 1..Len(drawn) : /\ e \in 1..Len(drawn') /\ e # current'
                                       /\ drawn'[e] = drawn[e]
           /\ Matrix[at] \notin done /\ controller = "choosing"
<1>1. Matrix[at] \in Trial
    BY TrialsOfMatrix DEF Draws, Considers, SuiteTypeOK
<1> QED BY <1>1, Appending, SuiteAssumption DEF Draws, Considers, SuiteTypeOK, Execution

LEMMA NotYetRecorded ==
    ASSUME SuiteTypeOK, Phases, controller = "filing"
    PROVE  \A i \in 1..Len(raw) : raw[i].execution # current
<1>1. /\ result[current] = NoOutcome
      /\ \A i \in 1..Len(raw) : result[raw[i].execution] = raw[i].outcome
    BY DEF Phases
<1> QED BY <1>1, RawEntries, Verdicts

LEMMA EntryIsResult ==
    ASSUME SuiteTypeOK, Phases, controller = "journalling",
           raw' = Journalled, UNCHANGED result
    PROVE  \A i \in 1..Len(raw') : result'[raw'[i].execution] = raw'[i].outcome
<1>1. /\ result[current] = verdict /\ UNCHANGED result
      /\ \A i \in 1..Len(raw) : result[raw[i].execution] = raw[i].outcome
    BY DEF Phases, Saving
<1>2. \A i \in 1..Len(Journalled) :
        \/ i \in 1..Len(raw) /\ Journalled[i] = raw[i]
        \/ Journalled[i].execution = current /\ Journalled[i].outcome = verdict
    BY EntryAppended DEF Saving
<1> QED BY <1>1, <1>2

LEMMA PhasesWhenDrawing ==
    ASSUME SuiteTypeOK, Phases, Draws, UNCHANGED <<result, row, raw>>
    PROVE  /\ \A e \in Execution : e > Len(drawn') =>
                result'[e] = NoOutcome /\ row'[e] = "none"
           /\ \A i \in 1..Len(raw') : result'[raw'[i].execution] = raw'[i].outcome
           /\ \A e \in 1..Len(drawn') : \E i \in 1..Len(Matrix) : drawn'[e] = Matrix[i]
           /\ manifest /\ at \in 1..Len(Matrix) /\ drawn'[current'] = Matrix[at]
           /\ current' # 0 /\ current' \notin marks /\ result'[current'] = NoOutcome
<1>1. at \in 1..Len(Matrix) /\ marks \subseteq 1..Len(drawn) /\ current' # 0
    BY TrialsOfMatrix, Drawing DEF Draws, Considers, SuiteTypeOK
<1>2. /\ \A e \in Execution : e > Len(drawn) => result[e] = NoOutcome /\ row[e] = "none"
      /\ \A i \in 1..Len(raw) : result[raw[i].execution] = raw[i].outcome
      /\ \A e \in 1..Len(drawn) : \E i \in 1..Len(Matrix) : drawn[e] = Matrix[i]
      /\ manifest
    BY Drawing DEF Phases, Ended
<1>3. \A e \in Execution : e > Len(drawn') \/ e = current' => e > Len(drawn)
    BY Drawing DEF Execution
<1>4. \A e \in 1..Len(drawn') : \E i \in 1..Len(Matrix) : drawn'[e] = Matrix[i]
    BY <1>1, <1>2, Drawing
<1>5. current' \notin marks
    BY <1>1, Drawing
<1> QED BY <1>1, <1>2, <1>3, <1>4, <1>5, Drawing

LEMMA PhasesStep ==
    SuiteTypeOK /\ SuiteTypeOK' /\ Phases /\ [SuiteNext]_suiteVars => Phases'
<1> SUFFICES ASSUME SuiteTypeOK, SuiteTypeOK', Phases, [SuiteNext]_suiteVars
             PROVE  Phases'
    OBVIOUS
<1> USE SuiteAssumption, TrialsOfMatrix, Verdicts
<1> USE DEF SuiteTypeOK, Phases, Ended, Saving, Acting, Recorded, Execution, durable, progress
<1>1. CASE UNCHANGED suiteVars
    BY <1>1 DEF suiteVars
<1>a. ASSUME UnderWay, controller' \in Ended, Forgotten PROVE Phases'
  <2>1. \A e \in Execution : e > Len(drawn') => result'[e] = NoOutcome /\ row'[e] = "none"
    <3>1. /\ UNCHANGED <<drawn, result>>
          /\ \/ row' = row
             \/ controller = "registering" /\ row' = Registered
             \/ controller = "updating" /\ row' = Updated
        BY <1>a DEF UnderWay
    <3>2. controller \in {"registering", "updating"} => current <= Len(drawn)
        BY DEF Execution
    <3>3. /\ \A e \in Execution : e # current => Registered[e] = row[e] /\ Updated[e] = row[e]
          /\ \A e \in Execution : e > Len(drawn) => result[e] = NoOutcome /\ row[e] = "none"
        BY DEF Registered, Updated
    <3> HIDE DEF SuiteTypeOK
    <3> QED BY <3>1, <3>2, <3>3
  <2>2. \A i \in 1..Len(raw') : result'[raw'[i].execution] = raw'[i].outcome
    <3>1. CASE raw' = raw
      BY <1>a, <3>1 DEF UnderWay
    <3>2. CASE controller = "journalling" /\ raw' = Journalled
      <4>1. UNCHANGED result
        BY <1>a DEF UnderWay
      <4> QED BY <3>2, <4>1, EntryIsResult
    <3> QED BY <1>a, <3>1, <3>2 DEF UnderWay
  <2>3. /\ at' = 1 /\ done' = {} /\ marks' = {} /\ ~failed'
        /\ current' = 0 /\ verdict' = NoOutcome /\ ~interrupted'
        /\ controller' \in {"off", "passed", "failed"}
        /\ UNCHANGED <<manifest, drawn, running, result>>
    BY <1>a DEF UnderWay, Forgotten
  <2>4. /\ ~manifest' => Len(drawn') = 0
        /\ \A e \in 1..Len(drawn') : \E i \in 1..Len(Matrix) : drawn'[e] = Matrix[i]
    BY <2>3
  <2> HIDE DEF SuiteTypeOK
  <2> QED BY <2>1, <2>2, <2>3, <2>4
<1>2. CASE RunsAnew
    BY <1>2 DEF RunsAnew, Starts
<1>3. CASE Resumes
  <2>1. /\ controller' = "recovering" /\ manifest
        /\ UNCHANGED <<durable, at, failed, current, verdict, interrupted>>
    BY <1>3 DEF Resumes, Starts
  <2>2. controller \in Ended
    BY <1>3 DEF Resumes, Starts
  <2> HIDE DEF SuiteTypeOK
  <2> QED BY <2>1, <2>2
<1>4. ASSUME NEW e \in Execution, ClearsMark(e) PROVE Phases'
  <2>1. /\ controller = "recovering"
        /\ UNCHANGED <<manifest, drawn, result, raw, row, controller, current>>
    BY <1>4 DEF ClearsMark
  <2> HIDE DEF SuiteTypeOK
  <2> QED BY <2>1
<1>5. ASSUME NEW e \in Execution, Invalidates(e) PROVE Phases'
    BY <1>5 DEF Invalidates, Status
<1>6. CASE EndsRecovery
    BY <1>6 DEF EndsRecovery
<1>7. CASE Skips
    BY <1>7 DEF Skips, Considers
<1>8. CASE RulesOut
  <2>1. /\ Draws /\ UNCHANGED <<result, row, raw, manifest, at, marks>>
        /\ controller' = "filing" /\ verdict' \in Outcome
    BY <1>8 DEF RulesOut, Status
  <2> HIDE DEF SuiteTypeOK
  <2> QED BY <2>1, PhasesWhenDrawing
<1>9. CASE Begins
  <2>1. /\ Draws /\ UNCHANGED <<result, row, raw, manifest, at, marks>>
        /\ controller' = "registering" /\ current' \in running'
    BY <1>9 DEF Begins
  <2> HIDE DEF SuiteTypeOK
  <2> QED BY <2>1, PhasesWhenDrawing
<1>10. CASE CannotBegin
  <2>1. /\ Draws /\ UNCHANGED <<result, row, raw, manifest, at, marks>>
        /\ controller' = "filing" /\ verdict' \in Outcome
    BY <1>10 DEF CannotBegin, Concludes, Status
  <2> HIDE DEF SuiteTypeOK
  <2> QED BY <2>1, PhasesWhenDrawing
<1>11. CASE Registers \/ CannotRegister
  <2>1. /\ controller = "registering" /\ UNCHANGED <<manifest, drawn, result, raw>>
        /\ UNCHANGED <<current, at, marks, running>>
        /\ \/ controller' = "working"
           \/ controller' = "filing" /\ verdict' \in Outcome
    BY <1>11 DEF Registers, CannotRegister, Concludes, Status
  <2>2. \A e \in Execution : e # current => row'[e] = row[e]
    BY <1>11 DEF Registers, CannotRegister, Registered
  <2>3. \A e \in Execution : e > Len(drawn) => e # current
    OBVIOUS
  <2> HIDE DEF SuiteTypeOK
  <2> QED BY <2>1, <2>2, <2>3
<1>13. CASE Works
    BY <1>13 DEF Works, Concludes, Status
<1>14. CASE Files
  <2>1. \A i \in 1..Len(raw) : /\ raw[i].execution \in Execution
                              /\ raw[i].outcome \in Outcome
    BY RawEntries
  <2>2. \A i \in 1..Len(raw) : raw[i].execution # current
    <3>1. controller = "filing"
      BY <1>14 DEF Files
    <3> QED BY <3>1, NotYetRecorded
  <2>3. result' = [result EXCEPT ![current] = verdict] /\ current \in 1..Len(drawn)
    BY <1>14 DEF Files
  <2>4. \A e \in Execution : e # current => result'[e] = result[e]
    BY <2>3
  <2>5. \A i \in 1..Len(raw) : result'[raw[i].execution] = raw[i].outcome
    BY <2>1, <2>2, <2>4
  <2>6. \A e \in Execution : e > Len(drawn) => result'[e] = NoOutcome
    BY <2>3, <2>4
  <2> QED BY <1>14, <2>2, <2>3, <2>5, <2>6 DEF Files
<1>15. CASE Journals
  <2>1. Recorded(current, verdict)'
    BY <1>15, EntryAppended DEF Journals
  <2>2. \A i \in 1..Len(raw') : result'[raw'[i].execution] = raw'[i].outcome
    <3>1. controller = "journalling" /\ raw' = Journalled /\ UNCHANGED result
      BY <1>15 DEF Journals
    <3> QED BY <3>1, EntryIsResult
  <2> QED BY <1>15, <2>1, <2>2 DEF Journals
<1>16. CASE Updates
    BY <1>16 DEF Updates, Updated
<1>17. CASE Unmarks
    BY <1>17 DEF Unmarks, Removes
<1>18. CASE CannotSave
    BY <1>18, <1>a DEF CannotSave, Ends
<1>19. CASE Stops
    BY <1>19 DEF Stops, Ends, Forgotten
<1>20. CASE Crashes
    BY <1>20, <1>a DEF Crashes, Ends
<1>21. CASE Interrupted
    BY <1>21 DEF Interrupted
<1>22. CASE Finishes
    BY <1>22 DEF Finishes, Ends, Forgotten
<1> QED
    BY <1>1, <1>2, <1>3, <1>4, <1>5, <1>6, <1>7, <1>8, <1>9, <1>10, <1>11,
       <1>13, <1>14, <1>15, <1>16, <1>17, <1>18, <1>19, <1>20, <1>21, <1>22
       DEF SuiteNext

-----------------------------------------------------------------------------
(* What is on record                                                        *)

LEMMA RowWritten ==
    ASSUME SuiteTypeOK, current \in Execution
    PROVE  /\ \A e \in Execution : Registered[e] = IF e = current THEN "running" ELSE row[e]
           /\ \A e \in Execution :
                \/ Updated[e] = row[e]
                \/ e = current /\ Updated[e] = verdict.status /\ row[e] # "none"
BY DEF SuiteTypeOK, Registered, Updated

LEMMA EntryKeepsOrder ==
    ASSUME SuiteTypeOK, Phases, RecordsAgree, controller = "journalling",
           raw' = Journalled, UNCHANGED <<result, row>>
    PROVE  RecordsAgree'
<1> DEFINE Old(i) == i \in 1..Len(raw) /\ raw'[i] = raw[i]
           New(i) == /\ i = Len(raw) + 1
                     /\ raw'[i].execution = current /\ raw'[i].outcome = verdict
<1>1. /\ \A i \in 1..Len(raw') : Old(i) \/ New(i)
      /\ \A i \in 1..Len(raw) : i \in 1..Len(raw') /\ Old(i)
    BY EntryAppended DEF Saving
<1>2. /\ \A i \in 1..Len(raw) : raw[i].execution # current
      /\ result[current] = verdict
      /\ UNCHANGED <<result, row>>
    BY DEF Phases, Saving
<1>3. \A i, j \in 1..Len(raw') : raw'[i].execution = raw'[j].execution => i = j
    BY <1>1, <1>2 DEF RecordsAgree
<1>4. \A i \in 1..Len(raw') : result'[raw'[i].execution] = raw'[i].outcome
    BY <1>1, <1>2 DEF RecordsAgree
<1>5. \A e \in Execution : row'[e] \notin {"none", "running"} =>
          \E i \in 1..Len(raw') : raw'[i].execution = e /\ raw'[i].outcome.status = row'[e]
    BY <1>1, <1>2 DEF RecordsAgree
<1> QED BY <1>2, <1>3, <1>4, <1>5 DEF RecordsAgree

LEMMA RecordsStep ==
    SuiteTypeOK /\ Phases /\ TrialsAreRetained /\ RecordsAgree /\ [SuiteNext]_suiteVars
        => (TrialsAreRetained /\ RecordsAgree)'
<1> SUFFICES ASSUME SuiteTypeOK, Phases, TrialsAreRetained, RecordsAgree,
                    [SuiteNext]_suiteVars
             PROVE  (TrialsAreRetained /\ RecordsAgree)'
    OBVIOUS
<1> USE DEF TrialsAreRetained, RecordsAgree, durable, progress
<1>1. CASE UNCHANGED suiteVars
    BY <1>1 DEF suiteVars
<1>a. current \in 0..Len(drawn) /\ \A n \in 0..Len(drawn) : n = 0 \/ n \in Execution
    BY SuiteAssumption DEF SuiteTypeOK, Execution
<1>b. controller \in Acting => current \in Execution
    BY <1>a DEF Phases
<1>c. controller \in Saving \ {"filing"} => result[current] # NoOutcome
    BY Verdicts DEF Phases
<1>d. ASSUME UnderWay PROVE (TrialsAreRetained /\ RecordsAgree)'
  <2>1. TrialsAreRetained'
    BY <1>b, <1>c, <1>d, RowWritten DEF UnderWay, Phases, Acting, Saving
  <2>2. CASE raw' = raw
    BY <1>b, <1>d, <2>1, <2>2, RowWritten DEF UnderWay, Phases, Acting, Saving, Recorded
  <2>3. CASE controller = "journalling" /\ raw' = Journalled
    BY <1>d, <2>1, <2>3, EntryKeepsOrder DEF UnderWay
  <2> QED BY <1>d, <2>2, <2>3 DEF UnderWay
<1>2. CASE RunsAnew
    BY <1>2 DEF RunsAnew, Starts
<1>3. CASE Resumes
    BY <1>3 DEF Resumes, Starts
<1>4. ASSUME NEW e \in Execution, ClearsMark(e)
      PROVE  (TrialsAreRetained /\ RecordsAgree)'
    BY <1>4 DEF ClearsMark, Removes
<1>5. ASSUME NEW e \in Execution, Invalidates(e)
      PROVE  (TrialsAreRetained /\ RecordsAgree)'
    BY <1>5 DEF Invalidates
<1>6. CASE EndsRecovery
    BY <1>6 DEF EndsRecovery
<1>7. CASE Skips
    BY <1>7 DEF Skips, Considers
<1>8. CASE RulesOut
    BY <1>8 DEF RulesOut, Draws, Considers
<1>9. CASE Begins
    BY <1>9 DEF Begins, Draws, Considers
<1>10. CASE CannotBegin
    BY <1>10 DEF CannotBegin, Draws, Considers, Concludes
<1>11. CASE Registers
    BY <1>11, <1>b, RowWritten DEF Registers, Phases, Acting
<1>12. CASE CannotRegister
    BY <1>12, <1>b, RowWritten DEF CannotRegister, Concludes, Phases, Acting
<1>13. CASE Works
    BY <1>13 DEF Works, Concludes
<1>14. CASE Files
  <2>1. \A i \in 1..Len(raw) : raw[i].execution # current /\ raw[i].execution \in Execution
    BY <1>14, RawEntries, Verdicts DEF Files, Phases
  <2>2. /\ \A e \in Execution : e # current => result'[e] = result[e]
        /\ current \in Execution => result'[current] # NoOutcome
    BY <1>14, Verdicts DEF Files, SuiteTypeOK, Phases, Saving
  <2> QED BY <1>14, <2>1, <2>2 DEF Files
<1>15. CASE Journals
    BY <1>15, EntryKeepsOrder DEF Journals
<1>16. CASE Updates
    BY <1>16, <1>b, <1>c, RowWritten DEF Updates, Phases, Acting, Saving, Recorded
<1>17. CASE Unmarks
    BY <1>17, <1>c DEF Unmarks, Removes, Saving
<1>18. CASE CannotSave
    BY <1>18, <1>d DEF CannotSave
<1>19. CASE Stops
    BY <1>19 DEF Stops, Ends, Forgotten
<1>20. CASE Crashes
    BY <1>20, <1>d DEF Crashes
<1>21. CASE Interrupted
    BY <1>21 DEF Interrupted
<1>22. CASE Finishes
    BY <1>22 DEF Finishes, Ends, Forgotten
<1> QED
    BY <1>1, <1>2, <1>3, <1>4, <1>5, <1>6, <1>7, <1>8, <1>9, <1>10, <1>11, <1>12,
       <1>13, <1>14, <1>15, <1>16, <1>17, <1>18, <1>19, <1>20, <1>21, <1>22
       DEF SuiteNext

-----------------------------------------------------------------------------
(* What counts                                                              *)

Kind(e, status) ==
    /\ status = "unsupported" => ~Supported(drawn[e])
    /\ status = "completed" => Supported(drawn[e])

Kinds ==
    /\ \A e \in 1..Len(drawn) : Kind(e, result[e].status)
    /\ controller \in {"registering", "working"} => Supported(drawn[current])
    /\ controller \in Saving => Kind(current, verdict.status)

\* The executions a resume takes for granted, and their trials.
Counted == {e \in 1..Len(drawn) : Preserved(e)}

Known == {drawn[e] : e \in Counted}

Behind == {Matrix[i] : i \in 1..(at - 1)}

Single == \A d, e \in Counted : drawn[d] = drawn[e] => d = e

\* What the controller knows of the results on disk while it runs.
Ledger ==
    /\ controller \notin Ended =>
        /\ done \subseteq Known
        /\ \A e \in Counted \ {current} : drawn[e] \in done \union Behind
        /\ failed \/ Behind \subseteq Known
        /\ controller \in Acting /\ current \notin marks => Matrix[at] \notin done
        /\ controller \in Saving /\ current \notin marks /\ ~failed =>
            verdict.status \in {"completed", "unsupported"}
        /\ controller \in Saving /\ current \in marks => verdict.status = "invalid"
    /\ controller = "passed" => \A i \in 1..Len(Matrix) : Matrix[i] \in Known

Marked ==
    /\ controller = "choosing" \/ (controller \in Acting /\ current \notin marks) => marks = {}
    /\ controller \notin {"off", "failed"} => \A e \in running :
        \/ result[e] # NoOutcome
        \/ e \in marks
        \/ controller \in {"registering", "working", "filing"} /\ e = current

LEMMA KindsStep ==
    SuiteTypeOK /\ SuiteTypeOK' /\ Phases /\ Kinds /\ [SuiteNext]_suiteVars => Kinds'
<1> SUFFICES ASSUME SuiteTypeOK, SuiteTypeOK', Phases, Kinds, [SuiteNext]_suiteVars
             PROVE  Kinds'
    OBVIOUS
<1> USE SuiteAssumption, TrialsOfMatrix
<1>a. /\ current \in 0..Len(drawn) /\ Len(drawn) \in Nat
      /\ \A n \in 1..Len(drawn) : n \in Execution
    BY DEF SuiteTypeOK, Execution
<1> USE <1>a DEF durable, progress, Ended, Acting, Saving
<1> USE DEF Phases, Kinds, Kind
<1>1. CASE UNCHANGED suiteVars
    BY <1>1 DEF suiteVars
<1>2. CASE RunsAnew
    BY <1>2 DEF RunsAnew, Starts
<1>3. CASE Resumes
    BY <1>3 DEF Resumes, Starts
<1>4. ASSUME NEW e \in Execution, ClearsMark(e) PROVE Kinds'
    BY <1>4 DEF ClearsMark, Removes
<1>5. ASSUME NEW e \in Execution, Invalidates(e) PROVE Kinds'
    BY <1>5, Verdicts DEF Invalidates, Status
<1>6. CASE EndsRecovery
    BY <1>6 DEF EndsRecovery
<1>7. CASE Skips
    BY <1>7 DEF Skips, Considers
<1>8. ASSUME Draws, UNCHANGED result
      PROVE  \A e \in 1..Len(drawn') : Kind(e, result[e].status)'
  <2>1. result[current'] = NoOutcome
    BY <1>8, Drawing
  <2> QED BY <1>8, <2>1, Drawing, Verdicts
<1>9. CASE RulesOut
  <2>1. /\ Draws /\ UNCHANGED result /\ ~Supported(Matrix[at])
        /\ controller' = "filing" /\ verdict'.status = "unsupported"
    BY <1>9, Verdicts DEF RulesOut, Status
  <2>2. drawn'[current'] = Matrix[at]
    BY <2>1, Drawing
  <2> QED BY <1>8, <2>1, <2>2
<1>10. CASE Begins
  <2>1. /\ Draws /\ UNCHANGED result /\ Supported(Matrix[at])
        /\ controller' = "registering"
    BY <1>10 DEF Begins
  <2>2. drawn'[current'] = Matrix[at]
    BY <2>1, Drawing
  <2> QED BY <1>8, <2>1, <2>2
<1>11. CASE CannotBegin
  <2>1. /\ Draws /\ UNCHANGED result
        /\ controller' = "filing" /\ verdict'.status = "failed"
    BY <1>11, Verdicts DEF CannotBegin, Concludes, Status
  <2> QED BY <1>8, <2>1
<1>12. CASE Registers
    BY <1>12 DEF Registers, Registered
<1>13. CASE CannotRegister
    BY <1>13, Verdicts DEF CannotRegister, Registered, Concludes, Status
<1>14. CASE Works
    BY <1>14, Verdicts DEF Works, Concludes, Status
<1>15. CASE Files
    BY <1>15 DEF Files
<1>16. CASE Journals
    BY <1>16 DEF Journals
<1>17. CASE Updates
    BY <1>17 DEF Updates, Updated
<1>18. CASE Unmarks
    BY <1>18 DEF Unmarks, Removes
<1>19. CASE CannotSave
    BY <1>19 DEF CannotSave, UnderWay, Ends, Forgotten
<1>20. CASE Stops
    BY <1>20 DEF Stops, Ends, Forgotten
<1>21. CASE Crashes
    BY <1>21 DEF Crashes, UnderWay, Ends, Forgotten
<1>22. CASE Interrupted
    BY <1>22 DEF Interrupted
<1>23. CASE Finishes
    BY <1>23 DEF Finishes, Ends, Forgotten
<1> QED
    BY <1>1, <1>2, <1>3, <1>4, <1>5, <1>6, <1>7, <1>9, <1>10, <1>11, <1>12, <1>13,
       <1>14, <1>15, <1>16, <1>17, <1>18, <1>19, <1>20, <1>21, <1>22, <1>23
       DEF SuiteNext

LEMMA MarkedStep ==
    SuiteTypeOK /\ SuiteTypeOK' /\ Phases /\ Marked /\ [SuiteNext]_suiteVars
        => Marked'
<1> SUFFICES ASSUME SuiteTypeOK, SuiteTypeOK', Phases, Marked, [SuiteNext]_suiteVars
             PROVE  Marked'
    OBVIOUS
<1> USE SuiteAssumption, TrialsOfMatrix
<1>a. /\ current \in 0..Len(drawn) /\ Len(drawn) \in Nat
      /\ \A n \in 1..Len(drawn) : n \in Execution
    BY DEF SuiteTypeOK, Execution
<1> USE <1>a DEF durable, progress, Ended, Acting, Saving
<1> USE DEF Phases, Marked
<1>1. CASE UNCHANGED suiteVars
    BY <1>1 DEF suiteVars
<1>2. CASE RunsAnew
    BY <1>2 DEF RunsAnew, Starts, SuiteTypeOK
<1>3. CASE Resumes
    BY <1>3 DEF Resumes, Starts
<1>4. ASSUME NEW e \in Execution, ClearsMark(e) PROVE Marked'
    BY <1>4 DEF ClearsMark, Removes
<1>5. ASSUME NEW e \in Execution, Invalidates(e) PROVE Marked'
    BY <1>5, Verdicts DEF Invalidates, Status
<1>6. CASE EndsRecovery
    BY <1>6 DEF EndsRecovery
<1>7. CASE Skips
    BY <1>7 DEF Skips, Considers
<1>8. CASE RulesOut
    BY <1>8, Drawing, Verdicts DEF RulesOut, Status
<1>9. CASE Begins
    BY <1>9, Drawing, Verdicts DEF Begins
<1>10. CASE CannotBegin
    BY <1>10, Drawing, Verdicts DEF CannotBegin, Concludes, Status
<1>11. CASE Registers
    BY <1>11 DEF Registers, Registered
<1>12. CASE CannotRegister
    BY <1>12, Verdicts DEF CannotRegister, Registered, Concludes, Status
<1>13. CASE Works
    BY <1>13, Verdicts DEF Works, Concludes, Status
<1>14. CASE Files
  <2>1. /\ result' = [result EXCEPT ![current] = verdict]
        /\ current \in Execution /\ verdict # NoOutcome
    BY <1>14, Verdicts DEF Files
  <2>2. \A e \in Execution : result[e] # NoOutcome \/ e = current => result'[e] # NoOutcome
    BY <2>1 DEF SuiteTypeOK
  <2>3. \A e \in running : e \in Execution
    BY DEF SuiteTypeOK
  <2> QED BY <1>14, <2>2, <2>3 DEF Files
<1>15. CASE Journals
    BY <1>15 DEF Journals
<1>16. CASE Updates
    BY <1>16 DEF Updates, Updated
<1>17. CASE Unmarks
  <2>1. result[current] # NoOutcome
    BY <1>17, Verdicts DEF Unmarks
  <2> QED BY <1>17, <2>1 DEF Unmarks, Removes
<1>18. CASE CannotSave
    BY <1>18 DEF CannotSave, UnderWay, Ends, Forgotten
<1>19. CASE Stops
    BY <1>19 DEF Stops, Ends, Forgotten
<1>20. CASE Crashes
    BY <1>20 DEF Crashes, UnderWay, Ends, Forgotten
<1>21. CASE Interrupted
    BY <1>21 DEF Interrupted
<1>22. CASE Finishes
    BY <1>22 DEF Finishes, Ends, Forgotten
<1> QED
    BY <1>1, <1>2, <1>3, <1>4, <1>5, <1>6, <1>7, <1>8, <1>9, <1>10, <1>11, <1>12,
       <1>13, <1>14, <1>15, <1>16, <1>17, <1>18, <1>19, <1>20, <1>21, <1>22
       DEF SuiteNext

\* Three ways a step treats the results on disk.
LEMMA ResultsChange ==
    ASSUME [SuiteNext]_suiteVars
    PROVE  \/ UNCHANGED <<drawn, result>>
           \/ Draws /\ UNCHANGED result
           \/ Files
<1> USE DEF durable
<1>1. CASE UNCHANGED suiteVars
    BY <1>1 DEF suiteVars
<1>2. CASE RunsAnew \/ Resumes \/ EndsRecovery \/ Skips
    BY <1>2 DEF RunsAnew, Resumes, EndsRecovery, Skips
<1>3. ASSUME NEW e \in Execution, ClearsMark(e) \/ Invalidates(e)
      PROVE  UNCHANGED <<drawn, result>>
    BY <1>3 DEF ClearsMark, Invalidates
<1>4. CASE RulesOut \/ Begins \/ CannotBegin
    BY <1>4 DEF RulesOut, Begins, CannotBegin
<1>5. CASE Registers \/ CannotRegister \/ Works
    BY <1>5 DEF Registers, CannotRegister, Works
<1>6. CASE Journals \/ Updates \/ Unmarks
    BY <1>6 DEF Journals, Updates, Unmarks
<1>7. CASE CannotSave \/ Crashes
    BY <1>7 DEF CannotSave, Crashes, UnderWay
<1>8. CASE Stops \/ Interrupted \/ Finishes
    BY <1>8 DEF Stops, Interrupted, Finishes
<1> QED BY <1>1, <1>2, <1>3, <1>4, <1>5, <1>6, <1>7, <1>8 DEF SuiteNext

LEMMA RawChange ==
    ASSUME [SuiteNext]_suiteVars
    PROVE  raw' = raw \/ (controller = "journalling" /\ raw' = Journalled)
<1> USE DEF durable
<1>1. CASE UNCHANGED suiteVars
    BY <1>1 DEF suiteVars
<1>2. CASE RunsAnew \/ Resumes \/ EndsRecovery \/ Skips
    BY <1>2 DEF RunsAnew, Resumes, EndsRecovery, Skips
<1>3. ASSUME NEW e \in Execution, ClearsMark(e) \/ Invalidates(e)
      PROVE  UNCHANGED raw
    BY <1>3 DEF ClearsMark, Invalidates
<1>4. CASE RulesOut \/ Begins \/ CannotBegin
    BY <1>4 DEF RulesOut, Begins, CannotBegin
<1>5. CASE Registers \/ CannotRegister \/ Works
    BY <1>5 DEF Registers, CannotRegister, Works
<1>6. CASE Files \/ Updates \/ Unmarks
    BY <1>6 DEF Files, Updates, Unmarks
<1>7. CASE Journals
    BY <1>7 DEF Journals
<1>8. CASE CannotSave \/ Crashes
    BY <1>8 DEF CannotSave, Crashes, UnderWay
<1>9. CASE Stops \/ Interrupted \/ Finishes
    BY <1>9 DEF Stops, Interrupted, Finishes
<1> QED BY <1>1, <1>2, <1>3, <1>4, <1>5, <1>6, <1>7, <1>8, <1>9 DEF SuiteNext

LEMMA KnownKept ==
    ASSUME UNCHANGED <<drawn, result>>
    PROVE  Counted' = Counted /\ Known' = Known
BY DEF Counted, Known, Preserved

LEMMA KnownWhenDrawing ==
    ASSUME SuiteTypeOK, Phases, Draws, UNCHANGED result
    PROVE  /\ Counted' = Counted /\ Known' = Known
           /\ \A e \in Counted : drawn'[e] = drawn[e]
           /\ current' \notin Counted
<1>1. result[current'] = NoOutcome
    BY Drawing DEF Phases
<1>2. ~Preserved(current')
    BY <1>1, Verdicts DEF Preserved
<1>3. \A e \in 1..Len(drawn) : /\ e \in 1..Len(drawn') /\ drawn'[e] = drawn[e]
                               /\ Preserved(e)' = Preserved(e)
    BY Drawing DEF Preserved
<1>4. /\ result'[current'].status \notin {"completed", "unsupported"}
      /\ \A e \in 1..Len(drawn') : e = current' \/ e \in 1..Len(drawn)
    BY <1>1, Verdicts, Drawing
<1>5. Counted' = Counted
    BY <1>3, <1>4 DEF Counted, Preserved
<1>6. \A e \in Counted : drawn'[e] = drawn[e]
    BY <1>3 DEF Counted
<1> QED BY <1>2, <1>5, <1>6 DEF Known, Counted

LEMMA KnownWhenFiling ==
    ASSUME SuiteTypeOK, Phases, Files
    PROVE  /\ current \in 1..Len(drawn) /\ current \notin Counted
           /\ Counted' = IF verdict.status \in {"completed", "unsupported"}
                         THEN Counted \union {current} ELSE Counted
           /\ Known \subseteq Known' /\ UNCHANGED drawn
<1>1. /\ current \in 1..Len(drawn) /\ result[current] = NoOutcome
      /\ result'[current] = verdict
      /\ \A e \in 1..Len(drawn) : e # current => result'[e] = result[e]
      /\ UNCHANGED drawn
    BY SuiteAssumption DEF Files, SuiteTypeOK, Phases, Acting, Saving, Execution
<1>2. Counted' = IF verdict.status \in {"completed", "unsupported"}
                 THEN Counted \union {current} ELSE Counted
    BY <1>1, Verdicts DEF Counted, Preserved
<1>3. current \notin Counted
    BY <1>1, Verdicts DEF Counted, Preserved
<1> QED BY <1>1, <1>2, <1>3 DEF Known

LEMMA SingleStep ==
    SuiteTypeOK /\ Phases /\ Ledger /\ Single /\ [SuiteNext]_suiteVars => Single'
<1> SUFFICES ASSUME SuiteTypeOK, Phases, Ledger, Single, [SuiteNext]_suiteVars
             PROVE  Single'
    OBVIOUS
<1>1. CASE UNCHANGED <<drawn, result>>
    BY <1>1, KnownKept DEF Single
<1>2. CASE Draws /\ UNCHANGED result
    BY <1>2, KnownWhenDrawing DEF Single
<1>3. CASE Files
  <2>1. CASE verdict.status \notin {"completed", "unsupported"}
    BY <1>3, <2>1, KnownWhenFiling DEF Single
  <2>2. CASE verdict.status \in {"completed", "unsupported"}
    <3>1. current \notin marks /\ controller = "filing"
      BY <1>3, <2>2 DEF Files, Ledger, Ended, Saving
    <3>2. /\ drawn[current] = Matrix[at] /\ at \in 1..Len(Matrix)
          /\ Matrix[at] \notin done
      BY <3>1, SuiteAssumption, TrialsOfMatrix
         DEF Phases, Ledger, SuiteTypeOK, Acting, Saving, Ended
    <3>3. \A e \in Counted : drawn[e] \in done \union Behind
      BY <1>3, <3>1, KnownWhenFiling DEF Ledger, Ended
    <3>4. Matrix[at] \notin Behind
      BY <3>2, SuiteAssumption, TrialsOfMatrix DEF Behind
    <3>5. \A e \in Counted : drawn[e] # drawn[current]
      BY <3>2, <3>3, <3>4
    <3> QED BY <1>3, <2>2, <3>5, KnownWhenFiling DEF Single
  <2> QED BY <2>1, <2>2
<1> QED BY <1>1, <1>2, <1>3, ResultsChange

LEMMA LedgerStep ==
    SuiteTypeOK /\ SuiteTypeOK' /\ Phases /\ Ledger /\ [SuiteNext]_suiteVars
        => Ledger'
<1> SUFFICES ASSUME SuiteTypeOK, SuiteTypeOK', Phases, Ledger, [SuiteNext]_suiteVars
             PROVE  Ledger'
    OBVIOUS
<1>a. 0 \notin Counted
    BY DEF Counted
<1>b. at' = at => Behind' = Behind
    BY DEF Behind
<1>c. at = 1 => Behind = {}
    BY DEF Behind
<1>d. at \in 1..Len(Matrix) /\ at' = at + 1 => Behind' = Behind \union {Matrix[at]}
    BY TrialsOfMatrix DEF Behind
<1>e. ASSUME controller' \in {"off", "failed"} PROVE Ledger'
    BY <1>e DEF Ledger, Ended
<1> USE DEF durable, progress, Ended, Acting, Saving
<1>1. CASE UNCHANGED suiteVars
    BY <1>1, <1>b, KnownKept DEF suiteVars, Ledger
<1>2. CASE RunsAnew
  <2>1. Counted' = {} /\ at' = 1 /\ done' = {} /\ controller' = "choosing"
    BY <1>2, KnownKept DEF RunsAnew, Starts, Phases, Counted, SuiteTypeOK
  <2>2. Behind' = {}
    BY <2>1 DEF Behind
  <2> QED BY <2>1, <2>2 DEF Ledger
<1>3. CASE Resumes
  <2>1. done' = Known /\ UNCHANGED <<drawn, result>> /\ controller' = "recovering"
    BY <1>3 DEF Resumes, Known, Counted
  <2>2. Behind' = {} /\ Counted' = Counted /\ Known' = Known
    BY <1>3, <1>b, <1>c, <2>1, KnownKept DEF Resumes, Starts, Phases
  <2>3. \A e \in Counted : drawn[e] \in Known
    BY DEF Known
  <2> QED BY <2>1, <2>2, <2>3 DEF Ledger
<1>4. ASSUME NEW e \in Execution, ClearsMark(e) PROVE Ledger'
    BY <1>4, <1>b, KnownKept DEF ClearsMark, Ledger
<1>5. ASSUME NEW e \in Execution, Invalidates(e) PROVE Ledger'
    BY <1>5, <1>a, <1>b, KnownKept, Verdicts DEF Invalidates, Ledger, Phases, Status
<1>6. CASE EndsRecovery
    BY <1>6, <1>b, KnownKept DEF EndsRecovery, Ledger
<1>7. CASE Skips
    BY <1>7, <1>d, KnownKept DEF Skips, Considers, SuiteTypeOK, Ledger
<1>8. ASSUME Draws, UNCHANGED <<result, at, done, marks>>, controller' \in Acting,
             controller' \in Saving =>
                /\ verdict'.status \in Status
                /\ failed' \/ verdict'.status = "unsupported",
             failed => failed'
      PROVE  Ledger'
  <2>1. controller = "choosing" /\ current = 0 /\ Matrix[at] \notin done
    BY <1>8, Drawing DEF Phases
  <2>2. current' \notin marks
    BY <1>8, Drawing DEF SuiteTypeOK
  <2>3. done' \subseteq Known' /\ (failed' \/ Behind' \subseteq Known')
    BY <1>8, <1>b, <2>1, KnownWhenDrawing DEF Ledger
  <2>4. \A e \in Counted' \ {current'} : drawn'[e] \in done' \union Behind'
    BY <1>8, <1>a, <1>b, <2>1, KnownWhenDrawing DEF Ledger
  <2> QED BY <1>8, <2>1, <2>2, <2>3, <2>4 DEF Ledger
<1>9. CASE RulesOut
    BY <1>8, <1>9, Verdicts DEF RulesOut, Status
<1>10. CASE Begins
    BY <1>8, <1>10 DEF Begins
<1>11. CASE CannotBegin
    BY <1>8, <1>11, Verdicts DEF CannotBegin, Concludes, Status
<1>12. CASE Registers
    BY <1>12, <1>b, KnownKept DEF Registers, Ledger
<1>13. CASE CannotRegister
    BY <1>13, <1>b, KnownKept, Verdicts DEF CannotRegister, Concludes, Ledger, Phases, Status
<1>14. CASE Works
    BY <1>14, <1>b, KnownKept, Verdicts DEF Works, Concludes, Ledger, Phases, Status
<1>15. CASE Files
  <2>1. UNCHANGED <<at, done, marks, failed, current, verdict>>
    BY <1>15 DEF Files
  <2>2. controller = "filing" /\ controller' = "journalling"
    BY <1>15 DEF Files
  <2> QED BY <1>15, <1>b, <2>1, <2>2, KnownWhenFiling DEF Ledger
<1>16. CASE Journals
    BY <1>16, <1>b, KnownKept DEF Journals, Ledger
<1>17. CASE Updates
    BY <1>17, <1>b, KnownKept DEF Updates, Ledger
<1>18. CASE Unmarks
  <2>1. /\ current \in 1..Len(drawn) /\ result[current] = verdict
        /\ current' = 0 /\ Counted' = Counted /\ Known' = Known
        /\ UNCHANGED <<drawn, done, failed>>
    BY <1>18, KnownKept DEF Unmarks, Phases, SuiteTypeOK
  <2>2. CASE current \in marks
    <3>1. current \notin Counted /\ controller' = "recovering" /\ at' = at
      BY <1>18, <2>1, <2>2 DEF Unmarks, Ledger, Counted, Preserved
    <3> QED BY <1>18, <1>b, <2>1, <3>1 DEF Unmarks, Ledger
  <2>3. CASE current \notin marks
    <3>1. /\ at \in 1..Len(Matrix) /\ drawn[current] = Matrix[at]
          /\ at' = at + 1 /\ controller' = "choosing"
      BY <1>18, <2>3, TrialsOfMatrix DEF Unmarks, Phases, SuiteTypeOK
    <3>2. failed \/ current \in Counted
      BY <1>18, <2>1, <2>3 DEF Unmarks, Ledger, Counted, Preserved
    <3>3. failed \/ Matrix[at] \in Known
      BY <3>1, <3>2 DEF Known
    <3> QED BY <1>18, <1>d, <2>1, <3>1, <3>3 DEF Unmarks, Ledger
  <2> QED BY <2>2, <2>3
<1>19. CASE CannotSave \/ Stops \/ Crashes
    BY <1>19, <1>e DEF CannotSave, Stops, Crashes, Ends
<1>20. CASE Interrupted
    BY <1>20, <1>b, KnownKept DEF Interrupted, Ledger
<1>21. CASE Finishes
  <2>1. CASE controller' = "failed"
    BY <1>e, <2>1
  <2>2. CASE ~failed /\ controller' = "passed"
    <3>1. at = Len(Matrix) + 1 /\ Known' = Known
      BY <1>21, KnownKept, TrialsOfMatrix DEF Finishes, SuiteTypeOK
    <3>2. \A i \in 1..Len(Matrix) : Matrix[i] \in Known
      BY <1>21, <2>2, <3>1, TrialsOfMatrix DEF Finishes, Ledger, Behind
    <3> QED BY <2>2, <3>1, <3>2 DEF Ledger
  <2> QED BY <1>21, <2>1, <2>2 DEF Finishes, Ends
<1> QED
    BY <1>1, <1>2, <1>3, <1>4, <1>5, <1>6, <1>7, <1>9, <1>10, <1>11, <1>12, <1>13,
       <1>14, <1>15, <1>16, <1>17, <1>18, <1>19, <1>20, <1>21
       DEF SuiteNext

-----------------------------------------------------------------------------
(* The theorems                                                             *)

SuiteInv ==
    /\ SuiteTypeOK
    /\ Phases
    /\ TrialsAreRetained
    /\ RecordsAgree
    /\ Kinds
    /\ Single
    /\ Ledger
    /\ Marked

LEMMA SuiteInvInit == SuiteInit => SuiteInv
<1> SUFFICES ASSUME SuiteInit PROVE SuiteInv
    OBVIOUS
<1> USE SuiteAssumption, TrialsOfMatrix DEF SuiteInit
<1>1. SuiteTypeOK
  <2>1. drawn \in Seq(Trial) /\ Len(drawn) = 0
    OBVIOUS
  <2>2. raw \in Seq([execution : Execution, outcome : Outcome])
    OBVIOUS
  <2>3. row \in [Execution -> {"none", "running", "completed", "invalid", "failed"}]
    OBVIOUS
  <2>4. result \in [Execution -> Outcome \union {NoOutcome}]
    OBVIOUS
  <2>5. controller \in Ended /\ verdict \in Outcome \union {NoOutcome}
    BY DEF Ended
  <2>6. at \in 1..(Len(Matrix) + 1) /\ starts \in 0..MaxStarts
    OBVIOUS
  <2>7. /\ running \subseteq 1..Len(drawn) /\ Len(drawn) <= MaxExecutions
        /\ current \in 0..Len(drawn)
    BY <2>1
  <2> HIDE DEF SuiteInit
  <2>8. /\ manifest \in BOOLEAN /\ failed \in BOOLEAN /\ interrupted \in BOOLEAN
        /\ done = {} /\ marks = {}
    BY DEF SuiteInit
  <2> QED BY <2>1, <2>2, <2>3, <2>4, <2>5, <2>6, <2>7, <2>8 DEF SuiteTypeOK
<1>2. Phases
    BY DEF Phases, Acting, Saving, Ended
<1>3. TrialsAreRetained /\ RecordsAgree
    BY DEF TrialsAreRetained, RecordsAgree
<1>4. Kinds /\ Single /\ Ledger /\ Marked
    BY DEF Kinds, Single, Ledger, Marked, Counted, Acting, Saving, Ended
<1> QED BY <1>1, <1>2, <1>3, <1>4 DEF SuiteInv

LEMMA SuiteInvStep == SuiteInv /\ [SuiteNext]_suiteVars => SuiteInv'
<1> SUFFICES ASSUME SuiteInv, [SuiteNext]_suiteVars PROVE SuiteInv'
    OBVIOUS
<1> USE DEF SuiteInv
<1>1. SuiteTypeOK'
    BY SuiteTypeStep
<1>2. Phases'
    BY <1>1, PhasesStep
<1>3. (TrialsAreRetained /\ RecordsAgree)'
    BY RecordsStep
<1>4. Kinds'
    BY <1>1, KindsStep
<1>5. Single' /\ Ledger'
    BY <1>1, SingleStep, LedgerStep
<1>6. Marked'
    BY <1>1, MarkedStep
<1> QED BY <1>1, <1>2, <1>3, <1>4, <1>5, <1>6

LEMMA SuiteInvariance == SuiteSpec => []SuiteInv
BY SuiteInvInit, SuiteInvStep, PTL DEF SuiteSpec

\* Every variable of the controller and of what it writes keeps its type.
THEOREM SuiteTypesHold == SuiteSpec => []SuiteTypeOK
<1>1. SuiteInv => SuiteTypeOK
    BY DEF SuiteInv
<1> QED BY <1>1, SuiteInvariance, PTL

\* No execution that the database knows of is ever lost to the suite: it has a
\* result, or a running.json that the next resume turns into one.
THEOREM TrialsStayRetained == SuiteSpec => []TrialsAreRetained
<1>1. SuiteInv => TrialsAreRetained
    BY DEF SuiteInv
<1> QED BY <1>1, SuiteInvariance, PTL

\* Results, raw.jsonl and the rows of the database never contradict one another.
THEOREM RecordsStayInAgreement == SuiteSpec => []RecordsAgree
<1>1. SuiteInv => RecordsAgree
    BY DEF SuiteInv
<1> QED BY <1>1, SuiteInvariance, PTL

\* No start of the program changes a result it finds, or what raw.jsonl held.
THEOREM SavedResultsStand == SuiteSpec => ResultsStand
<1> DEFINE Stands ==
        /\ \A e \in Execution : result[e] # NoOutcome => result'[e] = result[e]
        /\ SubSeq(raw', 1, Len(raw)) = raw
<1>1. SuiteInv /\ [SuiteNext]_suiteVars => [Stands]_suiteVars
  <2> SUFFICES ASSUME SuiteInv, [SuiteNext]_suiteVars PROVE Stands
      OBVIOUS
  <2>1. \A e \in Execution : result[e] # NoOutcome => result'[e] = result[e]
    <3>1. CASE Files
      BY <3>1, KnownWhenFiling DEF SuiteInv, SuiteTypeOK, Files, Phases
    <3>2. CASE UNCHANGED result
      BY <3>2
    <3> QED BY <3>1, <3>2, ResultsChange
  <2>2. raw' = raw \/ (controller = "journalling" /\ raw' = Journalled)
    BY RawChange
  <2>3. SubSeq(raw, 1, Len(raw)) = raw
    BY DEF SuiteInv, SuiteTypeOK
  <2> QED BY <2>1, <2>2, <2>3, EntryAppended DEF SuiteInv, Saving
<1> QED BY <1>1, SuiteInvariance, PTL DEF SuiteSpec, ResultsStand

\* A run that passes, after however many crashes and resumes, leaves exactly one
\* result that counts for every trial, and a result for every trial ever begun.
THEOREM PassesAreEarned == SuiteSpec => []PassedIsEarned
<1>1. SuiteInv => PassedIsEarned
  <2> SUFFICES ASSUME SuiteInv, controller = "passed"
               PROVE  /\ \A i \in 1..Len(Matrix) : \E e \in 1..Len(drawn) :
                          /\ Counts(e, Matrix[i])
                          /\ \A d \in 1..Len(drawn) : Counts(d, Matrix[i]) => d = e
                      /\ \A e \in running : result[e] # NoOutcome
      BY DEF PassedIsEarned
  <2>1. ASSUME NEW i \in 1..Len(Matrix)
        PROVE  \E e \in 1..Len(drawn) :
                  /\ Counts(e, Matrix[i])
                  /\ \A d \in 1..Len(drawn) : Counts(d, Matrix[i]) => d = e
    <3>1. PICK e \in Counted : drawn[e] = Matrix[i]
      BY DEF SuiteInv, Ledger, Known
    <3>2. e \in 1..Len(drawn) /\ Counts(e, Matrix[i])
      BY <3>1 DEF SuiteInv, Kinds, Kind, Counted, Preserved, Counts
    <3>3. ASSUME NEW d \in 1..Len(drawn), Counts(d, Matrix[i]) PROVE d = e
      <4>1. d \in Counted /\ drawn[d] = Matrix[i]
        BY <3>3 DEF Counts, Counted, Preserved
      <4> QED BY <3>1, <4>1 DEF SuiteInv, Single
    <3> QED BY <3>2, <3>3
  <2>2. \A e \in running : result[e] # NoOutcome
    BY DEF SuiteInv, Marked, Phases, Ended
  <2> QED BY <2>1, <2>2
<1> QED BY <1>1, SuiteInvariance, PTL

=============================================================================
