------------------------- MODULE ClaudeRunner_proofs -------------------------
(***************************************************************************)
(* Three arguments about an invocation of the Claude runner.  The binary   *)
(* measured is of the Go files the environment names, for any number of    *)
(* edits and commits while main builds it, because versions only grow:     *)
(* what was compiled lies between the version of the first reading and     *)
(* that of the second, and the second reading makes those two the same.    *)
(* A run is scored a success exactly when it deserves it, because each use *)
(* in a stream has at most one result, and that after it.  And so a        *)
(* summary counts the runs that deserved it, of every task in both modes.  *)
(***************************************************************************)
EXTENDS ClaudeRunner, Gate6Answer_proofs

Compiling == build.source \in Nat /\ build.source <= build.tree

BuildOk ==
  /\ step \in Step
  /\ build \in Build
  /\ step \in {"build", "verify"} => Compiling
  /\ step = "verify" =>
       build.binary \in Nat /\ build.source <= build.binary /\ build.binary <= build.tree
  /\ BuiltFromRecordedSource

LEMMA BuildFields ==
  ASSUME NEW b \in Build
  PROVE  /\ b.tree \in 0 .. MaxEdits /\ b.tree \in Nat
         /\ b.clean \in BOOLEAN
         /\ b.source \in {Unread} \cup 0 .. MaxEdits
         /\ b.binary \in {Unread} \cup 0 .. MaxEdits
BY BuildAssumption DEF Build

LEMMA InitialBuild == Init => BuildOk
<1> SUFFICES ASSUME Init PROVE BuildOk
  OBVIOUS
<1>1. build \in Build
  BY BuildAssumption DEF Init, NewBuild, Build
<1> QED
  BY <1>1 DEF Init, BuildOk, Step, BuiltFromRecordedSource

LEMMA ReadingStep == BuildOk /\ Prepare => BuildOk'
<1> SUFFICES ASSUME BuildOk, Prepare PROVE BuildOk'
  OBVIOUS
<1>1. CASE BuildStep("prepare", "build", Recorded(build))
  <2>1. build' = [build EXCEPT !.source = build.tree] /\ step' = "build"
    BY <1>1 DEF BuildStep, Recorded
  <2>2. build \in Build
    BY DEF BuildOk
  <2>3. build' \in Build /\ build'.tree = build.tree /\ build'.source = build.tree
    BY <2>1, <2>2, BuildFields DEF Build
  <2> QED
    BY <2>1, <2>2, <2>3, BuildFields DEF BuildOk, Step, Compiling, BuiltFromRecordedSource
<1>2. CASE Refused("prepare", Recorded(build))
  BY <1>2 DEF Refused, BuildOk, Step, BuiltFromRecordedSource
<1> QED
  BY <1>1, <1>2 DEF Prepare

LEMMA CompilingStep == BuildOk /\ GoBuild => BuildOk'
<1> SUFFICES ASSUME BuildOk, GoBuild PROVE BuildOk'
  OBVIOUS
<1>1. build' = [build EXCEPT !.binary = build.tree] /\ step = "build" /\ step' = "verify"
  BY DEF GoBuild, BuildStep, Compiled
<1>2. build \in Build /\ Compiling
  BY <1>1 DEF BuildOk
<1>3. /\ build' \in Build
      /\ build'.tree = build.tree /\ build'.source = build.source /\ build'.binary = build.tree
  BY <1>1, <1>2, BuildFields DEF Build
<1> QED
  BY <1>1, <1>2, <1>3, BuildFields DEF BuildOk, Step, Compiling, BuiltFromRecordedSource

LEMMA SecondReadingStep == BuildOk /\ VerifyBuild => BuildOk'
<1> SUFFICES ASSUME BuildOk, VerifyBuild PROVE BuildOk'
  OBVIOUS
<1>1. CASE BuildStep("verify", "client", Verified(build))
  <2>1. build' = build /\ build.tree = build.source /\ step = "verify" /\ step' = "client"
    BY <1>1 DEF BuildStep, Verified
  <2>2. /\ build \in Build /\ build.source \in Nat /\ build.binary \in Nat
        /\ build.source <= build.binary /\ build.binary <= build.tree
    BY <2>1 DEF BuildOk, Compiling
  <2>3. build.binary = build.source /\ build.source # Unread
    BY <2>1, <2>2, BuildAssumption
  <2> QED
    BY <2>1, <2>2, <2>3 DEF BuildOk, Step, BuiltFromRecordedSource, BinaryIsOfSource
<1>2. CASE Refused("verify", Verified(build))
  BY <1>2 DEF Refused, BuildOk, Step, BuiltFromRecordedSource
<1> QED
  BY <1>1, <1>2 DEF VerifyBuild

\* An edit makes the version of the files greater and leaves what was read
\* and compiled; a commit leaves the versions.
LEMMA EditStep == BuildOk /\ EditInputs => BuildOk'
<1> SUFFICES ASSUME BuildOk, EditInputs PROVE BuildOk'
  OBVIOUS
<1>1. step \in {"build", "verify"} /\ step' = step /\ build' \in Edits(build)
  BY DEF EditInputs
<1>2. build \in Build /\ Compiling
  BY <1>1 DEF BuildOk
<1>3. /\ build.tree \in 0 .. MaxEdits /\ build.tree \in Nat
      /\ build.source \in {Unread} \cup 0 .. MaxEdits
      /\ build.binary \in {Unread} \cup 0 .. MaxEdits
  BY <1>2, BuildFields
<1>4. /\ build' \in Build /\ build'.tree \in Nat /\ build.tree <= build'.tree
      /\ build'.source = build.source /\ build'.binary = build.binary
  <2>1. CASE build' = [build EXCEPT !.clean = TRUE]
    <3>1. /\ build'.tree = build.tree /\ build'.source = build.source
          /\ build'.binary = build.binary /\ build' \in Build
      BY <1>2, <2>1 DEF Build
    <3> QED
      BY <1>3, <3>1
  <2>2. CASE build.tree < MaxEdits /\ build' \in {[build EXCEPT !.tree = @ + 1, !.clean = FALSE]}
    <3>1. build.tree + 1 \in 0 .. MaxEdits
      BY <1>3, <2>2, BuildAssumption
    <3>2. /\ build'.tree = build.tree + 1 /\ build'.source = build.source
          /\ build'.binary = build.binary /\ build' \in Build
      BY <1>2, <2>2, <3>1 DEF Build
    <3> QED
      BY <1>3, <3>2
  <2>3. \/ build' = [build EXCEPT !.clean = TRUE]
        \/ /\ build.tree < MaxEdits
           /\ build' \in {[build EXCEPT !.tree = @ + 1, !.clean = FALSE]}
    BY <1>1 DEF Edits
  <2> QED
    BY <2>1, <2>2, <2>3
<1> QED
  BY <1>1, <1>2, <1>3, <1>4 DEF BuildOk, Step, Compiling, BuiltFromRecordedSource

\* Once the binary is verified nothing builds it again.
LEMMA OtherSteps ==
  ASSUME BuildOk, UNCHANGED build,
         step' = step \/ step' = "end" \/ (step \in {"client", "next"} /\ step' \in {"client", "next"})
  PROVE  BuildOk'
BY DEF BuildOk, Step, Compiling, BuiltFromRecordedSource, BinaryIsOfSource

LEMMA BuildStaysOk == BuildOk /\ [Next]_vars => BuildOk'
<1> SUFFICES ASSUME BuildOk, [Next]_vars PROVE BuildOk'
  OBVIOUS
<1>1. CASE Prepare
  BY <1>1, ReadingStep
<1>2. CASE GoBuild
  BY <1>2, CompilingStep
<1>3. CASE VerifyBuild
  BY <1>3, SecondReadingStep
<1>4. CASE EditInputs
  BY <1>4, EditStep
<1>5. CASE run_claude
  BY <1>5, OtherSteps DEF run_claude
<1>6. CASE NextRun
  BY <1>6, OtherSteps DEF NextRun
<1>7. CASE WriteResults
  BY <1>7, OtherSteps DEF WriteResults
<1>8. CASE UseTool
  BY <1>8, OtherSteps DEF UseTool, Emit
<1>9. CASE GetResult
  BY <1>9, OtherSteps DEF GetResult, Emit
<1>10. CASE Killed
  BY <1>10, OtherSteps DEF Killed
<1>11. CASE UNCHANGED vars
  BY <1>11, OtherSteps DEF vars
<1> QED
  BY <1>1, <1>2, <1>3, <1>4, <1>5, <1>6, <1>7, <1>8, <1>9, <1>10, <1>11 DEF Next, main

\* No run of the client is measured with a binary of other Go files than those
\* whose digest is recorded with it.
THEOREM MeasuredBinaryIsRecorded == Spec => []BuiltFromRecordedSource
<1>1. Init => BuildOk
  BY InitialBuild
<1>2. BuildOk /\ [Next]_vars => BuildOk'
  BY BuildStaysOk
<1>3. BuildOk => BuiltFromRecordedSource
  BY DEF BuildOk
<1> QED
  BY <1>1, <1>2, <1>3, PTL DEF Spec

-----------------------------------------------------------------------------
(* The records: every run is paired with one of the other mode on the same *)
(* task, because the modes take turns as ModeOfRun says.                   *)

\* The lengths of the two record files.
Balanced(e, s) ==
  \/ e = s
  \/ e = s + 1 /\ s % 2 = 0
  \/ s = e + 1 /\ e % 2 = 1

E == Len(records["eager"])
S == Len(records["skillloader"])

TypesOk ==
  /\ tasks \in Seq(Task) /\ tasks # <<>>
  /\ events \in Seq(Block)
  /\ records \in [Mode -> Seq(Record)]

TurnsOk ==
  /\ Balanced(E, S)
  /\ step \in {"prepare", "build", "verify"} => E + S = 0
  /\ step = "client" => E + S < 2 * Len(tasks)

RecordsOk ==
  \A m \in Mode : \A i \in DOMAIN records[m] :
    /\ i \in DOMAIN tasks
    /\ records[m][i].task = tasks[i]
    /\ records[m][i].top_five_recall = None <=> m = "eager" \/ tasks[i].no_load

IInv == BuildOk /\ TypesOk /\ TurnsOk /\ RecordsOk

LEMMA Turns ==
  ASSUME NEW e \in Nat, NEW s \in Nat, Balanced(e, s)
  PROVE  /\ ModeOfRun(e + s) \in Mode
         /\ ModeOfRun(e + s) = "eager" => Balanced(e + 1, s) /\ (e + s) \div 2 = e
         /\ ModeOfRun(e + s) = "skillloader" => Balanced(e, s + 1) /\ (e + s) \div 2 = s
<1>1. CASE e = s
  BY <1>1 DEF ModeOfRun, Balanced, Mode
<1>2. CASE e = s + 1 /\ s % 2 = 0
  BY <1>2 DEF ModeOfRun, Balanced, Mode
<1>3. CASE s = e + 1 /\ e % 2 = 1
  BY <1>3 DEF ModeOfRun, Balanced, Mode
<1> QED
  BY <1>1, <1>2, <1>3 DEF Balanced

LEMMA Lengths == TypesOk => E \in Nat /\ S \in Nat /\ Runs = E + S /\ Len(tasks) \in Nat \ {0}
<1> SUFFICES ASSUME TypesOk PROVE E \in Nat /\ S \in Nat /\ Runs = E + S /\ Len(tasks) \in Nat \ {0}
  OBVIOUS
<1>1. records["eager"] \in Seq(Record) /\ records["skillloader"] \in Seq(Record)
  BY DEF TypesOk, Mode
<1>2. Len(tasks) \in Nat \ {0}
  BY DEF TypesOk
<1> QED
  BY <1>1, <1>2 DEF E, S, Runs

\* What score_run gives has the types of a record.
LEMMA ScoreTypes ==
  ASSUME NEW m \in Mode, NEW t \in Task, NEW stream, NEW r
  PROVE  /\ score_run(m, t, stream, r).task_success \in BOOLEAN
         /\ score_run(m, t, stream, r).top_five_recall \in BOOLEAN \cup {None}
         /\ score_run(m, t, stream, r).top_five_recall = None <=> m = "eager" \/ t.no_load
         /\ Earned(m, t, stream, r) \in BOOLEAN
<1>1. score_run(m, t, stream, r).task_success \in BOOLEAN
  BY DEF score_run, task_success
<1>2. score_run(m, t, stream, r).top_five_recall =
        IF m = "eager" \/ t.expected_top = NoName THEN None
        ELSE t.expected_top \in NamesIn(search_names(stream))
  BY DEF score_run
<1>3. t.no_load <=> t.expected_top = NoName
  BY FixtureAssumption
<1>4. Earned(m, t, stream, r) \in BOOLEAN
  BY DEF Earned, RightAnswer
<1> DEFINE recall == score_run(m, t, stream, r).top_five_recall
<1> DEFINE found == t.expected_top \in NamesIn(search_names(stream))
<1>5. CASE m = "eager" \/ t.expected_top = NoName
  BY <1>1, <1>2, <1>3, <1>4, <1>5, Zenon
<1>6. CASE ~(m = "eager" \/ t.expected_top = NoName)
  <2>1. recall = found
    BY <1>2, <1>6, Zenon
  <2>2. found \in BOOLEAN
    OBVIOUS
  <2> HIDE DEF found
  <2>3. found # None
    BY <2>2, RunnerAssumption
  <2> QED
    BY <1>1, <1>3, <1>4, <1>6, <2>1, <2>2, <2>3, Zenon
<1> QED
  BY <1>5, <1>6, Zenon

\* The steps that leave the records and the tasks.
LEMMA FilesStay ==
  ASSUME IInv, BuildOk', UNCHANGED <<tasks, records>>, events' \in Seq(Block),
         step' \in {"prepare", "build", "verify"} => step \in {"prepare", "build", "verify"},
         step' = "client" => E + S < 2 * Len(tasks)
  PROVE  IInv'
<1>1. TypesOk' /\ TurnsOk'
  BY DEF IInv, TypesOk, TurnsOk, E, S
<1>2. RecordsOk'
  BY DEF IInv, RecordsOk
<1> QED
  BY <1>1, <1>2 DEF IInv

LEMMA EmittedIsBlock ==
  ASSUME IInv, NEW block \in Block, NEW others, Emit(block, others)
  PROVE  IInv'
<1>1. BuildOk'
  BY OtherSteps DEF IInv, Emit
<1>2. events' \in Seq(Block)
  BY DEF Emit, IInv, TypesOk
<1> QED
  BY <1>1, <1>2, FilesStay DEF Emit, IInv, TurnsOk

LEMMA UseToolStep == IInv /\ UseTool => IInv'
<1> SUFFICES ASSUME IInv, UseTool PROVE IInv'
  OBVIOUS
<1>1. ASSUME NEW tool \in Tool, NEW n \in Name \cup {NoName}, NEW apt \in BOOLEAN
      PROVE  Use(tool, n, apt) \in Block
  BY <1>1 DEF Use, Block
<1> QED
  BY <1>1, EmittedIsBlock DEF UseTool, Tool

LEMMA GetResultStep == IInv /\ GetResult => IInv'
<1> SUFFICES ASSUME IInv, GetResult PROVE IInv'
  OBVIOUS
<1>1. PICK i \in mcp_calls(events, "search_skills") \cup mcp_calls(events, "load_skill"),
           matches \in Matches \cup {<<>>} : Emit(Result(events, i, matches), Cardinality(Others))
  BY DEF GetResult
<1>2. i \in DOMAIN events
  BY <1>1 DEF mcp_calls, assistant_tool_uses
<1>3. events \in Seq(Block)
  BY DEF IInv, TypesOk
<1>4. events[i] \in Block /\ i \in Nat
  BY <1>2, <1>3
<1>5. Result(events, i, matches) \in Block
  BY <1>4 DEF Result, Block
<1> QED
  BY <1>1, <1>5, EmittedIsBlock

\* The task whose turn it is while the client runs.
LEMMA TurnIsOfATask ==
  ASSUME IInv, step = "client"
  PROVE  /\ E \in Nat /\ S \in Nat /\ Runs = E + S
         /\ mode \in Mode
         /\ mode = "eager" => Balanced(E + 1, S) /\ Runs \div 2 = E
         /\ mode = "skillloader" => Balanced(E, S + 1) /\ Runs \div 2 = S
         /\ Runs \div 2 + 1 \in DOMAIN tasks /\ task \in Task
<1>1. E \in Nat /\ S \in Nat /\ Runs = E + S /\ Balanced(E, S) /\ E + S < 2 * Len(tasks)
  BY Lengths DEF IInv, TurnsOk
<1>2. /\ mode \in Mode
      /\ mode = "eager" => Balanced(E + 1, S) /\ Runs \div 2 = E
      /\ mode = "skillloader" => Balanced(E, S + 1) /\ Runs \div 2 = S
  BY <1>1, Turns DEF mode
<1>3. tasks \in Seq(Task) /\ Len(tasks) \in Nat
  BY DEF IInv, TypesOk
<1>4. Runs \div 2 + 1 \in 1 .. Len(tasks)
  BY <1>1, <1>3
<1> QED
  BY <1>1, <1>2, <1>3, <1>4 DEF task

LEMMA RunStep == IInv /\ run_claude => IInv'
<1> SUFFICES ASSUME IInv, run_claude PROVE IInv'
  OBVIOUS
<1> DEFINE m == mode
<1> DEFINE t == task
<1>1. PICK r \in Answer \cup {None}, executed \in BOOLEAN, readable \in BOOLEAN :
        records' = [records EXCEPT ![mode] = Append(@,
          [ task |-> task, executed |-> executed, readable |-> readable,
            top_five_recall |-> score_run(mode, task, events, r).top_five_recall,
            task_success |-> score_run(mode, task, events, r).task_success,
            earned |-> Earned(mode, task, events, r) ])]
  BY DEF run_claude
<1> DEFINE score == score_run(m, t, events, r)
<1> DEFINE record == [ task |-> t, executed |-> executed, readable |-> readable,
                       top_five_recall |-> score.top_five_recall,
                       task_success |-> score.task_success, earned |-> Earned(m, t, events, r) ]
<1>2. records' = [records EXCEPT ![m] = Append(records[m], record)]
  BY <1>1
<1>3. /\ step = "client" /\ step' = "next" /\ events' = <<>>
      /\ UNCHANGED <<build, tasks, summary>>
  BY DEF run_claude
<1>5. /\ m \in Mode
      /\ m = "eager" => Balanced(E + 1, S) /\ Runs \div 2 = E
      /\ m = "skillloader" => Balanced(E, S + 1) /\ Runs \div 2 = S
  BY <1>3, TurnIsOfATask
<1>6. Runs \div 2 + 1 \in DOMAIN tasks /\ t \in Task
  BY <1>3, TurnIsOfATask
<1>7. /\ score.task_success \in BOOLEAN /\ score.top_five_recall \in BOOLEAN \cup {None}
      /\ score.top_five_recall = None <=> m = "eager" \/ t.no_load
      /\ Earned(m, t, events, r) \in BOOLEAN
  BY <1>5, <1>6, ScoreTypes
<1>8. record \in Record /\ record.task = t /\ record.top_five_recall = score.top_five_recall
  BY <1>6, <1>7 DEF Record
<1> HIDE DEF record, score, t
<1>9. records \in [Mode -> Seq(Record)]
  BY DEF IInv, TypesOk
<1> HIDE DEF m
<1>10. /\ records'[m] = Append(records[m], record)
       /\ \A k \in Mode \ {m} : records'[k] = records[k]
       /\ records[m] \in Seq(Record)
  BY <1>2, <1>5, <1>9
<1>11. records' \in [Mode -> Seq(Record)]
  BY <1>2, <1>5, <1>8, <1>9, <1>10
<1>12. TypesOk'
  BY <1>3, <1>11 DEF IInv, TypesOk
<1>13. TurnsOk'
  <2>1. CASE m = "eager"
    <3>1. E' = E + 1 /\ S' = S
      BY <1>10, <2>1 DEF E, S, Mode
    <3> QED
      BY <1>3, <1>5, <2>1, <3>1 DEF TurnsOk
  <2>2. CASE m = "skillloader"
    <3>1. E' = E /\ S' = S + 1
      BY <1>10, <2>2 DEF E, S, Mode
    <3> QED
      BY <1>3, <1>5, <2>2, <3>1 DEF TurnsOk
  <2> QED
    BY <1>5, <2>1, <2>2 DEF Mode
<1>14. Len(records[m]) = Runs \div 2
  BY <1>5 DEF Mode, E, S
<1>15. t = tasks[Len(records[m]) + 1] /\ Len(records[m]) + 1 \in DOMAIN tasks
  BY <1>6, <1>14 DEF t, task
<1>16. RecordsOk'
  <2> SUFFICES ASSUME NEW k \in Mode, NEW i \in DOMAIN records'[k]
               PROVE  /\ i \in DOMAIN tasks
                      /\ records'[k][i].task = tasks[i]
                      /\ records'[k][i].top_five_recall = None <=> k = "eager" \/ tasks[i].no_load
    BY <1>3 DEF RecordsOk
  <2>1. CASE k # m \/ i \in DOMAIN records[k]
    <3>1. i \in DOMAIN records[k] /\ records'[k][i] = records[k][i]
      <4>1. CASE k # m
        BY <1>10, <4>1
      <4>2. CASE k = m
        BY <1>10, <2>1, <4>2
      <4> QED
        BY <4>1, <4>2
    <3> QED
      BY <3>1 DEF IInv, RecordsOk
  <2>2. CASE k = m /\ i \notin DOMAIN records[k]
    <3>1. i = Len(records[m]) + 1 /\ records'[k][i] = record
      BY <1>10, <2>2
    <3> QED
      BY <1>7, <1>8, <1>15, <2>2, <3>1
  <2> QED
    BY <2>1, <2>2
<1>17. BuildOk'
  BY <1>3, OtherSteps DEF IInv
<1> QED
  BY <1>12, <1>13, <1>16, <1>17 DEF IInv

LEMMA Initially == Init => IInv
<1> SUFFICES ASSUME Init PROVE IInv
  OBVIOUS
<1>1. BuildOk
  BY InitialBuild
<1>2. /\ records \in [Mode -> Seq(Record)]
      /\ \A m \in Mode : records[m] = <<>>
  BY DEF Init
<1>3. TypesOk
  BY <1>2, RunnerAssumption DEF Init, TypesOk
<1>4. E = 0 /\ S = 0
  BY <1>2 DEF E, S, Mode
<1>5. TurnsOk
  BY <1>4 DEF Init, TurnsOk, Balanced
<1>6. RecordsOk
  BY <1>2 DEF RecordsOk
<1> QED
  BY <1>1, <1>3, <1>5, <1>6 DEF IInv

LEMMA StepsKeep == IInv /\ [Next]_vars => IInv'
<1> SUFFICES ASSUME IInv, [Next]_vars PROVE IInv'
  OBVIOUS
<1>1. BuildOk'
  BY BuildStaysOk DEF IInv
<1>2. events \in Seq(Block) /\ Len(tasks) \in Nat \ {0}
  BY Lengths DEF IInv, TypesOk
<1>3. CASE Prepare
  BY <1>1, <1>2, <1>3, FilesStay DEF Prepare, BuildStep, Refused
<1>4. CASE GoBuild
  BY <1>1, <1>2, <1>4, FilesStay DEF GoBuild, BuildStep
<1>5. CASE VerifyBuild
  <2>1. step = "verify" => E + S < 2 * Len(tasks)
    BY <1>2, Lengths DEF IInv, TurnsOk
  <2> QED
    BY <1>1, <1>2, <1>5, <2>1, FilesStay DEF VerifyBuild, BuildStep, Refused
<1>6. CASE EditInputs
  BY <1>1, <1>2, <1>6, FilesStay DEF EditInputs
<1>7. CASE run_claude
  BY <1>7, RunStep
<1>8. CASE NextRun
  BY <1>1, <1>2, <1>8, Lengths, FilesStay DEF NextRun, IInv
<1>9. CASE WriteResults
  BY <1>1, <1>2, <1>9, FilesStay DEF WriteResults
<1>10. CASE UseTool
  BY <1>10, UseToolStep
<1>11. CASE GetResult
  BY <1>11, GetResultStep
<1>12. CASE Killed
  BY <1>1, <1>2, <1>12, FilesStay DEF Killed
<1>13. CASE UNCHANGED vars
  BY <1>1, <1>2, <1>13, FilesStay DEF vars, IInv, TurnsOk
<1> QED
  BY <1>3, <1>4, <1>5, <1>6, <1>7, <1>8, <1>9, <1>10, <1>11, <1>12, <1>13 DEF Next, main

\* The stream of the client and the records keep their types, and neither
\* mode is more than one run ahead of the other, however many tasks there are.
THEOREM TypeCorrect == Spec => []TypeOK
<1>1. Init => IInv
  BY Initially
<1>2. IInv /\ [Next]_vars => IInv'
  BY StepsKeep
<1>3. IInv => TypeOK
  <2> SUFFICES ASSUME IInv PROVE TypeOK
    OBVIOUS
  <2>1. E \in Nat /\ S \in Nat /\ Balanced(E, S)
    BY Lengths DEF IInv, TurnsOk
  <2>2. E <= S + 1 /\ S <= E + 1
    BY <2>1 DEF Balanced
  <2> QED
    BY <2>2 DEF IInv, BuildOk, TypesOk, TypeOK, E, S
<1> QED
  BY <1>1, <1>2, <1>3, PTL DEF Spec

-----------------------------------------------------------------------------
(* The scoring.  An answer is right, and the loads are those of the task,  *)
(* exactly when the scores of the answer say so (AnswerScored); the stream *)
(* is that of Earned exactly when tool_sequence_ok says so.  Both rest on  *)
(* what the client prints: a result belongs to one use before it, and      *)
(* every use has at most one.                                              *)

\* What is there of a stream at any time of a run.
StreamOk(stream) ==
  \A i \in DOMAIN stream :
    /\ stream[i].type = "tool_use" =>
         /\ stream[i].use = 0
         /\ stream[i].tool = "load_skill" /\ stream[i].apt => stream[i].name \in Name
    /\ stream[i].type = "tool_result" =>
         /\ stream[i].use \in 1 .. i - 1
         /\ \A j \in tool_results_by_use_id(stream, stream[i].use) : j = i

\* What Earned asks of the stream, in the terms of score_run.
StreamEarned(m, t, stream) ==
  LET searches == mcp_calls(stream, "search_skills")
      calls == mcp_calls(stream, "load_skill")
      loads == named_loads(stream)
  IN  /\ non_skillloader_tool_uses(stream, m) = {}
      /\ m = "skillloader" =>
           \E s \in searches :
             /\ searches = {s} /\ stream[s].apt
             /\ tool_results_by_use_id(stream, s) # {}
             /\ \A n \in t.required_names : \E i \in loads :
                  /\ i > s /\ stream[i].name = n
                  /\ tool_results_by_use_id(stream, i) # {}
                  /\ \A k \in loads : stream[k].name = n => k = i
                  /\ \E j \in tool_results_by_use_id(stream, s) : n \in NamesIn(stream[j].matches)
             /\ \A i \in loads : stream[i].name \in t.required_names
             /\ \A i \in calls \ loads : i > s /\ tool_results_by_use_id(stream, i) # {}

\* A block that names a use is a result of it, and comes after it.
LEMMA ResultsOfUses ==
  ASSUME NEW stream \in Seq(Block), StreamOk(stream), NEW i \in DOMAIN stream
  PROVE  /\ \A j \in DOMAIN stream : stream[j].use = i <=> j \in tool_results_by_use_id(stream, i)
         /\ \A j \in tool_results_by_use_id(stream, i) : j \in DOMAIN stream /\ j > i
         /\ \A j, k \in tool_results_by_use_id(stream, i) : j = k
<1>1. i \in Nat /\ i # 0
  OBVIOUS
<1>2. \A j \in DOMAIN stream : stream[j] \in Block /\ j \in Nat
  OBVIOUS
<1>3. ASSUME NEW j \in DOMAIN stream, stream[j].use = i
      PROVE  stream[j].type = "tool_result" /\ j > i
  <2>1. stream[j].type \in {"tool_use", "tool_result"}
    BY <1>2 DEF Block
  <2>2. stream[j].type = "tool_result"
    BY <1>1, <1>3, <2>1 DEF StreamOk
  <2>3. i \in 1 .. j - 1
    BY <1>3, <2>2 DEF StreamOk
  <2> QED
    BY <1>1, <1>2, <2>2, <2>3
<1>4. ASSUME NEW j \in tool_results_by_use_id(stream, i), NEW k \in tool_results_by_use_id(stream, i)
      PROVE  j = k
  BY <1>4 DEF StreamOk, tool_results_by_use_id
<1> QED
  BY <1>3, <1>4 DEF tool_results_by_use_id

LEMMA EarnedInTerms ==
  ASSUME NEW m \in Mode, NEW t \in Task, NEW r,
         NEW stream \in Seq(Block), StreamOk(stream)
  PROVE  Earned(m, t, stream, r) <=> RightAnswer(t, r) /\ StreamEarned(m, t, stream)
<1> DEFINE uses == assistant_tool_uses(stream)
<1> DEFINE searches == mcp_calls(stream, "search_skills")
<1> DEFINE calls == mcp_calls(stream, "load_skill")
<1> DEFINE loads == named_loads(stream)
<1> DEFINE Ended(i) == \E j \in DOMAIN stream : j > i /\ stream[j].use = i
<1> DEFINE Results(i) == tool_results_by_use_id(stream, i)
<1>1. uses \subseteq DOMAIN stream /\ \A i \in uses : stream[i].tool \in Tool
  <2>1. \A i \in DOMAIN stream : stream[i] \in Block
    OBVIOUS
  <2> QED
    BY <2>1 DEF assistant_tool_uses, Block
<1>2. \A i \in uses : Ended(i) <=> Results(i) # {}
  BY <1>1, ResultsOfUses
<1>3. \A i \in uses : \A n :
        (\E j \in DOMAIN stream : stream[j].use = i /\ n \in NamesIn(stream[j].matches))
          <=> \E j \in Results(i) : n \in NamesIn(stream[j].matches)
  BY <1>1, ResultsOfUses
<1>4. /\ searches = {i \in uses : stream[i].tool = "search_skills"}
      /\ calls = {i \in uses : stream[i].tool = "load_skill"}
      /\ loads = {i \in uses : stream[i].tool = "load_skill" /\ stream[i].apt}
  BY DEF mcp_calls, named_loads
<1>5. non_skillloader_tool_uses(stream, m) = {}
        <=> /\ \A i \in uses : stream[i].tool # "foreign"
            /\ m = "eager" => \A i \in uses : stream[i].tool = "StructuredOutput"
  <2>1. CASE m = "eager"
    BY <1>1, <2>1 DEF non_skillloader_tool_uses
  <2>2. CASE m = "skillloader"
    BY <1>1, <2>2 DEF non_skillloader_tool_uses, Tool
  <2> QED
    BY <2>1, <2>2 DEF Mode
<1> DEFINE Loads(i, n) ==
             stream[i].tool = "load_skill" /\ stream[i].apt /\ stream[i].name = n
<1> DEFINE Loaded(s, n) == \E i \in uses :
             /\ i > s /\ Loads(i, n) /\ Ended(i)
             /\ \A k \in uses \ {i} : ~Loads(k, n)
             /\ \E j \in DOMAIN stream : stream[j].use = s /\ n \in NamesIn(stream[j].matches)
<1> DEFINE Rest(s) == \A i \in uses : stream[i].tool = "load_skill" =>
             IF stream[i].apt THEN stream[i].name \in t.required_names
                              ELSE i > s /\ Ended(i)
<1> DEFINE RestToo(s) ==
             /\ \A i \in loads : stream[i].name \in t.required_names
             /\ \A i \in calls \ loads : i > s /\ Results(i) # {}
<1> DEFINE LoadedToo(s, n) == \E i \in loads :
             /\ i > s /\ stream[i].name = n
             /\ Results(i) # {}
             /\ \A k \in loads : stream[k].name = n => k = i
             /\ \E j \in Results(s) : n \in NamesIn(stream[j].matches)
<1>6. ASSUME NEW s \in uses, NEW n PROVE Loaded(s, n) <=> LoadedToo(s, n)
  <2> HIDE DEF uses, calls, loads, Ended, Results
  <2>1. ASSUME Loaded(s, n) PROVE LoadedToo(s, n)
    BY <1>2, <1>3, <1>4, <2>1
  <2>2. ASSUME LoadedToo(s, n) PROVE Loaded(s, n)
    BY <1>2, <1>3, <1>4, <2>2
  <2> QED
    BY <2>1, <2>2
<1>7. ASSUME NEW s \in uses
      PROVE  /\ (stream[s].tool = "search_skills" /\ \A i \in uses \ {s} : stream[i].tool # "search_skills")
                  <=> s \in searches /\ searches = {s}
             /\ Rest(s) <=> RestToo(s)
  <2> HIDE DEF uses, searches, calls, loads, Ended, Results
  <2>1. Rest(s) <=> RestToo(s)
    BY <1>2, <1>4
  <2> QED
    BY <1>4, <2>1
<1> DEFINE Routed == \E s \in uses :
             /\ stream[s].tool = "search_skills" /\ stream[s].apt /\ Ended(s)
             /\ \A i \in uses \ {s} : stream[i].tool # "search_skills"
             /\ \A n \in t.required_names : Loaded(s, n)
             /\ Rest(s)
<1> DEFINE RoutedToo == \E s \in searches :
             /\ searches = {s} /\ stream[s].apt
             /\ Results(s) # {}
             /\ \A n \in t.required_names : LoadedToo(s, n)
             /\ RestToo(s)
<1>8. Routed <=> RoutedToo
  <2>1. searches \subseteq uses
    BY <1>4
  <2> HIDE DEF uses, searches, Ended, Results, Loaded, LoadedToo, Rest, RestToo
  <2> QED
    BY <1>2, <1>6, <1>7, <2>1
<1>9. Earned(m, t, stream, r) <=>
        /\ RightAnswer(t, r)
        /\ \A i \in uses : stream[i].tool # "foreign"
        /\ m = "eager" => \A i \in uses : stream[i].tool = "StructuredOutput"
        /\ m = "skillloader" => Routed
  BY DEF Earned
<1>10. StreamEarned(m, t, stream) <=>
        /\ non_skillloader_tool_uses(stream, m) = {}
        /\ m = "skillloader" => RoutedToo
  BY DEF StreamEarned
<1> HIDE DEF uses, Routed, RoutedToo
<1> QED
  BY <1>5, <1>8, <1>9, <1>10

LEMMA OneOf ==
  ASSUME NEW x \in Nat
  PROVE  Min({x}) = x /\ Max({x}) = x
BY DEF Min, Max

\* What the first search offered, where there is one search with a result.
LEMMA SearchOffers ==
  ASSUME NEW stream \in Seq(Block), StreamOk(stream),
         NEW s \in DOMAIN stream, mcp_calls(stream, "search_skills") = {s},
         NEW j \in tool_results_by_use_id(stream, s)
  PROVE  Min(mcp_calls(stream, "search_skills")) = s /\ search_names(stream) = stream[j].matches
<1>1. s \in Nat /\ j \in Nat
  BY ResultsOfUses
<1>2. tool_results_by_use_id(stream, s) = {j}
  BY ResultsOfUses
<1>3. Min({s}) = s /\ Max({j}) = j
  BY <1>1, OneOf
<1> QED
  BY <1>2, <1>3 DEF search_names

LEMMA CallsAreFinite ==
  ASSUME NEW stream \in Seq(Block), NEW tool
  PROVE  mcp_calls(stream, tool) \subseteq DOMAIN stream /\ IsFiniteSet(mcp_calls(stream, tool))
<1>1. Len(stream) \in Nat /\ DOMAIN stream = 1 .. Len(stream)
  OBVIOUS
<1>2. IsFiniteSet(DOMAIN stream)
  BY <1>1, FS_Interval
<1>3. mcp_calls(stream, tool) \subseteq DOMAIN stream
  BY DEF mcp_calls, assistant_tool_uses
<1> QED
  BY <1>2, <1>3, FS_Subset

LEMMA NamedLoadsAreFinite ==
  ASSUME NEW stream \in Seq(Block)
  PROVE  named_loads(stream) \subseteq DOMAIN stream /\ IsFiniteSet(named_loads(stream))
<1>1. named_loads(stream) \subseteq mcp_calls(stream, "load_skill")
  BY DEF named_loads
<1> QED
  BY <1>1, CallsAreFinite, FS_Subset

LEMMA StreamScored ==
  ASSUME NEW m \in Mode, NEW t \in Task, NEW stream \in Seq(Block), StreamOk(stream)
  PROVE  LET loads == named_loads(stream)
         IN  tool_sequence_ok(m, stream) /\ LoadedRight(m, t, [i \in loads |-> stream[i].name])
               <=> StreamEarned(m, t, stream)
<1> DEFINE searches == mcp_calls(stream, "search_skills")
<1> DEFINE calls == mcp_calls(stream, "load_skill")
<1> DEFINE loads == named_loads(stream)
<1> DEFINE loaded == [i \in loads |-> stream[i].name]
<1> DEFINE Results(i) == tool_results_by_use_id(stream, i)
<1> DEFINE offered == NamesIn(search_names(stream))
<1>1. /\ searches \subseteq DOMAIN stream /\ IsFiniteSet(searches)
      /\ loads \subseteq calls /\ calls \subseteq DOMAIN stream
  BY CallsAreFinite DEF named_loads
<1>2. CASE m = "eager"
  BY <1>2 DEF tool_sequence_ok, LoadedRight, StreamEarned
<1>3. CASE m = "skillloader"
  <2>1. tool_sequence_ok(m, stream) <=>
          /\ non_skillloader_tool_uses(stream, m) = {}
          /\ Cardinality(searches) = 1
          /\ \A i \in calls : i > Min(searches)
          /\ \A i \in loads : stream[i].name \in offered
          /\ \A i \in searches : stream[i].apt
          /\ \A i \in searches \cup calls : Results(i) # {}
    BY <1>3 DEF tool_sequence_ok, results_present
  <2>2. LoadedRight(m, t, loaded) <=>
          /\ {stream[i].name : i \in loads} = t.required_names
          /\ \A i, j \in loads : stream[i].name = stream[j].name => i = j
    <3>1. NamesIn(loaded) = {stream[i].name : i \in loads}
      BY DEF NamesIn
    <3>2. IsInjective(loaded) <=> \A i, j \in loads : stream[i].name = stream[j].name => i = j
      BY DEF IsInjective
    <3> QED
      BY <1>3, <3>1, <3>2 DEF LoadedRight
  <2> DEFINE Good(s, n) == \E i \in loads :
                  /\ i > s /\ stream[i].name = n
                  /\ Results(i) # {}
                  /\ \A k \in loads : stream[k].name = n => k = i
                  /\ \E j \in Results(s) : n \in NamesIn(stream[j].matches)
  <2>3. StreamEarned(m, t, stream) <=>
          /\ non_skillloader_tool_uses(stream, m) = {}
          /\ \E s \in searches :
             /\ searches = {s} /\ stream[s].apt
             /\ Results(s) # {}
             /\ \A n \in t.required_names : Good(s, n)
             /\ \A i \in loads : stream[i].name \in t.required_names
             /\ \A i \in calls \ loads : i > s /\ Results(i) # {}
    BY <1>3 DEF StreamEarned
  <2>4. \A s \in DOMAIN stream : \A j \in Results(s) : searches = {s} =>
          Min(searches) = s /\ offered = NamesIn(stream[j].matches)
    BY SearchOffers
  <2>5. \A s \in DOMAIN stream : \A j, k \in Results(s) : j = k
    BY ResultsOfUses
  <2>6. Cardinality(searches) = 1 <=> \E s : searches = {s}
    BY <1>1, FS_Singleton
  <2> HIDE DEF searches, calls, loads, loaded, Results, offered
  <2>7. ASSUME tool_sequence_ok(m, stream), LoadedRight(m, t, loaded)
        PROVE  StreamEarned(m, t, stream)
    <3>1. PICK s : searches = {s}
      BY <2>1, <2>6, <2>7
    <3>2. s \in searches /\ s \in DOMAIN stream /\ Results(s) # {}
      BY <1>1, <2>1, <2>7, <3>1
    <3>3. PICK j \in Results(s) : Min(searches) = s /\ offered = NamesIn(stream[j].matches)
      BY <2>4, <3>1, <3>2
    <3>4. ASSUME NEW n \in t.required_names PROVE Good(s, n)
      <4>1. PICK i \in loads : stream[i].name = n
        BY <2>2, <2>7
      <4>2. i > s /\ Results(i) # {} /\ n \in offered
        BY <1>1, <2>1, <2>7, <3>3, <4>1
      <4>3. \A k \in loads : stream[k].name = n => k = i
        BY <2>2, <2>7, <4>1
      <4> QED
        BY <3>3, <4>1, <4>2, <4>3
    <3>5. \A i \in loads : stream[i].name \in t.required_names
      BY <2>2, <2>7
    <3>6. \A i \in calls \ loads : i > s /\ Results(i) # {}
      BY <2>1, <2>7, <3>3
    <3> HIDE DEF Good
    <3> QED
      BY <2>1, <2>3, <2>7, <3>1, <3>2, <3>4, <3>5, <3>6
  <2>8. ASSUME StreamEarned(m, t, stream)
        PROVE  tool_sequence_ok(m, stream) /\ LoadedRight(m, t, loaded)
    <3>1. PICK s \in searches :
             /\ searches = {s} /\ stream[s].apt
             /\ Results(s) # {}
             /\ \A n \in t.required_names : Good(s, n)
             /\ \A i \in loads : stream[i].name \in t.required_names
             /\ \A i \in calls \ loads : i > s /\ Results(i) # {}
      BY <2>3, <2>8
    <3>2. PICK j \in Results(s) : Min(searches) = s /\ offered = NamesIn(stream[j].matches)
      BY <1>1, <2>4, <3>1
    <3>3. ASSUME NEW i \in loads
          PROVE  /\ i > s /\ Results(i) # {} /\ stream[i].name \in offered
                 /\ \A k \in loads : stream[k].name = stream[i].name => k = i
      <4>1. PICK x \in loads :
              /\ x > s /\ stream[x].name = stream[i].name
              /\ Results(x) # {}
              /\ \A k \in loads : stream[k].name = stream[i].name => k = x
              /\ \E y \in Results(s) : stream[i].name \in NamesIn(stream[y].matches)
        BY <3>1
      <4>2. x = i
        BY <4>1
      <4>3. PICK y \in Results(s) : stream[i].name \in NamesIn(stream[y].matches)
        BY <4>1
      <4>4. y = j
        BY <1>1, <2>5, <3>1, <3>2
      <4> QED
        BY <3>2, <4>1, <4>2, <4>3, <4>4
    <3>4. /\ \A n \in t.required_names : \E i \in loads : stream[i].name = n
          /\ \A i \in loads : stream[i].name \in t.required_names
      BY <3>1
    <3> HIDE DEF Good
    <3>5. {stream[i].name : i \in loads} = t.required_names
      BY <3>4, Zenon
    <3>6. LoadedRight(m, t, loaded)
      BY <2>2, <3>3, <3>5
    <3>7. tool_sequence_ok(m, stream)
      <4>1. non_skillloader_tool_uses(stream, m) = {} /\ Cardinality(searches) = 1
        BY <2>3, <2>6, <2>8, <3>1
      <4>2. /\ \A i \in calls : i > Min(searches)
            /\ \A i \in loads : stream[i].name \in offered
        BY <3>1, <3>2, <3>3
      <4>3. \A i \in searches : i = s
        BY <3>1
      <4>4. \A i \in searches \cup calls : Results(i) # {}
        BY <3>1, <3>3, <4>3
      <4> QED
        BY <2>1, <3>1, <4>1, <4>2, <4>3, <4>4
    <3> QED
      BY <3>6, <3>7
  <2> QED
    BY <2>7, <2>8 DEF loaded, loads
<1> QED
  BY <1>2, <1>3 DEF Mode

\* The score of a run says whether it deserved to be a success.
LEMMA ScoredIsEarned ==
  ASSUME NEW m \in Mode, NEW t \in Task, NEW r \in Answer \cup {None},
         NEW stream \in Seq(Block), StreamOk(stream)
  PROVE  score_run(m, t, stream, r).task_success <=> Earned(m, t, stream, r)
<1> DEFINE loads == named_loads(stream)
<1> DEFINE loaded == [i \in loads |-> stream[i].name]
<1> DEFINE answer == answer_score(m, t, r, loaded)
<1> DEFINE sequence == tool_sequence_ok(m, stream)
<1>1. score_run(m, t, stream, r).task_success <=> task_success(answer, r = None \/ ~sequence)
  BY DEF score_run
<1>2. task_success(answer, r = None \/ ~sequence)
        <=> task_success(answer, FALSE) /\ r # None /\ sequence
  BY DEF task_success
<1>3. Earned(m, t, stream, r) <=> RightAnswer(t, r) /\ StreamEarned(m, t, stream)
  BY EarnedInTerms
<1>4. sequence /\ LoadedRight(m, t, loaded) <=> StreamEarned(m, t, stream)
  BY StreamScored
<1>5. RightAnswer(t, r) => r # None
  BY DEF RightAnswer
<1>6. ASSUME r # None, sequence
      PROVE  task_success(answer, FALSE) <=> RightAnswer(t, r) /\ LoadedRight(m, t, loaded)
  <2>1. IsFiniteSet(loads) /\ loads \subseteq DOMAIN stream
    BY NamedLoadsAreFinite
  <2>2. \A i \in loads :
          stream[i].type = "tool_use" /\ stream[i].tool = "load_skill" /\ stream[i].apt
    BY DEF named_loads, mcp_calls, assistant_tool_uses
  <2>3. loaded \in [loads -> Name]
    BY <2>1, <2>2 DEF StreamOk
  <2>4. m = "eager" => loads = {}
    BY <1>6, <2>2 DEF tool_sequence_ok, non_skillloader_tool_uses, named_loads, mcp_calls
  <2> HIDE DEF loads, loaded
  <2> QED
    BY <1>6, <2>1, <2>3, <2>4, AnswerScored
<1> HIDE DEF answer, sequence, loaded
<1> QED
  BY <1>1, <1>2, <1>3, <1>4, <1>5, <1>6

-----------------------------------------------------------------------------
(* The records hold scores, and the stream is what those scores take it for. *)

ScoredRight == SuccessIsEarned /\ EarnedIsSuccess

LEMMA UseKeepsStream ==
  ASSUME NEW stream \in Seq(Block), StreamOk(stream),
         NEW tool \in Tool, NEW n \in Name \cup {NoName}, NEW apt \in BOOLEAN,
         tool = "load_skill" /\ apt => n \in Name
  PROVE  StreamOk(Append(stream, Use(tool, n, apt)))
<1> DEFINE next == Append(stream, Use(tool, n, apt))
<1>1. /\ DOMAIN next = DOMAIN stream \cup {Len(stream) + 1} /\ DOMAIN stream = 1 .. Len(stream)
      /\ \A i \in DOMAIN stream : next[i] = stream[i]
      /\ next[Len(stream) + 1] = Use(tool, n, apt) /\ Len(stream) \in Nat
  OBVIOUS
<1> HIDE DEF next
<1>2. \A i : tool_results_by_use_id(next, i) = tool_results_by_use_id(stream, i)
  BY <1>1 DEF tool_results_by_use_id, Use
<1>3. \A i \in DOMAIN next : i = Len(stream) + 1 =>
        /\ next[i].type = "tool_use" /\ next[i].use = 0 /\ next[i].tool = tool
        /\ next[i].name = n /\ next[i].apt = apt
  BY <1>1 DEF Use
<1> QED
  BY <1>1, <1>2, <1>3 DEF StreamOk, next

LEMMA ResultKeepsStream ==
  ASSUME NEW stream \in Seq(Block), StreamOk(stream),
         NEW u \in assistant_tool_uses(stream), NEW matches \in Matches \cup {<<>>},
         tool_results_by_use_id(stream, u) = {}
  PROVE  StreamOk(Append(stream, Result(stream, u, matches)))
<1> DEFINE next == Append(stream, Result(stream, u, matches))
<1> DEFINE last == Len(stream) + 1
<1>1. /\ DOMAIN next = DOMAIN stream \cup {last} /\ DOMAIN stream = 1 .. Len(stream)
      /\ \A i \in DOMAIN stream : next[i] = stream[i]
      /\ next[last] = Result(stream, u, matches) /\ Len(stream) \in Nat
  OBVIOUS
<1>2. u \in 1 .. Len(stream) /\ u \in Nat
  BY <1>1 DEF assistant_tool_uses
<1> HIDE DEF next
<1>3. next[last].type = "tool_result" /\ next[last].use = u
  BY <1>1 DEF Result
<1>4. \A i : i # u => tool_results_by_use_id(next, i) = tool_results_by_use_id(stream, i)
  BY <1>1, <1>3 DEF tool_results_by_use_id
<1>5. tool_results_by_use_id(next, u) = {last}
  BY <1>1, <1>3 DEF tool_results_by_use_id
<1>6. ASSUME NEW i \in DOMAIN stream, stream[i].type = "tool_result"
      PROVE  /\ stream[i].use \in 1 .. i - 1
             /\ \A j \in tool_results_by_use_id(next, stream[i].use) : j = i
  <2>1. stream[i].use # u
    BY <1>6 DEF tool_results_by_use_id
  <2> QED
    BY <1>4, <1>6, <2>1 DEF StreamOk
<1>7. \A i \in DOMAIN stream : stream[i].type = "tool_use" =>
         /\ stream[i].use = 0
         /\ stream[i].tool = "load_skill" /\ stream[i].apt => stream[i].name \in Name
  BY DEF StreamOk
<1>8. u \in 1 .. last - 1
  BY <1>1, <1>2
<1> SUFFICES ASSUME NEW i \in DOMAIN next
    PROVE  /\ next[i].type = "tool_use" =>
                /\ next[i].use = 0
                /\ next[i].tool = "load_skill" /\ next[i].apt => next[i].name \in Name
           /\ next[i].type = "tool_result" =>
                /\ next[i].use \in 1 .. i - 1
                /\ \A j \in tool_results_by_use_id(next, next[i].use) : j = i
  BY DEF StreamOk, next
<1>9. CASE i \in DOMAIN stream
  BY <1>1, <1>6, <1>7, <1>9
<1>10. CASE i = last
  BY <1>3, <1>5, <1>8, <1>10
<1> QED
  BY <1>1, <1>9, <1>10

ScoringInv == StreamOk(events) /\ ScoredRight

LEMMA EmitKeepsScores ==
  ASSUME ScoringInv, NEW block, NEW others, Emit(block, others),
         StreamOk(Append(events, block))
  PROVE  ScoringInv'
BY DEF Emit, ScoringInv, ScoredRight, SuccessIsEarned, EarnedIsSuccess

LEMMA RunScored ==
  ASSUME IInv, ScoringInv, run_claude
  PROVE  ScoringInv'
<1> DEFINE m == mode
<1> DEFINE t == task
<1>1. PICK r \in Answer \cup {None}, executed \in BOOLEAN, readable \in BOOLEAN :
        records' = [records EXCEPT ![mode] = Append(@,
          [ task |-> task, executed |-> executed, readable |-> readable,
            top_five_recall |-> score_run(mode, task, events, r).top_five_recall,
            task_success |-> score_run(mode, task, events, r).task_success,
            earned |-> Earned(mode, task, events, r) ])]
  BY DEF run_claude
<1> DEFINE success == score_run(m, t, events, r).task_success
<1> DEFINE recall == score_run(m, t, events, r).top_five_recall
<1> DEFINE deserved == Earned(m, t, events, r)
<1> DEFINE record == [ task |-> t, executed |-> executed, readable |-> readable,
                       top_five_recall |-> recall, task_success |-> success,
                       earned |-> deserved ]
<1>2. records' = [records EXCEPT ![m] = Append(records[m], record)]
  BY <1>1
<1>3. m \in Mode /\ t \in Task
  BY TurnIsOfATask DEF run_claude
<1>4. events \in Seq(Block) /\ StreamOk(events)
  BY DEF IInv, TypesOk, ScoringInv
<1>5. success <=> deserved
  BY <1>3, <1>4, ScoredIsEarned
<1> HIDE DEF success, deserved, recall
<1>6. record.task_success <=> record.earned
  BY <1>5
<1>7. records[m] \in Seq(Record) /\ records \in [Mode -> Seq(Record)]
  BY <1>3 DEF IInv, TypesOk
<1> HIDE DEF record, m
<1>8. \A k \in Mode : records'[k] = IF k = m THEN Append(records[m], record) ELSE records[k]
  BY <1>2, <1>7
<1>9. /\ DOMAIN records'[m] = DOMAIN records[m] \cup {Len(records[m]) + 1}
      /\ \A i \in DOMAIN records[m] : records'[m][i] = records[m][i]
      /\ records'[m][Len(records[m]) + 1] = record
  <2>1. records'[m] = Append(records[m], record)
    BY <1>3, <1>8
  <2> QED
    BY <1>7, <2>1
<1>10. ASSUME NEW k \in Mode, NEW i \in DOMAIN records'[k]
       PROVE  records'[k][i].task_success <=> records'[k][i].earned
  <2>1. CASE k # m \/ i \in DOMAIN records[m]
    <3>1. records'[k][i] = records[k][i] /\ i \in DOMAIN records[k]
      <4>1. CASE k # m
        BY <1>8, <4>1
      <4>2. CASE k = m
        BY <1>9, <2>1, <4>2
      <4> QED
        BY <4>1, <4>2
    <3> QED
      BY <3>1 DEF ScoringInv, ScoredRight, SuccessIsEarned, EarnedIsSuccess
  <2>2. CASE k = m /\ i \notin DOMAIN records[m]
    <3>1. records'[k][i] = record
      BY <1>9, <2>2
    <3> QED
      BY <1>6, <3>1
  <2> QED
    BY <2>1, <2>2
<1>11. StreamOk(events')
  BY DEF run_claude, StreamOk
<1> QED
  BY <1>10, <1>11 DEF ScoringInv, ScoredRight, SuccessIsEarned, EarnedIsSuccess

LEMMA ScoresStayRight ==
  ASSUME IInv, ScoringInv, [Next]_vars
  PROVE  ScoringInv'
<1>0. events \in Seq(Block) /\ StreamOk(events)
  BY DEF IInv, TypesOk, ScoringInv
<1>1. CASE UseTool
  <2>1. ASSUME NEW tool \in Tool, NEW n \in Name \cup {NoName}, NEW apt \in BOOLEAN, NEW others,
               tool = "load_skill" /\ apt => n \in Name, Emit(Use(tool, n, apt), others)
        PROVE  ScoringInv'
    BY <1>0, <2>1, UseKeepsStream, EmitKeepsScores
  <2> QED
    BY <1>1, <2>1 DEF UseTool, Tool
<1>2. CASE GetResult
  <2>1. PICK i \in mcp_calls(events, "search_skills") \cup mcp_calls(events, "load_skill"),
             matches \in Matches \cup {<<>>} :
               /\ tool_results_by_use_id(events, i) = {}
               /\ Emit(Result(events, i, matches), Cardinality(Others))
    BY <1>2 DEF GetResult
  <2>2. i \in assistant_tool_uses(events)
    BY <2>1 DEF mcp_calls
  <2>3. StreamOk(Append(events, Result(events, i, matches)))
    BY <1>0, <2>1, <2>2, ResultKeepsStream
  <2> QED
    BY <2>1, <2>3, EmitKeepsScores
<1>3. CASE run_claude
  BY <1>3, RunScored
<1>4. CASE UNCHANGED <<events, records>>
  BY <1>4 DEF ScoringInv, ScoredRight, SuccessIsEarned, EarnedIsSuccess
<1> QED
  BY <1>1, <1>2, <1>3, <1>4 DEF Next, main, Prepare, GoBuild, VerifyBuild, BuildStep, Refused,
     NextRun, WriteResults, EditInputs, Killed, vars

LEMMA ScoresAlwaysRight == Spec => [](IInv /\ ScoringInv)
<1>1. Init => IInv /\ ScoringInv
  BY Initially DEF Init, ScoringInv, StreamOk, ScoredRight, SuccessIsEarned, EarnedIsSuccess
<1>2. IInv /\ ScoringInv /\ [Next]_vars => (IInv /\ ScoringInv)'
  BY StepsKeep, ScoresStayRight
<1> QED
  BY <1>1, <1>2, PTL DEF Spec

\* No run is scored a success that does not deserve it: for any tasks, any
\* stream of uses and results, however long, and wherever it is cut off.
THEOREM SuccessAlwaysEarned == Spec => []SuccessIsEarned
<1>1. ScoringInv => SuccessIsEarned
  BY DEF ScoringInv, ScoredRight
<1> QED
  BY <1>1, ScoresAlwaysRight, PTL

\* And every run that deserves it is scored one, in whatever order its
\* parallel loads ended and however often it resolved its tools.
THEOREM EarnedAlwaysSuccess == Spec => []EarnedIsSuccess
<1>1. ScoringInv => EarnedIsSuccess
  BY DEF ScoringInv, ScoredRight
<1> QED
  BY <1>1, ScoresAlwaysRight, PTL

-----------------------------------------------------------------------------
(* The summary.  What it counts are the successes as they were scored,      *)
(* which ScoringInv says are the runs that deserved to be.                  *)

SummaryOk == SummaryIsOfTheRuns /\ (summary # None => step = "end")

\* A count is zero when there is nothing to count.
LEMMA CountsAll ==
  ASSUME NEW recs \in Seq(Record)
  PROVE  LET Recallable(record) == record.top_five_recall # None
         IN  /\ Count(recs, Recallable) \in Nat
             /\ Count(recs, Recallable) = 0
                  <=> \A i \in DOMAIN recs : recs[i].top_five_recall = None
<1> DEFINE counted == {i \in DOMAIN recs : recs[i].top_five_recall # None}
<1>1. IsFiniteSet(counted)
  <2>1. DOMAIN recs = 1 .. Len(recs) /\ Len(recs) \in Nat
    OBVIOUS
  <2>2. IsFiniteSet(1 .. Len(recs))
    BY <2>1, FS_Interval
  <2>3. counted \subseteq 1 .. Len(recs)
    BY <2>1
  <2> QED
    BY <2>2, <2>3, FS_Subset
<1>2. Cardinality(counted) \in Nat /\ (Cardinality(counted) = 0 <=> counted = {})
  BY <1>1, FS_CardinalityType, FS_EmptySet
<1>3. counted = {} <=> \A i \in DOMAIN recs : recs[i].top_five_recall = None
  OBVIOUS
<1> QED
  BY <1>2, <1>3 DEF Count

\* When main writes its results both files hold a record of every task.
LEMMA AllRecorded ==
  ASSUME IInv, Runs = 2 * Len(tasks), NEW m \in Mode
  PROVE  DOMAIN records[m] = DOMAIN tasks /\ Len(records[m]) = Len(tasks)
<1>1. E \in Nat /\ S \in Nat /\ E + S = 2 * Len(tasks) /\ Len(tasks) \in Nat /\ Balanced(E, S)
  BY Lengths DEF IInv, TurnsOk
<1>2. E = Len(tasks) /\ S = Len(tasks)
  BY <1>1 DEF Balanced
<1>3. Len(records[m]) = Len(tasks)
  BY <1>2 DEF E, S, Mode
<1>4. records[m] \in Seq(Record) /\ tasks \in Seq(Task)
  BY DEF IInv, TypesOk
<1> QED
  BY <1>3, <1>4

\* What SummaryIsOfTheRuns says of a summary, the records and the tasks.
Describes(sum, recs, ts) ==
  \A m \in Mode :
    /\ [i \in DOMAIN recs[m] |-> recs[m][i].task] = ts
    /\ \A i \in DOMAIN recs[m] : recs[m][i].executed /\ recs[m][i].readable
    /\ sum[m].run_count = Len(ts)
    /\ sum[m].task_successes = Cardinality({i \in DOMAIN ts : recs[m][i].earned})
    /\ sum[m].top_five_recall_percent = None
         <=> m = "eager" \/ \A i \in DOMAIN ts : ts[i].no_load

LEMMA Quotient ==
  ASSUME NEW a \in Nat, NEW d \in Nat, d # 0
  PROVE  a \div d \in Nat
OBVIOUS

LEMMA ResultsStep ==
  ASSUME IInv, ScoredRight, WriteResults, summary' # None
  PROVE  SummaryIsOfTheRuns'
<1>1. /\ summary' = summarize(records)
      /\ \A m \in Mode : \A i \in DOMAIN records[m] : ~execution_failure(records[m][i])
      /\ UNCHANGED <<records, tasks>> /\ Runs = 2 * Len(tasks)
  BY DEF WriteResults
<1>0. SummaryIsOfTheRuns' <=> (summary' # None => Describes(summary', records', tasks'))
  BY DEF SummaryIsOfTheRuns, Describes
<1> SUFFICES Describes(summarize(records), records, tasks)
  BY <1>0, <1>1
<1> SUFFICES ASSUME NEW m \in Mode
    PROVE  /\ [i \in DOMAIN records[m] |-> records[m][i].task] = tasks
           /\ \A i \in DOMAIN records[m] : records[m][i].executed /\ records[m][i].readable
           /\ summarize(records)[m].run_count = Len(tasks)
           /\ summarize(records)[m].task_successes
                = Cardinality({i \in DOMAIN tasks : records[m][i].earned})
           /\ summarize(records)[m].top_five_recall_percent = None
                <=> m = "eager" \/ \A i \in DOMAIN tasks : tasks[i].no_load
  BY DEF Describes
<1>2. /\ DOMAIN records[m] = DOMAIN tasks /\ Len(records[m]) = Len(tasks)
      /\ records[m] \in Seq(Record) /\ tasks \in Seq(Task) /\ tasks # <<>>
  BY <1>1, AllRecorded DEF IInv, TypesOk
<1>3. \A i \in DOMAIN tasks :
        /\ records[m][i].task = tasks[i]
        /\ records[m][i].top_five_recall = None <=> m = "eager" \/ tasks[i].no_load
  BY <1>2 DEF IInv, RecordsOk
<1>4. [i \in DOMAIN records[m] |-> records[m][i].task] = tasks
  BY <1>2, <1>3
<1>5. \A i \in DOMAIN records[m] : records[m][i].executed /\ records[m][i].readable
  BY <1>1 DEF execution_failure
<1>6. \A i \in DOMAIN tasks : records[m][i].task_success <=> records[m][i].earned
  BY <1>2 DEF ScoredRight, SuccessIsEarned, EarnedIsSuccess
<1>7. {i \in DOMAIN tasks : records[m][i].task_success}
        = {i \in DOMAIN tasks : records[m][i].earned}
  BY <1>6
<1>8. /\ summarize(records)[m].run_count = Len(tasks)
      /\ summarize(records)[m].task_successes
           = Cardinality({i \in DOMAIN tasks : records[m][i].earned})
  BY <1>2, <1>7 DEF summarize, Count
<1>9. summarize(records)[m].top_five_recall_percent = None
        <=> m = "eager" \/ \A i \in DOMAIN tasks : tasks[i].no_load
  <2> DEFINE Recalls(record) == record.top_five_recall = TRUE
  <2> DEFINE Recallable(record) == record.top_five_recall # None
  <2> DEFINE n == Count(records[m], Recalls)
  <2> DEFINE d == Count(records[m], Recallable)
  <2>1. summarize(records)[m].top_five_recall_percent = percentage(n, d)
    BY DEF summarize
  <2>2. d \in Nat /\ (d = 0 <=> \A i \in DOMAIN records[m] : records[m][i].top_five_recall = None)
    BY <1>2, CountsAll
  <2>3. n \in Nat
    <3> DEFINE counted == {i \in DOMAIN records[m] : records[m][i].top_five_recall = TRUE}
    <3>1. Len(tasks) \in Nat /\ DOMAIN records[m] = 1 .. Len(tasks)
      BY <1>2
    <3>2. IsFiniteSet(1 .. Len(tasks))
      BY <3>1, FS_Interval
    <3>3. counted \subseteq 1 .. Len(tasks)
      BY <3>1
    <3>4. Cardinality(counted) \in Nat
      BY <3>2, <3>3, FS_Subset, FS_CardinalityType
    <3> QED
      BY <3>4 DEF Count
  <2> HIDE DEF n, d
  <2>4. percentage(n, d) = None <=> d = 0
    <3>1. 100 * n \in Nat
      BY <2>3
    <3>2. d # 0 => (100 * n) \div d \in Nat
      BY <2>2, <3>1, Quotient
    <3> QED
      BY <3>2, RunnerAssumption DEF percentage
  <2>5. (\A i \in DOMAIN records[m] : records[m][i].top_five_recall = None)
          <=> m = "eager" \/ \A i \in DOMAIN tasks : tasks[i].no_load
    BY <1>2, <1>3
  <2> QED
    BY <2>1, <2>2, <2>4, <2>5
<1> QED
  BY <1>4, <1>5, <1>8, <1>9

LEMMA SummaryStays ==
  IInv /\ SummaryOk /\ ScoredRight /\ [Next]_vars => SummaryOk'
<1> SUFFICES ASSUME IInv, SummaryOk, ScoredRight, [Next]_vars PROVE SummaryOk'
  OBVIOUS
<1>1. CASE WriteResults
  <2>1. step' = "end"
    BY <1>1 DEF WriteResults
  <2>2. summary' # None => SummaryIsOfTheRuns'
    BY <1>1, ResultsStep
  <2>3. summary' = None => SummaryIsOfTheRuns'
    BY DEF SummaryIsOfTheRuns
  <2> QED
    BY <2>1, <2>2, <2>3 DEF SummaryOk
<1>2. CASE UNCHANGED <<summary, records, tasks>> /\ (step = "end" => step' = "end")
  BY <1>2 DEF SummaryOk, SummaryIsOfTheRuns
<1>3. CASE run_claude
  BY <1>3 DEF run_claude, SummaryOk, SummaryIsOfTheRuns
<1> QED
  BY <1>1, <1>2, <1>3 DEF Next, main, Prepare, GoBuild, VerifyBuild, BuildStep, Refused,
     NextRun, EditInputs, UseTool, GetResult, Emit, Killed, vars

\* A summary is of one run of every task in either mode, none of which failed
\* to execute, and counts the runs that deserved to be successes: for any
\* tasks, numbers of runs and streams.
THEOREM SummariesAreOfTheRuns == Spec => []SummaryIsOfTheRuns
<1>1. Init => SummaryOk
  BY DEF Init, SummaryOk, SummaryIsOfTheRuns
<1>2. ScoringInv => ScoredRight
  BY DEF ScoringInv
<1>3. IInv /\ SummaryOk /\ ScoredRight /\ [Next]_vars => SummaryOk'
  BY SummaryStays
<1>4. SummaryOk => SummaryIsOfTheRuns
  BY DEF SummaryOk
<1> QED
  BY <1>1, <1>2, <1>3, <1>4, ScoresAlwaysRight, PTL DEF Spec
=============================================================================
