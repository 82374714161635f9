---------------------------- MODULE Gate6Evidence ----------------------------
(***************************************************************************)
(* The life of one directory of Gate 6 evidence: main() of                 *)
(* scripts/run_gate6_codex.py writes it while it runs the client, and      *)
(* rescore_existing() recomputes its scores, any number of times, after    *)
(* the task fixture, the fixture catalog or the redaction rules changed.   *)
(* Either may be killed at any point, which is what main() comes to when   *)
(* it raises, too: nothing cleans the directory up.                        *)
(*                                                                         *)
(* Abstractions.  A stream of events is a value, and so is the version of  *)
(* the fixture, of which a record keeps the identity.  A score is what it  *)
(* was computed from.  A file that was opened for writing and not closed   *)
(* is Torn.  tasks.jsonl is complete before anything looks at it, so its   *)
(* lines are written together.  One process works on the directory.        *)
(* Before the runs main copies the catalog and builds the binary           *)
(* (Gate6Build), while anybody may edit either.                            *)
(***************************************************************************)
EXTENDS Gate6Build, Sequences, FiniteSets

CONSTANTS
  Id,          \* task ids
  Fixture,     \* versions of task-fixture-v1.json
  Query,       \* model-visible queries
  QueryOf,     \* [Fixture -> [Id -> Query]], None where it has no such task
  Catalog,     \* versions of the fixture catalog
  Stream,      \* event streams of the client
  Usable,      \* those with a structured response and valid usage counters
  Site,        \* redaction rules: runner version, and the paths of the machine
  Sanitize,    \* [Site -> [Stream -> Stream]]: sanitize_events
  Selections,  \* the sequences of task ids a run is started with
  Absent,      \* no file
  Torn,        \* a file that cannot be parsed
  None

ASSUME EvidenceAssumption ==
  /\ QueryOf \in [Fixture -> [Id -> Query \cup {None}]]
  /\ Usable \subseteq Stream
  /\ Sanitize \in [Site -> [Stream -> Stream]]
  /\ \A s \in Site, e \in Stream : Sanitize[s][Sanitize[s][e]] = Sanitize[s][e]
  /\ \A s \in Selections :
       s \in Seq(Id) /\ s # <<>> /\ \A i, j \in DOMAIN s : s[i] = s[j] => i = j
  /\ None \notin Fixture \cup Query

VARIABLES
  fixture, catalog, site,  \* what the repository and the machine hold now
  file,        \* [File -> contents, Absent or Torn]
  work,        \* what the running process knows, or None
  published,   \* history: the fixtures of the summaries that were completed
  interrupted  \* history: a rescore was killed and none completed since

vars == <<fixture, catalog, site, file, work, published, interrupted>>

Mode == {"eager", "skillloader"}
File == Mode \cup {"schema", "tasks", "environment", "failures", "summary"}

RecordedTask == [id : Id, fixture : Fixture]

Score == [events : Stream, fixture : Fixture, catalog : Catalog]

\* scoring_task: the fixture of the task it was scored by; None in evidence
\* of a runner that did not record it.  printed: history, the stream before
\* any redaction.
Record == [ task : RecordedTask, events : Stream, redacted : BOOLEAN, exit_zero : BOOLEAN,
            argv : {"canonical", "legacy"}, score : Score,
            scoring_task : Fixture \cup {None}, printed : Stream ]

\* A run is counted under the task that says whether it should load a skill.
SummaryEntry == [id : Id, classified : Fixture, score : Score]

Environment == [ fixture : Fixture, catalog : Catalog, scoring : Fixture \cup {None},
                 prior : SUBSET Fixture, argv_schema_version : {2, None} ]

\* What a rescore has computed and will write.
RescoreNew == [ eager : Seq(Record), skillloader : Seq(Record), environment : Environment,
                summary : [Mode -> Seq(SummaryEntry)] ]

RescoreWork == [step : {"rescore"}, at : 1 .. 4, new : RescoreNew]

\* A file that is not there, or not complete, does not parse as anything.
ASSUME UnreadableAssumption ==
  \A x \in {Absent, Torn} : x \notin Seq(RecordedTask) \cup Seq(Record) \cup Environment

ASSUME NoProcessAssumption == None \notin RescoreWork

Readable(n) == file[n] \notin {Absent, Torn}

Write(n, value) == file' = [file EXCEPT ![n] = value]

\* open(path, "w") truncates, open(path, "a") may leave half a line.
Open(n) ==
  /\ file[n] # Torn
  /\ Write(n, Torn)
  /\ UNCHANGED <<fixture, catalog, site, work, published, interrupted>>

Tasks(ids, f) == [i \in DOMAIN ids |-> [id |-> ids[i], fixture |-> f]]

\* A run can only select tasks of its fixture.
Selects(f, ids) == \A i \in DOMAIN ids : QueryOf[f][ids[i]] # None

\* Mutant: the scoring task is not looked for.
Classification_Recorded(record) == record.task.fixture

\* record.get("scoring_task", record["task"])
Classification(record) ==
  IF record.scoring_task = None THEN record.task.fixture ELSE record.scoring_task

Entry(record) ==
  [id |-> record.task.id, classified |-> Classification(record), score |-> record.score]

\* summarize: a function of the scores and of what they are counted under.
summarize(records) ==
  [m \in Mode |-> [i \in DOMAIN records[m] |-> Entry(records[m][i])]]

execution_failure(record) == ~record.exit_zero \/ record.events \notin Usable

-----------------------------------------------------------------------------
(* main *)

\* Runs are paired by task and alternate which mode comes first.
ModeOfRun(k) ==
  IF k % 4 \in {0, 3} THEN "eager" ELSE "skillloader"

\* The fixture, the catalog and the Go files are read, then comes
\* mkdir(exist_ok=False) and the first file.  served: the catalog the binary
\* is given, which is no one's until it is copied.
Begin(ids) ==
  /\ work = None
  /\ Selects(fixture, ids)
  /\ \A n \in File : file[n] = Absent
  /\ Write("schema", Torn)
  /\ \E build \in Recorded(NewBuild) :
       work' = [ step |-> "schema", tasks |-> Tasks(ids, fixture), catalog |-> catalog,
                 served |-> None, build |-> build, site |-> site, runs |-> 0,
                 records |-> [m \in Mode |-> <<>>] ]
  /\ UNCHANGED <<fixture, catalog, site, published, interrupted>>

Follows == [schema |-> "tasks", tasks |-> "copy", environment |-> "run"]

WritePreamble(step, value) ==
  /\ work # None /\ work.step = step
  /\ \/ Open(step)
     \/ /\ file[step] = Torn
        /\ Write(step, value)
        /\ work' = [work EXCEPT !.step = Follows[step]]
        /\ UNCHANGED <<fixture, catalog, site, published, interrupted>>

WriteSchema == WritePreamble("schema", "schema")

WriteTasks == work # None /\ work.step = "tasks" /\ WritePreamble("tasks", work.tasks)

\* Between the files it writes, main goes on or raises SystemExit.
Proceed(from, works) ==
  /\ work # None /\ work.step = from
  /\ \/ work' \in works
     \/ works = {} /\ work' = None
  /\ UNCHANGED <<fixture, catalog, site, file, published, interrupted>>

\* Mutant: the copy is not compared with what was read.
CopyCatalog_Unchecked ==
  Proceed("copy", {[work EXCEPT !.step = "build", !.served = catalog]})

\* copytree, and the hash of the copy must be that of the catalog.
CopyCatalog ==
  Proceed("copy", IF catalog = work.catalog
                  THEN {[work EXCEPT !.step = "build", !.served = catalog]} ELSE {})

GoBuild ==
  Proceed("build", {[work EXCEPT !.step = "verify", !.build = b] : b \in Compiled(work.build)})

\* The second build_input_metadata.
VerifyBuild ==
  Proceed("verify", {[work EXCEPT !.step = "environment"] : b \in Verified(work.build)})

WriteEnvironment ==
  /\ work # None /\ work.step = "environment"
  /\ WritePreamble("environment",
       [ fixture |-> work.tasks[1].fixture, catalog |-> work.catalog,
         scoring |-> work.tasks[1].fixture, prior |-> {}, argv_schema_version |-> None ])

\* The record run_codex makes of a run that printed s.
RunRecord(task, s, exit_zero) ==
  [ task |-> task, events |-> Sanitize[work.site][s],
    redacted |-> Sanitize[work.site][s] # s, exit_zero |-> exit_zero, argv |-> "canonical",
    scoring_task |-> task.fixture, printed |-> s,
    score |-> [events |-> s, fixture |-> task.fixture, catalog |-> work.catalog] ]

WithRun(m, record) ==
  [work EXCEPT !.runs = @ + 1, !.step = "append",
               !.records[m] = Append(work.records[m], record)]

RunClient ==
  /\ work # None /\ work.step = "run"
  /\ work.runs < 2 * Len(work.tasks)
  /\ \E s \in Stream, exit_zero \in BOOLEAN :
       work' = WithRun(ModeOfRun(work.runs),
                       RunRecord(work.tasks[work.runs \div 2 + 1], s, exit_zero))
  /\ UNCHANGED <<fixture, catalog, site, file, published, interrupted>>

AppendRecord ==
  LET m == ModeOfRun(work.runs - 1)
  IN  /\ work # None /\ work.step = "append"
      /\ \/ Open(m)
         \/ /\ file[m] = Torn
            /\ Write(m, work.records[m])
            /\ work' = [work EXCEPT !.step = "run"]
            /\ UNCHANGED <<fixture, catalog, site, published, interrupted>>

RunsFailed == \E m \in Mode : \E i \in DOMAIN work.records[m] :
                execution_failure(work.records[m][i])

WriteFailures ==
  /\ work # None /\ work.step = "run"
  /\ work.runs = 2 * Len(work.tasks)
  /\ RunsFailed
  /\ \/ Open("failures")
     \/ /\ file["failures"] = Torn
        /\ Write("failures", "failures")
        /\ work' = None
        /\ UNCHANGED <<fixture, catalog, site, published, interrupted>>

WriteSummary ==
  /\ work # None /\ work.step = "run"
  /\ work.runs = 2 * Len(work.tasks)
  /\ ~RunsFailed
  /\ \/ Open("summary")
     \/ /\ file["summary"] = Torn
        /\ Write("summary", summarize(work.records))
        /\ work' = None
        /\ published' = published \cup {work.tasks[1].fixture}
        /\ UNCHANGED <<fixture, catalog, site, interrupted>>

main ==
  \/ \E ids \in Selections : Begin(ids)
  \/ WriteSchema \/ WriteTasks \/ CopyCatalog \/ GoBuild \/ VerifyBuild
  \/ WriteEnvironment \/ RunClient \/ AppendRecord
  \/ WriteFailures \/ WriteSummary

-----------------------------------------------------------------------------
(* rescore_existing: every refusal comes before the first write *)

Inputs == {"schema", "environment", "tasks"} \cup Mode

\* The recorded tasks are the fixture's, or at least it has tasks of these ids
\* that ask the same queries.
TasksMatch ==
  LET tasks == file["tasks"]
  IN  file["environment"].fixture # fixture =>
        \A i \in DOMAIN tasks :
          QueryOf[tasks[i].fixture][tasks[i].id] = QueryOf[fixture][tasks[i].id]

\* Mutant: only the records there are compared with their tasks.
Paired_Prefix ==
  \A m \in Mode : \A i \in DOMAIN file[m] :
    i \in DOMAIN file["tasks"] /\ file[m][i].task = file["tasks"][i]

\* Both modes have a record of every task, in order.
Paired ==
  \A m \in Mode :
    /\ DOMAIN file[m] = DOMAIN file["tasks"]
    /\ \A i \in DOMAIN file[m] : file[m][i].task = file["tasks"][i]

\* Mutant: the record is scored by the task it was run with.
Rescored_RecordedTask(record) ==
  [record EXCEPT
    !.events = Sanitize[site][record.events],
    !.redacted = Sanitize[site][record.events] # record.events,
    !.argv = "canonical",
    !.scoring_task = fixture,
    !.score = [events |-> record.events, fixture |-> record.task.fixture,
               catalog |-> catalog]]

\* What a record becomes: its events are sanitized anew, its score is that of
\* the events as they were in the file.
Rescored(record) ==
  [record EXCEPT
    !.events = Sanitize[site][record.events],
    !.redacted = Sanitize[site][record.events] # record.events,
    !.argv = "canonical",
    !.scoring_task = fixture,
    !.score = [events |-> record.events, fixture |-> fixture, catalog |-> catalog]]

\* Mutant: the flag of a redacted record is not looked at.
RecordAccepted_Redacted(record, env) ==
  /\ record.argv = "canonical" \/ env.argv_schema_version = None
  /\ ~execution_failure(Rescored(record))

RecordAccepted(record, env) ==
  /\ ~record.redacted
  /\ record.argv = "canonical" \/ env.argv_schema_version = None
  /\ ~execution_failure(Rescored(record))

Accepts ==
  /\ \A n \in Inputs : Readable(n)
  /\ TasksMatch
  /\ file["environment"].catalog = catalog
  /\ Paired
  /\ \A m \in Mode : \A i \in DOMAIN file[m] :
       RecordAccepted(file[m][i], file["environment"])

\* Mutant: the scoring fixture that is replaced is not kept.
RescoredEnvironment_NoHistory(env) ==
  [env EXCEPT !.scoring = fixture, !.argv_schema_version = 2]

\* Mutant: the missing hash of older evidence is kept as if it were one.
RescoredEnvironment_KeepsNone(env) ==
  [env EXCEPT
    !.prior = IF env.scoring = fixture THEN @ ELSE @ \cup {env.scoring},
    !.scoring = fixture,
    !.argv_schema_version = 2]

\* environment.json after the rescore.
RescoredEnvironment(env) ==
  [env EXCEPT
    !.prior = IF env.scoring \in {None, fixture} THEN @ ELSE @ \cup {env.scoring},
    !.scoring = fixture,
    !.argv_schema_version = 2]

\* Mutant: environment.json is written before the records it speaks of.
RescoreOrder_EnvironmentFirst == <<"environment", "eager", "skillloader", "summary">>

RescoreOrder == <<"eager", "skillloader", "environment", "summary">>

\* Everything is read and computed, then written.
StartRescore ==
  /\ work = None
  /\ Accepts
  /\ LET records == [m \in Mode |-> [i \in DOMAIN file[m] |-> Rescored(file[m][i])]]
     IN  work' = [ step |-> "rescore", at |-> 1,
                   new |-> [ eager |-> records["eager"],
                             skillloader |-> records["skillloader"],
                             environment |-> RescoredEnvironment(file["environment"]),
                             summary |-> summarize(records) ] ]
  /\ UNCHANGED <<fixture, catalog, site, file, published, interrupted>>

NextWrite(n) == work # None /\ work.step = "rescore" /\ RescoreOrder[work.at] = n

Written(n) ==
  /\ Write(n, work.new[n])
  /\ work' = IF work.at = Len(RescoreOrder) THEN None ELSE [work EXCEPT !.at = @ + 1]

\* Mutant: the file is truncated and written again.
ReplaceRecords_InPlace ==
  \E m \in Mode :
    /\ NextWrite(m)
    /\ \/ Open(m)
       \/ /\ file[m] = Torn
          /\ Written(m)
          /\ UNCHANGED <<fixture, catalog, site, published, interrupted>>

\* write_jsonl writes a temporary file and replaces the other with it.
ReplaceRecords ==
  \E m \in Mode :
    /\ NextWrite(m)
    /\ Written(m)
    /\ UNCHANGED <<fixture, catalog, site, published, interrupted>>

\* write_json writes in place.
OverwriteEnvironment ==
  /\ NextWrite("environment")
  /\ \/ Open("environment")
     \/ /\ file["environment"] = Torn
        /\ Written("environment")
        /\ UNCHANGED <<fixture, catalog, site, published, interrupted>>

OverwriteSummary ==
  /\ NextWrite("summary")
  /\ \/ Open("summary")
     \/ /\ file["summary"] = Torn
        /\ Written("summary")
        /\ published' = published \cup {work.new["environment"].scoring}
        /\ interrupted' = FALSE
        /\ UNCHANGED <<fixture, catalog, site>>

rescore_existing ==
  StartRescore \/ ReplaceRecords \/ OverwriteEnvironment \/ OverwriteSummary

-----------------------------------------------------------------------------
Killed ==
  /\ work # None
  /\ work' = None
  /\ interrupted' = (interrupted \/ work.step = "rescore")
  /\ UNCHANGED <<fixture, catalog, site, file, published>>

\* Somebody edits the Go files or the catalog before main has its own of them.
EditRepository ==
  /\ work # None
  /\ \/ /\ work.step \in {"tasks", "copy", "build", "verify"}
        /\ work' \in {[work EXCEPT !.build = b] : b \in Edits(work.build)}
        /\ UNCHANGED catalog
     \/ /\ work.step \in {"tasks", "copy"}
        /\ catalog' \in Catalog
        /\ UNCHANGED work
  /\ UNCHANGED <<fixture, site, file, published, interrupted>>

\* The repository moves on, or the evidence is rescored elsewhere.  Except as
\* above a process reads these things once, as it starts, so a change under it
\* comes to one after.
Change ==
  /\ work = None
  /\ fixture' \in Fixture
  /\ catalog' \in Catalog
  /\ site' \in Site
  /\ UNCHANGED <<file, work, published, interrupted>>

\* Evidence of an earlier version of the runner, which recorded neither the
\* scoring fixture and tasks nor a version of its arguments; those of the
\* eager runs are the same today.  Its events are taken for what was printed.
LegacyRecord(m, id, f, c, s) ==
  [ task |-> [id |-> id, fixture |-> f], events |-> s, redacted |-> FALSE,
    exit_zero |-> TRUE, argv |-> IF m = "eager" THEN "canonical" ELSE "legacy",
    scoring_task |-> None, printed |-> s,
    score |-> [events |-> s, fixture |-> f, catalog |-> c] ]

LegacyFiles(ids, s) ==
  LET records == [m \in Mode |-> [i \in DOMAIN ids |->
                    LegacyRecord(m, ids[i], fixture, catalog, s)]]
  IN  [ schema |-> "schema", tasks |-> Tasks(ids, fixture),
        environment |-> [ fixture |-> fixture, catalog |-> catalog, scoring |-> None,
                          prior |-> {}, argv_schema_version |-> None ],
        eager |-> records["eager"], skillloader |-> records["skillloader"],
        failures |-> Absent, summary |-> summarize(records) ]

Init ==
  /\ fixture \in Fixture /\ catalog \in Catalog /\ site \in Site
  /\ work = None
  /\ interrupted = FALSE
  /\ \/ /\ file = [n \in File |-> Absent]
        /\ published = {}
     \/ /\ \E ids \in Selections, s \in Usable :
             Selects(fixture, ids) /\ file = LegacyFiles(ids, s)
        /\ published = {fixture}

Next == main \/ rescore_existing \/ Killed \/ EditRepository \/ Change

Spec == Init /\ [][Next]_vars
-----------------------------------------------------------------------------
(* Properties *)

TypeOK ==
  /\ file["tasks"] \in Seq(RecordedTask) \cup {Absent, Torn}
  /\ \A m \in Mode : file[m] \in Seq(Record) \cup {Absent, Torn}
  /\ file["environment"] \in Environment \cup {Absent, Torn}
  /\ published \subseteq Fixture

\* A score is of the events its run printed and of the catalog it ran with: no
\* sequence of redactions and rescores ever scores a redacted stream.
ScoresAreOfTheRun ==
  \A m \in Mode : Readable(m) =>
    \A i \in DOMAIN file[m] :
      /\ file[m][i].score.events = file[m][i].printed
      /\ Readable("environment") =>
           file[m][i].score.catalog = file["environment"].catalog

\* A summary is of a run of both modes over every recorded task, none of which
\* failed, whatever was killed half way and rescored.
SummaryIsComplete ==
  Readable("summary") =>
    \A m \in Mode :
      /\ Readable(m)
      /\ DOMAIN file[m] = DOMAIN file["tasks"]
      /\ [i \in DOMAIN file[m] |-> file[m][i].task] = file["tasks"]
      /\ \A i \in DOMAIN file[m] : ~execution_failure(file[m][i])
      /\ [i \in DOMAIN file["summary"][m] |-> file["summary"][m][i].id]
           = [i \in DOMAIN file["tasks"] |-> file["tasks"][i].id]

\* Where no rescore was killed, the files agree: the summary is of the records,
\* and all of them were scored, and are counted in it, by the tasks of the
\* fixture environment.json names.
FilesAgree ==
  Readable("summary") /\ work = None /\ ~interrupted =>
    /\ file["summary"] = summarize([m \in Mode |-> file[m]])
    /\ LET env == file["environment"]
           scoring == IF env.scoring = None THEN env.fixture ELSE env.scoring
       IN  \A m \in Mode : \A i \in DOMAIN file[m] :
             /\ file[m][i].score.fixture = scoring
             /\ file["summary"][m][i].classified = scoring

\* "Prior scoring hashes [...] are retained" (docs/PRODUCT_EVIDENCE.md:49): the
\* environment names the fixture of every summary there ever was.
PriorScoringRetained ==
  Readable("environment") /\ work = None =>
    LET env == file["environment"]
    IN  published \subseteq {env.fixture, env.scoring} \cup env.prior

\* A rescore killed before or after it wrote environment.json can be run again
\* where nothing was redacted: no order of its writes makes it refuse what it
\* has half written.
InterruptedRescoreRetries ==
  /\ interrupted /\ work = None
  /\ Readable("environment")
  /\ file["environment"].catalog = catalog
  /\ TasksMatch
  /\ \A m \in Mode : \A i \in DOMAIN file[m] :
       ~file[m][i].redacted /\ ~execution_failure(Rescored(file[m][i]))
  => Accepts

\* What cannot be had without another call of the client stays readable: once
\* there was a summary, no kill leaves a record file half written.
RecordsSurvive ==
  published # {} => \A n \in Mode \cup {"tasks"} : Readable(n)

\* The runs that are recorded were served the catalog, and by a binary of the
\* Go files, that environment.json names.
RunsUseRecordedInputs ==
  work # None /\ work.step \in {"run", "append"} =>
    /\ work.served = file["environment"].catalog
    /\ BinaryIsOfSource(work.build)
=============================================================================
