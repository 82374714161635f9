------------------------ MODULE Gate6Evidence_proofs ------------------------
(***************************************************************************)
(* What the evidence directory keeps, whatever is killed and rescored, for *)
(* any tasks, streams, redaction rules and number of rescores.  The        *)
(* invariant says of each process what it still holds in memory of the     *)
(* files it has written (MainOk, RescoreOk); of the files alone, what is   *)
(* left when it is killed (FilesOk).                                       *)
(* A second invariant on top of it (AgreeInv) says what one file has to do *)
(* with another: of which fixture the scores are, and that the next        *)
(* rescore can read what a killed one leaves.                              *)
(***************************************************************************)
EXTENDS Gate6Evidence, TLAPS

MainStep == {"schema", "tasks", "copy", "build", "verify", "environment", "run", "append"}

MainWork == [ step : MainStep, tasks : Seq(RecordedTask), catalog : Catalog,
              served : Catalog \cup {None}, build : Build, site : Site, runs : Nat,
              records : [Mode -> Seq(Record)] ]

Preparing == work # None /\ work.step \in MainStep
Rescoring == work # None /\ work.step = "rescore"

\* The fixtures environment.json names.
NamesOf(env) == {env.fixture, env.scoring} \cup env.prior

\* What is not flagged as redacted is what was printed, and what was scored is.
RecordsOk(rs) ==
  \A i \in DOMAIN rs :
    /\ ~rs[i].redacted => rs[i].events = rs[i].printed
    /\ rs[i].score.events = rs[i].printed

ScoredWith(rs, c) == \A i \in DOMAIN rs : rs[i].score.catalog = c

Complete(rs, tasks) ==
  /\ DOMAIN rs = DOMAIN tasks
  /\ \A i \in DOMAIN rs : rs[i].task = tasks[i] /\ ~execution_failure(rs[i])

SummaryOf(summary, tasks) ==
  [i \in DOMAIN summary |-> summary[i].id] = [i \in DOMAIN tasks |-> tasks[i].id]

WorkOk ==
  /\ work \in MainWork \cup RescoreWork \cup {None}
  /\ fixture \in Fixture /\ catalog \in Catalog /\ site \in Site
  /\ published \subseteq Fixture

FilesOk ==
  /\ DOMAIN file = File
  /\ file["tasks"] \in Seq(RecordedTask) \cup {Absent, Torn}
  /\ file["environment"] \in Environment \cup {Absent, Torn}
  /\ \A m \in Mode :
       /\ file[m] \in Seq(Record) \cup {Absent, Torn}
       /\ Readable(m) => RecordsOk(file[m])
       /\ Readable(m) /\ Readable("environment") =>
            ScoredWith(file[m], file["environment"].catalog)
       /\ published # {} => Readable(m)
       /\ Readable("summary") =>
            /\ Readable(m)
            /\ Complete(file[m], file["tasks"])
            /\ SummaryOf(file["summary"][m], file["tasks"])
  /\ published # {} \/ Readable("summary") => Readable("tasks")
  /\ Readable("environment") => published \subseteq NamesOf(file["environment"])

\* How many of the first k runs are of mode m.
RunsOf(k, m) ==
  2 * (k \div 4) + IF m = "eager" THEN (IF k % 4 = 0 THEN 0 ELSE 1)
                   ELSE IF k % 4 = 3 THEN 2 ELSE IF k % 4 = 2 THEN 1 ELSE 0

\* A mode's file holds its runs, or is not there before the first.
FileOfRuns(m) == IF work.records[m] = <<>> THEN file[m] = Absent
                 ELSE file[m] = work.records[m]

MainOk == Preparing =>
  /\ work.tasks # <<>>
  /\ published = {}
  /\ file["summary"] \in {Absent, Torn}
  /\ work.step \in {"schema", "tasks"} => file["tasks"] \in {Absent, Torn}
  /\ work.step \notin {"schema", "tasks"} => file["tasks"] = work.tasks
  /\ work.step \notin {"run", "append"} => file["environment"] \in {Absent, Torn} /\ work.runs = 0
  /\ work.step \in {"run", "append"} =>
       /\ Readable("environment")
       /\ file["environment"].catalog = work.catalog
       /\ file["environment"].fixture = work.tasks[1].fixture
  /\ \A m \in Mode :
       /\ RecordsOk(work.records[m])
       /\ ScoredWith(work.records[m], work.catalog)
       /\ Len(work.records[m]) = RunsOf(work.runs, m)
       /\ \A i \in DOMAIN work.records[m] : i \in DOMAIN work.tasks /\ work.records[m][i].task = work.tasks[i]
       /\ work.step # "append" \/ m # ModeOfRun(work.runs - 1) => FileOfRuns(m)
  /\ work.step = "append" => work.runs > 0 /\ work.records[ModeOfRun(work.runs - 1)] # <<>>

\* A version is the later the larger, so equal readings enclose the build.
BuildOk == Preparing =>
  /\ work.build.source \in Nat /\ work.build.source <= work.build.tree
  /\ work.step \notin {"schema", "tasks", "copy"} => work.served = work.catalog
  /\ work.step = "verify" =>
       /\ work.build.binary \in Nat
       /\ work.build.source <= work.build.binary
       /\ work.build.binary <= work.build.tree
  /\ work.step \in {"environment", "run", "append"} => BinaryIsOfSource(work.build)

RescoreOk == Rescoring =>
  /\ Readable("tasks")
  /\ published \subseteq NamesOf(work.new.environment)
  /\ work.new.environment.scoring \in Fixture
  /\ \A m \in Mode :
       /\ RecordsOk(work.new[m])
       /\ ScoredWith(work.new[m], work.new.environment.catalog)
       /\ Complete(work.new[m], file["tasks"])
       /\ SummaryOf(work.new.summary[m], file["tasks"])
       /\ Readable(m)
       /\ ScoredWith(file[m], work.new.environment.catalog)
  /\ Readable("environment") =>
       file["environment"].catalog = work.new.environment.catalog
  /\ work.at >= 2 => file["eager"] = work.new["eager"]
  /\ work.at >= 3 => file["skillloader"] = work.new["skillloader"]
  /\ work.at >= 4 => file["environment"] = work.new["environment"]

IInv == WorkOk /\ FilesOk /\ MainOk /\ BuildOk /\ RescoreOk

-----------------------------------------------------------------------------
(* The order of the runs *)

LEMMA ModesAreModes == \A k \in Nat : ModeOfRun(k) \in Mode
BY DEF ModeOfRun, Mode

\* The next run is the next of its mode, and of the task its number says.
LEMMA NextRunOfMode ==
  ASSUME NEW k \in Nat
  PROVE  /\ RunsOf(k, ModeOfRun(k)) = k \div 2
         /\ RunsOf(k + 1, ModeOfRun(k)) = k \div 2 + 1
         /\ \A m \in Mode \ {ModeOfRun(k)} : RunsOf(k + 1, m) = RunsOf(k, m)
BY DEF RunsOf, ModeOfRun, Mode

\* Pairs of runs are of both modes.
LEMMA RunsOfPairs == \A n \in Nat, m \in Mode : RunsOf(2 * n, m) = n
BY DEF RunsOf, Mode

-----------------------------------------------------------------------------
(* Facts that several steps need *)

LEMMA WriteOne ==
  ASSUME DOMAIN file = File, NEW n \in File, NEW v, Write(n, v)
  PROVE  /\ DOMAIN file' = File
         /\ file'[n] = v
         /\ \A k \in File \ {n} : file'[k] = file[k]
BY DEF Write

LEMMA WorkOfStep ==
  ASSUME WorkOk
  PROVE  /\ Preparing => work \in MainWork
         /\ Rescoring => work \in RescoreWork
BY DEF WorkOk, Preparing, Rescoring, MainWork, RescoreWork, MainStep

LEMMA FilesStay == FilesOk /\ UNCHANGED <<file, published>> => FilesOk'
BY DEF FilesOk, Readable

\* When a process ends, what it leaves is what the files alone are known to be.
LEMMA ProcessEnds ==
  ASSUME IInv, work' = None, UNCHANGED <<file, published>>,
         fixture' \in Fixture, catalog' \in Catalog, site' \in Site
  PROVE  IInv'
BY FilesStay DEF IInv, WorkOk, MainOk, BuildOk, RescoreOk, Preparing, Rescoring

\* A file torn under nobody's feet.
LEMMA TearFile ==
  ASSUME FilesOk, NEW n \in File, Write(n, Torn), published' = published,
         n \in Mode \cup {"tasks"} => published = {} /\ ~Readable("summary")
  PROVE  FilesOk'
<1>1. DOMAIN file' = File /\ file'[n] = Torn /\ \A k \in File \ {n} : file'[k] = file[k]
  BY WriteOne DEF FilesOk
<1>2. \A k \in File : file'[k] = file[k] \/ file'[k] = Torn
  BY <1>1
<1>3. ~Readable(n)'
  BY <1>1 DEF Readable
<1>4. \A k \in File \ {n} : Readable(k)' <=> Readable(k)
  BY <1>1 DEF Readable
<1>5. Mode \subseteq File /\ {"tasks", "environment", "summary"} \subseteq File
  BY DEF File
<1> QED
  BY <1>1, <1>2, <1>3, <1>4, <1>5 DEF FilesOk

LEMMA TasksOfRun ==
  ASSUME NEW ids \in Selections, NEW f \in Fixture
  PROVE  /\ Tasks(ids, f) \in Seq(RecordedTask)
         /\ Tasks(ids, f) # <<>>
         /\ DOMAIN Tasks(ids, f) = DOMAIN ids
         /\ ids \in Seq(Id)
<1>1. ids \in Seq(Id) /\ ids # <<>>
  BY EvidenceAssumption
<1>2. /\ Len(ids) \in Nat /\ Len(ids) > 0 /\ DOMAIN ids = 1 .. Len(ids)
      /\ \A i \in 1 .. Len(ids) : ids[i] \in Id
  BY <1>1
<1>3. Tasks(ids, f) = [i \in 1 .. Len(ids) |-> [id |-> ids[i], fixture |-> f]]
  BY <1>2 DEF Tasks
<1>4. \A i \in 1 .. Len(ids) : [id |-> ids[i], fixture |-> f] \in RecordedTask
  BY <1>2 DEF RecordedTask
<1>5. Tasks(ids, f) \in [1 .. Len(ids) -> RecordedTask]
  BY <1>3, <1>4
<1>6. Tasks(ids, f) \in Seq(RecordedTask)
  BY <1>2, <1>5
<1>7. Len(Tasks(ids, f)) = Len(ids)
  BY <1>2, <1>5, <1>6
<1> QED
  BY <1>1, <1>2, <1>5, <1>6, <1>7

-----------------------------------------------------------------------------
(* The steps of main *)

LEMMA BeginStep ==
  ASSUME IInv, NEW ids \in Selections, Begin(ids)
  PROVE  IInv'
<1>1. published = {}
  BY DEF IInv, FilesOk, Begin, Readable, File, Mode
<1>2. FilesOk' /\ DOMAIN file' = File /\ \A k \in File \ {"schema"} : file'[k] = Absent
  <2>1. Write("schema", Torn) /\ published' = published /\ "schema" \in File
    BY DEF Begin, File
  <2> QED
    BY <2>1, TearFile, WriteOne DEF IInv, FilesOk, Begin, Mode
<1>3. PICK build \in Recorded(NewBuild) :
        work' = [ step |-> "schema", tasks |-> Tasks(ids, fixture), catalog |-> catalog,
                  served |-> None, build |-> build, site |-> site, runs |-> 0,
                  records |-> [m \in Mode |-> <<>>] ]
  BY DEF Begin
<1>4. build \in Build /\ build.source = 0 /\ build.tree = 0
  <2>1. build = [tree |-> 0, clean |-> TRUE, source |-> 0, binary |-> Unread]
    BY DEF Recorded, NewBuild
  <2> QED
    BY <2>1, BuildAssumption DEF Build
<1>5. work' \in MainWork
  BY <1>3, <1>4, TasksOfRun DEF MainWork, MainStep, IInv, WorkOk
<1>6. WorkOk'
  BY <1>5 DEF IInv, WorkOk, Begin
<1>7. MainOk'
  <2>1. \A m \in Mode : RunsOf(0, m) = 0
    BY RunsOfPairs
  <2>2. Mode \subseteq File \ {"schema"} /\ {"summary", "tasks", "environment"} \subseteq File \ {"schema"}
    BY DEF File, Mode
  <2>3. work'.tasks # <<>>
    BY <1>3, TasksOfRun DEF IInv, WorkOk
  <2>4. published' = {}
    BY <1>1 DEF Begin
  <2> QED
    BY <1>2, <1>3, <2>1, <2>2, <2>3, <2>4
    DEF MainOk, RecordsOk, ScoredWith, FileOfRuns
<1>8. BuildOk'
  BY <1>3, <1>4 DEF BuildOk
<1>9. RescoreOk'
  BY <1>3 DEF RescoreOk, Rescoring
<1> QED
  BY <1>2, <1>6, <1>7, <1>8, <1>9 DEF IInv

\* A step of main that changes only what main knows, before its first run.
LEMMA ProceedStep ==
  ASSUME IInv, Preparing, work' \in MainWork,
         work.step \in {"copy", "build", "verify"}, work'.step \in {"build", "verify", "environment"},
         UNCHANGED <<file, published, fixture, catalog, site>>,
         \A x \in {"tasks", "catalog", "site", "runs", "records"} : work'[x] = work[x],
         BuildOk'
  PROVE  IInv'
<1>1. WorkOk' /\ FilesOk'
  BY FilesStay DEF IInv, WorkOk
<1>2. RescoreOk'
  BY DEF RescoreOk, Rescoring
<1>3. work'.tasks = work.tasks /\ work'.catalog = work.catalog
      /\ work'.runs = work.runs /\ work'.records = work.records
  OBVIOUS
<1>4. MainOk'
  BY <1>3 DEF IInv, MainOk, FileOfRuns
<1> QED
  BY <1>1, <1>2, <1>4 DEF IInv

\* Main opens the file of its step.
LEMMA MainOpens ==
  ASSUME IInv, Preparing, NEW n \in File, Open(n),
         \/ n = work.step /\ n \in {"schema", "tasks", "environment"}
         \/ work.step = "append" /\ n = ModeOfRun(work.runs - 1)
         \/ work.step = "run" /\ n \in {"failures", "summary"}
  PROVE  IInv'
<1>1. Write(n, Torn) /\ UNCHANGED <<fixture, catalog, site, work, published, interrupted>>
  BY DEF Open
<1>2. FilesOk'
  BY <1>1, TearFile DEF IInv, MainOk, Readable
<1>3. file'[n] = Torn /\ \A k \in File \ {n} : file'[k] = file[k]
  BY <1>1, WriteOne DEF IInv, FilesOk
<1>4. WorkOk' /\ BuildOk' /\ RescoreOk'
  BY <1>1 DEF IInv, WorkOk, BuildOk, RescoreOk, Preparing, Rescoring, MainStep
<1>5. MainOk'
  <2>1. {"tasks", "environment", "summary"} \subseteq File /\ Mode \subseteq File
    BY DEF File
  <2>2. n # "environment" \/ work.step = "environment"
    BY DEF Mode, ModeOfRun
  <2>3. n # "tasks" \/ work.step = "tasks"
    BY DEF Mode, ModeOfRun
  <2>4. n \in Mode => work.step = "append" /\ n = ModeOfRun(work.runs - 1)
    BY DEF Mode
  <2> QED
    BY <1>1, <1>3, <2>1, <2>2, <2>3, <2>4
    DEF IInv, MainOk, Preparing, FileOfRuns, Readable
<1> QED
  BY <1>2, <1>4, <1>5 DEF IInv

\* The fields that the next step of the preparation leaves as they are.
LEMMA NextStepWork ==
  ASSUME IInv, Preparing, NEW s \in MainStep, work' = [work EXCEPT !.step = s]
  PROVE  /\ work' \in MainWork
         /\ work'.step = s
         /\ work'.tasks = work.tasks /\ work'.catalog = work.catalog
         /\ work'.runs = work.runs /\ work'.records = work.records
         /\ work'.build = work.build /\ work'.served = work.served
BY WorkOfStep DEF IInv, MainWork

\* Before the first run no file of a mode is there.
LEMMA NoRunsYet ==
  ASSUME IInv, Preparing, work.step \notin {"run", "append"}
  PROVE  \A m \in Mode : work.records[m] = <<>> /\ file[m] = Absent
<1>1. work \in MainWork
  BY WorkOfStep DEF IInv
<1>2. ASSUME NEW m \in Mode PROVE work.records[m] = <<>> /\ FileOfRuns(m)
  <2>1. work.records[m] \in Seq(Record)
    BY <1>1 DEF MainWork
  <2>2. Len(work.records[m]) = 0
    BY RunsOfPairs DEF IInv, MainOk
  <2>3. FileOfRuns(m)
    BY DEF IInv, MainOk
  <2> QED
    BY <2>1, <2>2, <2>3
<1> QED
  BY <1>2 DEF FileOfRuns

LEMMA WriteSchemaStep == IInv /\ WriteSchema => IInv'
<1> SUFFICES ASSUME IInv, WriteSchema PROVE IInv'
  OBVIOUS
<1>1. Preparing /\ work.step = "schema" /\ "schema" \in File
  BY DEF WriteSchema, WritePreamble, Preparing, MainStep, File
<1>2. CASE Open("schema")
  BY <1>1, <1>2, MainOpens
<1>3. CASE ~Open("schema")
  <2>1. /\ Write("schema", "schema")
        /\ work' = [work EXCEPT !.step = "tasks"]
        /\ UNCHANGED <<fixture, catalog, site, published, interrupted>>
    BY <1>3 DEF WriteSchema, WritePreamble, Follows
  <2>2. DOMAIN file' = File /\ \A k \in File \ {"schema"} : file'[k] = file[k]
    BY <1>1, <2>1, WriteOne DEF IInv, FilesOk
  <2>3. Mode \subseteq File \ {"schema"} /\ {"tasks", "environment", "summary"} \subseteq File \ {"schema"}
    BY DEF File, Mode
  <2>4. FilesOk'
    BY <2>1, <2>2, <2>3 DEF IInv, FilesOk, Readable
  <2>5. /\ work' \in MainWork /\ work'.step = "tasks"
        /\ work'.tasks = work.tasks /\ work'.catalog = work.catalog
        /\ work'.runs = work.runs /\ work'.records = work.records
        /\ work'.build = work.build /\ work'.served = work.served
    BY <1>1, <2>1, NextStepWork DEF MainStep
  <2>6. WorkOk' /\ RescoreOk'
    BY <2>1, <2>5 DEF IInv, WorkOk, RescoreOk, Rescoring
  <2>7. BuildOk'
    BY <1>1, <2>5 DEF IInv, BuildOk
  <2>8. MainOk'
    BY <1>1, <2>1, <2>2, <2>3, <2>5 DEF IInv, MainOk, FileOfRuns
  <2> QED
    BY <2>4, <2>6, <2>7, <2>8 DEF IInv
<1> QED
  BY <1>2, <1>3

LEMMA WriteTasksStep == IInv /\ WriteTasks => IInv'
<1> SUFFICES ASSUME IInv, WriteTasks PROVE IInv'
  OBVIOUS
<1>1. Preparing /\ work.step = "tasks" /\ "tasks" \in File
  BY DEF WriteTasks, WritePreamble, Preparing, MainStep, File
<1>2. CASE Open("tasks")
  BY <1>1, <1>2, MainOpens
<1>3. CASE ~Open("tasks")
  <2>1. /\ Write("tasks", work.tasks)
        /\ work' = [work EXCEPT !.step = "copy"]
        /\ UNCHANGED <<fixture, catalog, site, published, interrupted>>
    BY <1>3 DEF WriteTasks, WritePreamble, Follows
  <2>2. /\ DOMAIN file' = File /\ file'["tasks"] = work.tasks
        /\ \A k \in File \ {"tasks"} : file'[k] = file[k]
    BY <1>1, <2>1, WriteOne DEF IInv, FilesOk
  <2>3. Mode \subseteq File \ {"tasks"} /\ {"environment", "summary"} \subseteq File \ {"tasks"}
    BY DEF File, Mode
  <2>4. work.tasks \in Seq(RecordedTask)
    BY <1>1, WorkOfStep DEF IInv, MainWork
  <2>5. published = {} /\ ~Readable("summary")
    BY <1>1 DEF IInv, MainOk, Readable
  <2>6. FilesOk'
    BY <2>1, <2>2, <2>3, <2>4, <2>5 DEF IInv, FilesOk, Readable
  <2>7. /\ work' \in MainWork /\ work'.step = "copy"
        /\ work'.tasks = work.tasks /\ work'.catalog = work.catalog
        /\ work'.runs = work.runs /\ work'.records = work.records
        /\ work'.build = work.build /\ work'.served = work.served
    BY <1>1, <2>1, NextStepWork DEF MainStep
  <2>8. WorkOk' /\ RescoreOk'
    BY <2>1, <2>7 DEF IInv, WorkOk, RescoreOk, Rescoring
  <2>9. BuildOk'
    BY <1>1, <2>7 DEF IInv, BuildOk
  <2>10. MainOk'
    BY <1>1, <2>1, <2>2, <2>3, <2>7 DEF IInv, MainOk, FileOfRuns
  <2> QED
    BY <2>6, <2>8, <2>9, <2>10 DEF IInv
<1> QED
  BY <1>2, <1>3

LEMMA CopyCatalogStep == IInv /\ CopyCatalog => IInv'
<1> SUFFICES ASSUME IInv, CopyCatalog PROVE IInv'
  OBVIOUS
<1>1. Preparing /\ work.step = "copy" /\ work \in MainWork
  BY WorkOfStep DEF CopyCatalog, Proceed, Preparing, MainStep, IInv
<1>2. UNCHANGED <<fixture, catalog, site, file, published, interrupted>>
  BY DEF CopyCatalog, Proceed
<1>3. CASE work' = None
  BY <1>2, <1>3, ProcessEnds DEF IInv, WorkOk
<1>4. CASE work' # None
  <2>1. catalog = work.catalog /\ work' = [work EXCEPT !.step = "build", !.served = catalog]
    BY <1>4 DEF CopyCatalog, Proceed
  <2>2. catalog \in Catalog
    BY DEF IInv, WorkOk
  <2>3. work' \in MainWork
    BY <1>1, <2>1, <2>2 DEF MainWork, MainStep
  <2>4. /\ \A x \in {"tasks", "catalog", "site", "runs", "records"} : work'[x] = work[x]
        /\ work'.step = "build" /\ work'.build = work.build /\ work'.served = work.catalog
        /\ work'.catalog = work.catalog
    BY <1>1, <2>1 DEF MainWork
  <2>5. BuildOk'
    BY <1>1, <2>4 DEF IInv, BuildOk
  <2> QED
    BY <1>1, <1>2, <2>3, <2>4, <2>5, ProceedStep
<1> QED
  BY <1>3, <1>4

LEMMA GoBuildStep == IInv /\ GoBuild => IInv'
<1> SUFFICES ASSUME IInv, GoBuild PROVE IInv'
  OBVIOUS
<1>0. /\ work # None /\ work.step = "build"
      /\ UNCHANGED <<fixture, catalog, site, file, published, interrupted>>
  BY ZenonT(30) DEF GoBuild, Proceed
<1>1. Preparing /\ work.step = "build" /\ work \in MainWork
  BY <1>0, WorkOfStep DEF Preparing, MainStep, IInv
<1>2. UNCHANGED <<fixture, catalog, site, file, published, interrupted>>
  BY <1>0
<1>3. CASE work' = None
  BY <1>2, <1>3, ProcessEnds DEF IInv, WorkOk
<1>4. CASE work' # None
  <2>1. work' = [work EXCEPT !.step = "verify", !.build = [work.build EXCEPT !.binary = work.build.tree]]
    BY <1>4 DEF GoBuild, Proceed, Compiled
  <2>2. work.build \in Build
    BY <1>1 DEF MainWork
  <2>3. work' \in MainWork
    BY <1>1, <2>1, <2>2 DEF MainWork, MainStep, Build
  <2>4. /\ \A x \in {"tasks", "catalog", "site", "runs", "records"} : work'[x] = work[x]
        /\ work'.step = "verify" /\ work'.served = work.served
        /\ work'.catalog = work.catalog
        /\ work'.build.source = work.build.source /\ work'.build.tree = work.build.tree
        /\ work'.build.binary = work.build.tree
    BY <1>1, <2>1, <2>2 DEF MainWork, Build
  <2>5. BuildOk'
    BY <1>1, <2>2, <2>4, BuildAssumption DEF IInv, BuildOk, Build
  <2> QED
    BY <1>1, <1>2, <2>3, <2>4, <2>5, ProceedStep
<1> QED
  BY <1>3, <1>4

LEMMA VerifyBuildStep == IInv /\ VerifyBuild => IInv'
<1> SUFFICES ASSUME IInv, VerifyBuild PROVE IInv'
  OBVIOUS
<1>0. /\ work # None /\ work.step = "verify"
      /\ UNCHANGED <<fixture, catalog, site, file, published, interrupted>>
  BY ZenonT(30) DEF VerifyBuild, Proceed
<1>1. Preparing /\ work.step = "verify" /\ work \in MainWork
  BY <1>0, WorkOfStep DEF Preparing, MainStep, IInv
<1>2. UNCHANGED <<fixture, catalog, site, file, published, interrupted>>
  BY <1>0
<1>3. CASE work' = None
  BY <1>2, <1>3, ProcessEnds DEF IInv, WorkOk
<1>4. CASE work' # None
  <2>1. work.build.tree = work.build.source /\ work' = [work EXCEPT !.step = "environment"]
    BY <1>4 DEF VerifyBuild, Proceed, Verified
  <2>2. work.build \in Build
    BY <1>1 DEF MainWork
  <2>3. work' \in MainWork
    BY <1>1, <2>1 DEF MainWork, MainStep
  <2>4. /\ \A x \in {"tasks", "catalog", "site", "runs", "records"} : work'[x] = work[x]
        /\ work'.step = "environment" /\ work'.served = work.served
        /\ work'.catalog = work.catalog /\ work'.build = work.build
    BY <1>1, <2>1 DEF MainWork
  <2>5. work.build.binary = work.build.source /\ work.build.source # Unread
    BY <1>1, <2>1, <2>2, BuildAssumption DEF IInv, BuildOk, Build
  <2>6. BuildOk'
    BY <1>1, <2>4, <2>5 DEF IInv, BuildOk, BinaryIsOfSource
  <2> QED
    BY <1>1, <1>2, <2>3, <2>4, <2>6, ProceedStep
<1> QED
  BY <1>3, <1>4

LEMMA WriteEnvironmentStep == IInv /\ WriteEnvironment => IInv'
<1> SUFFICES ASSUME IInv, WriteEnvironment PROVE IInv'
  OBVIOUS
<1>1. Preparing /\ work.step = "environment" /\ "environment" \in File /\ work \in MainWork
  BY WorkOfStep DEF WriteEnvironment, Preparing, MainStep, File, IInv
<1>2. CASE Open("environment")
  BY <1>1, <1>2, MainOpens
<1>3. CASE ~Open("environment")
  <2> DEFINE env == [ fixture |-> work.tasks[1].fixture, catalog |-> work.catalog,
                      scoring |-> work.tasks[1].fixture, prior |-> {},
                      argv_schema_version |-> None ]
  <2>1. /\ Write("environment", env)
        /\ work' = [work EXCEPT !.step = "run"]
        /\ UNCHANGED <<fixture, catalog, site, published, interrupted>>
    BY <1>3 DEF WriteEnvironment, WritePreamble, Follows
  <2>2. /\ DOMAIN file' = File /\ file'["environment"] = env
        /\ \A k \in File \ {"environment"} : file'[k] = file[k]
    BY <1>1, <2>1, WriteOne DEF IInv, FilesOk
  <2>3. Mode \subseteq File \ {"environment"} /\ {"tasks", "summary"} \subseteq File \ {"environment"}
    BY DEF File, Mode
  <2>4. env \in Environment
    <3>1. work.tasks \in Seq(RecordedTask) /\ work.tasks # <<>>
      BY <1>1 DEF IInv, MainOk, MainWork
    <3>2. work.tasks[1] \in RecordedTask
      BY <3>1
    <3> QED
      BY <1>1, <3>2 DEF Environment, RecordedTask, MainWork
  <2>5. Readable("environment")'
    BY <2>2, <2>4, UnreadableAssumption DEF Readable
  <2>6. published = {} /\ ~Readable("summary") /\ \A m \in Mode : ~Readable(m)
    BY <1>1, NoRunsYet DEF IInv, MainOk, Readable
  <2>7. FilesOk'
    BY <2>1, <2>2, <2>3, <2>4, <2>6 DEF IInv, FilesOk, Readable
  <2>8. /\ work' \in MainWork /\ work'.step = "run"
        /\ work'.tasks = work.tasks /\ work'.catalog = work.catalog
        /\ work'.runs = work.runs /\ work'.records = work.records
        /\ work'.build = work.build /\ work'.served = work.served
    BY <1>1, <2>1, NextStepWork DEF MainStep
  <2>9. WorkOk' /\ RescoreOk'
    BY <2>1, <2>8 DEF IInv, WorkOk, RescoreOk, Rescoring
  <2>10. BuildOk'
    BY <1>1, <2>8 DEF IInv, BuildOk
  <2>11. MainOk'
    BY <1>1, <2>1, <2>2, <2>3, <2>5, <2>8 DEF IInv, MainOk, FileOfRuns
  <2> QED
    BY <2>7, <2>9, <2>10, <2>11 DEF IInv
<1> QED
  BY <1>2, <1>3

\* What one run adds to what main knows.
LEMMA RunWork ==
  ASSUME IInv, Preparing, work.step = "run", work.runs < 2 * Len(work.tasks),
         NEW s \in Stream, NEW exit_zero \in BOOLEAN
  PROVE  LET m0 == ModeOfRun(work.runs)
             rec == RunRecord(work.tasks[work.runs \div 2 + 1], s, exit_zero)
         IN  /\ work \in MainWork /\ m0 \in Mode
             /\ work.runs \div 2 + 1 \in DOMAIN work.tasks
             /\ rec \in Record
             /\ rec.task = work.tasks[work.runs \div 2 + 1]
             /\ ~rec.redacted => rec.events = rec.printed
             /\ rec.score.events = rec.printed
             /\ rec.score.catalog = work.catalog
             /\ work.records[m0] \in Seq(Record)
             /\ Len(work.records[m0]) = work.runs \div 2
<1> DEFINE m0 == ModeOfRun(work.runs)
           task == work.tasks[work.runs \div 2 + 1]
           rec == RunRecord(task, s, exit_zero)
<1>1. work \in MainWork /\ work.runs \in Nat /\ work.tasks \in Seq(RecordedTask)
  BY WorkOfStep DEF IInv, MainWork
<1>2. m0 \in Mode /\ work.records[m0] \in Seq(Record)
  BY <1>1, ModesAreModes DEF MainWork
<1>3. work.runs \div 2 + 1 \in 1 .. Len(work.tasks)
  BY <1>1
<1>4. task \in RecordedTask /\ work.runs \div 2 + 1 \in DOMAIN work.tasks
  BY <1>1, <1>3
<1>5. Sanitize[work.site][s] \in Stream
  BY <1>1, EvidenceAssumption DEF MainWork
<1>6. [events |-> s, fixture |-> task.fixture, catalog |-> work.catalog] \in Score
  BY <1>1, <1>4 DEF MainWork, Score, RecordedTask
<1>7. rec \in Record
  BY <1>4, <1>5, <1>6 DEF RunRecord, Record, RecordedTask
<1>8. /\ rec.task = task
      /\ ~rec.redacted => rec.events = rec.printed
      /\ rec.score.events = rec.printed
      /\ rec.score.catalog = work.catalog
  BY DEF RunRecord
<1>9. Len(work.records[m0]) = work.runs \div 2
  <2>1. Len(work.records[m0]) = RunsOf(work.runs, m0)
    BY <1>2 DEF IInv, MainOk
  <2> QED
    BY <1>1, <2>1, NextRunOfMode
<1> QED
  BY <1>1, <1>2, <1>4, <1>7, <1>8, <1>9

LEMMA RunClientStep == IInv /\ RunClient => IInv'
<1> SUFFICES ASSUME IInv, RunClient PROVE IInv'
  OBVIOUS
<1>1. Preparing /\ work.step = "run" /\ work.runs < 2 * Len(work.tasks)
      /\ UNCHANGED <<fixture, catalog, site, file, published, interrupted>>
  BY DEF RunClient, Preparing, MainStep
<1> DEFINE m0 == ModeOfRun(work.runs)
           task == work.tasks[work.runs \div 2 + 1]
<1>2. PICK s \in Stream, exit_zero \in BOOLEAN :
        work' = WithRun(m0, RunRecord(task, s, exit_zero))
  BY DEF RunClient
<1> DEFINE rec == RunRecord(task, s, exit_zero)
<1>3. /\ work \in MainWork /\ m0 \in Mode
      /\ work.runs \div 2 + 1 \in DOMAIN work.tasks
      /\ rec \in Record /\ rec.task = task
      /\ ~rec.redacted => rec.events = rec.printed
      /\ rec.score.events = rec.printed
      /\ rec.score.catalog = work.catalog
      /\ work.records[m0] \in Seq(Record)
      /\ Len(work.records[m0]) = work.runs \div 2
  BY <1>1, RunWork
<1> HIDE DEF rec, task, m0
<1>4. /\ work'.step = "append" /\ work'.runs = work.runs + 1
      /\ work'.tasks = work.tasks /\ work'.catalog = work.catalog /\ work'.site = work.site
      /\ work'.served = work.served /\ work'.build = work.build
      /\ work'.records[m0] = Append(work.records[m0], rec)
      /\ \A m \in Mode \ {m0} : work'.records[m] = work.records[m]
  BY <1>2, <1>3 DEF MainWork, rec, WithRun
<1>5. work' \in MainWork
  <2>1. Append(work.records[m0], rec) \in Seq(Record)
    BY <1>3
  <2> DEFINE new == [work.records EXCEPT ![m0] = Append(work.records[m0], rec)]
  <2>2. new \in [Mode -> Seq(Record)]
    BY <1>3, <2>1 DEF MainWork
  <2>3. work' = [[[work EXCEPT !.runs = work.runs + 1] EXCEPT !.step = "append"]
                   EXCEPT !.records = new]
    BY <1>2 DEF WithRun, rec
  <2> HIDE DEF new
  <2>4. work.runs + 1 \in Nat /\ "append" \in MainStep
    BY <1>3 DEF MainWork, MainStep
  <2> QED
    BY <1>3, <2>2, <2>3, <2>4 DEF MainWork
<1>6. WorkOk' /\ FilesOk' /\ RescoreOk'
  BY <1>1, <1>4, <1>5, FilesStay DEF IInv, WorkOk, RescoreOk, Rescoring
<1>7. BuildOk'
  BY <1>1, <1>4 DEF IInv, BuildOk
<1>8. ModeOfRun(work'.runs - 1) = m0
  BY <1>3, <1>4 DEF MainWork, m0
<1>9. MainOk'
  <2>1. ASSUME NEW m \in Mode
        PROVE  /\ RecordsOk(work'.records[m])
               /\ ScoredWith(work'.records[m], work.catalog)
               /\ Len(work'.records[m]) = RunsOf(work.runs + 1, m)
               /\ \A i \in DOMAIN work'.records[m] :
                    i \in DOMAIN work.tasks /\ work'.records[m][i].task = work.tasks[i]
    <3>1. /\ RecordsOk(work.records[m])
          /\ ScoredWith(work.records[m], work.catalog)
          /\ Len(work.records[m]) = RunsOf(work.runs, m)
          /\ \A i \in DOMAIN work.records[m] :
               i \in DOMAIN work.tasks /\ work.records[m][i].task = work.tasks[i]
      BY <1>1 DEF IInv, MainOk
    <3>2. work.runs \in Nat
      BY <1>3 DEF MainWork
    <3>3. CASE m # m0
      BY <1>4, <3>1, <3>2, <3>3, NextRunOfMode DEF m0
    <3>4. CASE m = m0
      <4> DEFINE old == work.records[m0]
      <4>1. /\ DOMAIN Append(old, rec) = 1 .. work.runs \div 2 + 1
            /\ DOMAIN old = 1 .. work.runs \div 2
            /\ Len(Append(old, rec)) = work.runs \div 2 + 1
            /\ Append(old, rec)[work.runs \div 2 + 1] = rec
            /\ \A i \in DOMAIN old : Append(old, rec)[i] = old[i]
        BY <1>3, <3>2
      <4>2. \A i \in DOMAIN Append(old, rec) : i \in DOMAIN old \/ i = work.runs \div 2 + 1
        BY <4>1, <3>2
      <4>3. RunsOf(work.runs + 1, m0) = work.runs \div 2 + 1
        BY <3>2, NextRunOfMode DEF m0
      <4> DEFINE longer == Append(old, rec)
      <4>4. work'.records[m] = longer /\ work.records[m] = old
        BY <1>4, <3>4
      <4>5. ASSUME NEW i \in DOMAIN longer
            PROVE  /\ ~longer[i].redacted => longer[i].events = longer[i].printed
                   /\ longer[i].score.events = longer[i].printed
                   /\ longer[i].score.catalog = work.catalog
                   /\ i \in DOMAIN work.tasks /\ longer[i].task = work.tasks[i]
        <5>1. CASE i \in DOMAIN old
          <6>1. longer[i] = old[i]
            BY <4>1, <5>1
          <6> HIDE DEF longer
          <6> QED
            BY <3>1, <4>4, <5>1, <6>1 DEF RecordsOk, ScoredWith
        <5>2. CASE i = work.runs \div 2 + 1
          <6>1. longer[i] = rec
            BY <4>1, <5>2
          <6> HIDE DEF longer
          <6> QED
            BY <1>3, <5>2, <6>1 DEF task
        <5> QED
          BY <4>2, <5>1, <5>2
      <4>6. Len(longer) = RunsOf(work.runs + 1, m)
        BY <3>4, <4>1, <4>3
      <4> HIDE DEF longer
      <4> QED
        BY <4>4, <4>5, <4>6 DEF RecordsOk, ScoredWith
    <3> QED
      BY <3>3, <3>4
  <2>2. \A m \in Mode \ {m0} : FileOfRuns(m)'
    BY <1>1, <1>4 DEF IInv, MainOk, FileOfRuns
  <2>3. work'.runs > 0 /\ work'.records[m0] # <<>>
    BY <1>3, <1>4 DEF MainWork
  <2> QED
    BY <1>1, <1>4, <1>8, <2>1, <2>2, <2>3 DEF IInv, MainOk, Readable
<1> QED
  BY <1>6, <1>7, <1>9 DEF IInv

LEMMA AppendRecordStep == IInv /\ AppendRecord => IInv'
<1> SUFFICES ASSUME IInv, AppendRecord PROVE IInv'
  OBVIOUS
<1> DEFINE m0 == ModeOfRun(work.runs - 1)
<1>1. Preparing /\ work.step = "append" /\ work \in MainWork /\ m0 \in Mode /\ m0 \in File
  <2>1. Preparing /\ work.step = "append"
    BY DEF AppendRecord, Preparing, MainStep
  <2>2. work \in MainWork /\ work.runs > 0
    BY <2>1, WorkOfStep DEF IInv, MainOk
  <2>3. work.runs - 1 \in Nat
    BY <2>2 DEF MainWork
  <2> QED
    BY <2>1, <2>2, <2>3, ModesAreModes DEF File
<1>2. CASE Open(m0)
  BY <1>1, <1>2, MainOpens
<1>3. CASE ~Open(m0)
  <2>1. /\ Write(m0, work.records[m0])
        /\ work' = [work EXCEPT !.step = "run"]
        /\ UNCHANGED <<fixture, catalog, site, published, interrupted>>
    BY <1>3 DEF AppendRecord
  <2>2. /\ DOMAIN file' = File /\ file'[m0] = work.records[m0]
        /\ \A k \in File \ {m0} : file'[k] = file[k]
    BY <1>1, <2>1, WriteOne DEF IInv, FilesOk
  <2>3. /\ {"tasks", "environment", "summary"} \subseteq File \ {m0}
        /\ Mode \subseteq File
    BY <1>1 DEF File, Mode
  <2>4. /\ work.records[m0] \in Seq(Record) /\ work.records[m0] # <<>>
        /\ RecordsOk(work.records[m0])
        /\ ScoredWith(work.records[m0], file["environment"].catalog)
        /\ published = {} /\ ~Readable("summary")
        /\ \A m \in Mode \ {m0} : FileOfRuns(m)
    BY <1>1 DEF IInv, MainOk, MainWork, Readable
  <2>5. FilesOk'
    <3>1. ~Readable("summary")' /\ published' = {} /\ file'["environment"] = file["environment"]
          /\ file'["tasks"] = file["tasks"]
      BY <2>1, <2>2, <2>3, <2>4 DEF Readable
    <3>2. ASSUME NEW m \in Mode
          PROVE  /\ file'[m] \in Seq(Record) \cup {Absent, Torn}
                 /\ Readable(m)' => RecordsOk(file'[m])
                 /\ Readable(m)' /\ Readable("environment")' =>
                      ScoredWith(file'[m], file'["environment"].catalog)
      <4>1. CASE m = m0
        BY <2>2, <2>4, <3>1, <4>1
      <4>2. CASE m # m0
        BY <2>2, <2>3, <3>1, <4>2 DEF IInv, FilesOk, Readable
      <4> QED
        BY <4>1, <4>2
    <3> QED
      BY <2>2, <3>1, <3>2 DEF IInv, FilesOk, Readable
  <2>6. /\ work' \in MainWork /\ work'.step = "run"
        /\ work'.tasks = work.tasks /\ work'.catalog = work.catalog
        /\ work'.runs = work.runs /\ work'.records = work.records
        /\ work'.build = work.build /\ work'.served = work.served
    BY <1>1, <2>1, NextStepWork DEF MainStep
  <2>7. WorkOk' /\ RescoreOk'
    BY <2>1, <2>6 DEF IInv, WorkOk, RescoreOk, Rescoring
  <2>8. BuildOk'
    BY <1>1, <2>6 DEF IInv, BuildOk
  <2>9. \A m \in Mode : FileOfRuns(m)'
    BY <2>2, <2>3, <2>4, <2>6 DEF FileOfRuns
  <2>10. MainOk'
    BY <1>1, <2>1, <2>2, <2>3, <2>6, <2>9 DEF IInv, MainOk, Readable
  <2> QED
    BY <2>5, <2>7, <2>8, <2>10 DEF IInv
<1> QED
  BY <1>2, <1>3

LEMMA WriteFailuresStep == IInv /\ WriteFailures => IInv'
<1> SUFFICES ASSUME IInv, WriteFailures PROVE IInv'
  OBVIOUS
<1>1. Preparing /\ work.step = "run" /\ "failures" \in File
  BY DEF WriteFailures, Preparing, MainStep, File
<1>2. CASE Open("failures")
  BY <1>1, <1>2, MainOpens
<1>3. CASE ~Open("failures")
  <2>1. /\ Write("failures", "failures") /\ work' = None
        /\ UNCHANGED <<fixture, catalog, site, published, interrupted>>
    BY <1>3 DEF WriteFailures
  <2>2. DOMAIN file' = File /\ \A k \in File \ {"failures"} : file'[k] = file[k]
    BY <1>1, <2>1, WriteOne DEF IInv, FilesOk
  <2>3. Mode \subseteq File \ {"failures"}
        /\ {"tasks", "environment", "summary"} \subseteq File \ {"failures"}
    BY DEF File, Mode
  <2>4. FilesOk'
    BY <2>1, <2>2, <2>3 DEF IInv, FilesOk, Readable
  <2> QED
    BY <2>1, <2>4 DEF IInv, WorkOk, MainOk, BuildOk, RescoreOk, Preparing, Rescoring
<1> QED
  BY <1>2, <1>3

LEMMA WriteSummaryStep == IInv /\ WriteSummary => IInv'
<1> SUFFICES ASSUME IInv, WriteSummary PROVE IInv'
  OBVIOUS
<1>1. Preparing /\ work.step = "run" /\ "summary" \in File /\ work \in MainWork
      /\ work.runs = 2 * Len(work.tasks) /\ ~RunsFailed
  BY WorkOfStep DEF WriteSummary, Preparing, MainStep, File, IInv
<1>2. CASE Open("summary")
  BY <1>1, <1>2, MainOpens
<1>3. CASE ~Open("summary")
  <2>1. /\ Write("summary", summarize(work.records)) /\ work' = None
        /\ published' = published \cup {work.tasks[1].fixture}
        /\ UNCHANGED <<fixture, catalog, site, interrupted>>
    BY <1>3 DEF WriteSummary
  <2>2. /\ DOMAIN file' = File /\ file'["summary"] = summarize(work.records)
        /\ \A k \in File \ {"summary"} : file'[k] = file[k]
    BY <1>1, <2>1, WriteOne DEF IInv, FilesOk
  <2>3. Mode \subseteq File \ {"summary"}
        /\ {"tasks", "environment"} \subseteq File \ {"summary"}
    BY DEF File, Mode
  <2>4. work.tasks \in Seq(RecordedTask) /\ work.tasks # <<>> /\ Len(work.tasks) \in Nat
        /\ Len(work.tasks) > 0
    BY <1>1 DEF IInv, MainOk, MainWork
  <2>5. work.tasks[1].fixture \in Fixture
    <3>1. work.tasks[1] \in RecordedTask
      BY <2>4
    <3> QED
      BY <3>1 DEF RecordedTask
  <2>6. /\ file["tasks"] = work.tasks
        /\ published = {}
        /\ work.tasks[1].fixture \in NamesOf(file["environment"])
    BY <1>1 DEF IInv, MainOk, NamesOf
  <2>7. ASSUME NEW m \in Mode
        PROVE  /\ file'[m] = work.records[m] /\ work.records[m] \in Seq(Record)
               /\ Readable(m)'
               /\ RecordsOk(file'[m])
               /\ ScoredWith(file'[m], file["environment"].catalog)
               /\ Complete(file'[m], work.tasks)
               /\ SummaryOf(file'["summary"][m], work.tasks)
    <3>1. /\ work.records[m] \in Seq(Record)
          /\ Len(work.records[m]) = Len(work.tasks)
          /\ FileOfRuns(m) /\ RecordsOk(work.records[m])
          /\ ScoredWith(work.records[m], file["environment"].catalog)
          /\ \A i \in DOMAIN work.records[m] : work.records[m][i].task = work.tasks[i]
      BY <1>1, <2>4, RunsOfPairs DEF IInv, MainOk, MainWork
    <3>2. work.records[m] # <<>> /\ DOMAIN work.records[m] = DOMAIN work.tasks
      BY <2>4, <3>1
    <3>3. file'[m] = work.records[m]
      BY <2>2, <2>3, <3>1, <3>2 DEF FileOfRuns
    <3>4. Readable(m)'
      BY <3>1, <3>3, UnreadableAssumption DEF Readable
    <3>5. Complete(file'[m], work.tasks)
      BY <1>1, <3>1, <3>2, <3>3 DEF Complete, RunsFailed
    <3>6. SummaryOf(file'["summary"][m], work.tasks)
      <4>1. file'["summary"][m] = [i \in DOMAIN work.records[m] |->
              Entry(work.records[m][i])]
        BY <2>2 DEF summarize
      <4> QED
        BY <3>1, <3>2, <4>1 DEF SummaryOf, Entry
    <3> QED
      BY <3>1, <3>3, <3>4, <3>5, <3>6
  <2>8. FilesOk'
    <3>1. file'["tasks"] = work.tasks /\ file'["environment"] = file["environment"]
      BY <2>2, <2>3, <2>6
    <3>2. Readable("tasks")'
      BY <2>4, <3>1, UnreadableAssumption DEF Readable
    <3>3. published' = {work.tasks[1].fixture}
      BY <2>1, <2>6
    <3> QED
      BY <2>2, <2>4, <2>6, <2>7, <3>1, <3>2, <3>3 DEF IInv, FilesOk
  <2>9. WorkOk'
    BY <2>1, <2>5 DEF IInv, WorkOk
  <2> QED
    BY <2>1, <2>8, <2>9 DEF IInv, MainOk, BuildOk, RescoreOk, Preparing, Rescoring
<1> QED
  BY <1>2, <1>3

-----------------------------------------------------------------------------
(* The steps of a rescore *)

LEMMA EntryIs ==
  ASSUME NEW r \in Record
  PROVE  Entry(r) \in SummaryEntry
<1>1. /\ r.task \in RecordedTask /\ r.score \in Score
      /\ r.scoring_task \in Fixture \cup {None}
  BY DEF Record
<1>2. Classification(r) \in Fixture
  BY <1>1 DEF Classification, RecordedTask
<1> QED
  BY <1>1, <1>2 DEF Entry, SummaryEntry, RecordedTask

LEMMA RescoredIsRecord ==
  ASSUME WorkOk, NEW r \in Record
  PROVE  /\ Rescored(r) \in Record
         /\ Rescored(r).task = r.task /\ Rescored(r).printed = r.printed
         /\ ~Rescored(r).redacted => Rescored(r).events = r.events
         /\ Rescored(r).score.events = r.events
         /\ Rescored(r).score.catalog = catalog
<1>1. Sanitize[site][r.events] \in Stream
  BY EvidenceAssumption DEF WorkOk, Record
<1>2. [events |-> r.events, fixture |-> fixture, catalog |-> catalog] \in Score
  BY DEF WorkOk, Record, Score
<1> QED
  BY <1>1, <1>2 DEF Rescored, Record, WorkOk

\* The records of one mode, rescored.
LEMMA RescoredRecords ==
  ASSUME IInv, Accepts, NEW m \in Mode
  PROVE  LET rs == [i \in DOMAIN file[m] |-> Rescored(file[m][i])]
         IN  /\ rs \in Seq(Record)
             /\ RecordsOk(rs)
             /\ ScoredWith(rs, catalog)
             /\ Complete(rs, file["tasks"])
             /\ [i \in DOMAIN rs |-> Entry(rs[i])]
                  \in Seq(SummaryEntry)
             /\ SummaryOf([i \in DOMAIN rs |-> Entry(rs[i])],
                          file["tasks"])
<1> DEFINE rs == [i \in DOMAIN file[m] |-> Rescored(file[m][i])]
           sum == [i \in DOMAIN rs |-> Entry(rs[i])]
<1>1. file[m] \in Seq(Record) /\ RecordsOk(file[m])
  BY DEF IInv, FilesOk, Accepts, Inputs, Readable
<1>2. /\ Len(file[m]) \in Nat /\ DOMAIN file[m] = 1 .. Len(file[m])
      /\ \A i \in DOMAIN file[m] : file[m][i] \in Record
  BY <1>1
<1>3. \A i \in DOMAIN file[m] : ~file[m][i].redacted /\ ~execution_failure(Rescored(file[m][i]))
  BY DEF Accepts, RecordAccepted
<1>4. DOMAIN file[m] = DOMAIN file["tasks"]
      /\ \A i \in DOMAIN file[m] : file[m][i].task = file["tasks"][i]
  BY DEF Accepts, Paired
<1>5. ASSUME NEW i \in DOMAIN file[m]
      PROVE  /\ rs[i] \in Record
             /\ rs[i].task = file["tasks"][i] /\ ~execution_failure(rs[i])
             /\ ~rs[i].redacted => rs[i].events = rs[i].printed
             /\ rs[i].score.events = rs[i].printed /\ rs[i].score.catalog = catalog
  <2>1. rs[i] = Rescored(file[m][i]) /\ file[m][i] \in Record
    BY <1>2
  <2>2. file[m][i].events = file[m][i].printed
    BY <1>1, <1>3 DEF RecordsOk
  <2> HIDE DEF rs
  <2> QED
    BY <1>3, <1>4, <2>1, <2>2, RescoredIsRecord DEF IInv
<1>6. DOMAIN rs = DOMAIN file[m]
  OBVIOUS
<1>7. rs \in Seq(Record)
  <2>1. rs \in [1 .. Len(file[m]) -> Record]
    BY <1>2, <1>5
  <2> QED
    BY <1>2, <2>1
<1> HIDE DEF rs
<1>8. RecordsOk(rs) /\ ScoredWith(rs, catalog) /\ Complete(rs, file["tasks"])
  BY <1>4, <1>5, <1>6 DEF RecordsOk, ScoredWith, Complete
<1>9. SummaryOf(sum, file["tasks"])
  BY <1>4, <1>5, <1>6 DEF SummaryOf, Entry
<1>10. sum \in Seq(SummaryEntry)
  <2>1. \A i \in DOMAIN rs : Entry(rs[i]) \in SummaryEntry
    BY <1>5, <1>6, EntryIs
  <2>2. sum \in [1 .. Len(file[m]) -> SummaryEntry]
    BY <1>2, <1>6, <2>1
  <2> QED
    BY <1>2, <2>2
<1> QED
  BY <1>7, <1>8, <1>9, <1>10 DEF rs

LEMMA RescoredEnvironmentIs ==
  ASSUME WorkOk, NEW env \in Environment, published \subseteq NamesOf(env)
  PROVE  /\ RescoredEnvironment(env) \in Environment
         /\ published \subseteq NamesOf(RescoredEnvironment(env))
         /\ RescoredEnvironment(env).catalog = env.catalog
         /\ RescoredEnvironment(env).scoring = fixture
<1> DEFINE prior == IF env.scoring \in {None, fixture} THEN env.prior
                    ELSE env.prior \cup {env.scoring}
           new == [[[env EXCEPT !.prior = prior] EXCEPT !.scoring = fixture]
                     EXCEPT !.argv_schema_version = 2]
<1>1. /\ env.fixture \in Fixture /\ env.catalog \in Catalog
      /\ env.scoring \in Fixture \cup {None} /\ env.prior \subseteq Fixture
  BY DEF Environment
<1>2. RescoredEnvironment(env) = new
  BY DEF RescoredEnvironment
<1>3. prior \in SUBSET Fixture
  BY <1>1
<1>4. published \subseteq {env.fixture, fixture} \cup prior
  BY <1>1, EvidenceAssumption DEF WorkOk, NamesOf
<1> HIDE DEF prior
<1>5. /\ new \in Environment
      /\ new.fixture = env.fixture /\ new.scoring = fixture /\ new.prior = prior
      /\ new.catalog = env.catalog
  <2>1. fixture \in Fixture
    BY DEF WorkOk
  <2> QED
    BY <1>3, <2>1 DEF Environment
<1> HIDE DEF new
<1> QED
  BY <1>2, <1>4, <1>5 DEF NamesOf

LEMMA StartRescoreStep == IInv /\ StartRescore => IInv'
<1> SUFFICES ASSUME IInv, StartRescore PROVE IInv'
  OBVIOUS
<1> DEFINE records == [m \in Mode |-> [i \in DOMAIN file[m] |-> Rescored(file[m][i])]]
           env == RescoredEnvironment(file["environment"])
<1>1. /\ Accepts
      /\ work' = [ step |-> "rescore", at |-> 1,
                   new |-> [ eager |-> records["eager"],
                             skillloader |-> records["skillloader"],
                             environment |-> env,
                             summary |-> summarize(records) ] ]
      /\ UNCHANGED <<fixture, catalog, site, file, published, interrupted>>
  BY DEF StartRescore
<1>2. file["environment"] \in Environment /\ file["environment"].catalog = catalog
      /\ published \subseteq NamesOf(file["environment"]) /\ Readable("tasks")
      /\ Readable("environment")
  BY <1>1 DEF IInv, FilesOk, Accepts, Inputs, Readable
<1>3. /\ env \in Environment /\ published \subseteq NamesOf(env)
      /\ env.catalog = catalog /\ env.scoring \in Fixture
  BY <1>2, RescoredEnvironmentIs DEF IInv, WorkOk
<1>4. ASSUME NEW m \in Mode
      PROVE  /\ records[m] \in Seq(Record)
             /\ RecordsOk(records[m]) /\ ScoredWith(records[m], catalog)
             /\ Complete(records[m], file["tasks"])
             /\ summarize(records)[m] \in Seq(SummaryEntry)
             /\ SummaryOf(summarize(records)[m], file["tasks"])
  <2>1. records[m] = [i \in DOMAIN file[m] |-> Rescored(file[m][i])]
    OBVIOUS
  <2>2. summarize(records)[m] =
          [i \in DOMAIN records[m] |-> Entry(records[m][i])]
    BY DEF summarize
  <2> HIDE DEF records
  <2> QED
    BY <1>1, <2>1, <2>2, RescoredRecords
<1>5. summarize(records) \in [Mode -> Seq(SummaryEntry)]
  BY <1>4 DEF summarize
<1> HIDE DEF records, env
<1>6. /\ work'.step = "rescore" /\ work'.at = 1 /\ work'.new.environment = env
      /\ work'.new.summary = summarize(records)
      /\ \A m \in Mode : work'.new[m] = records[m]
  BY <1>1 DEF Mode
<1>7. work' \in RescoreWork
  <2>1. records["eager"] \in Seq(Record) /\ records["skillloader"] \in Seq(Record)
    BY <1>4 DEF Mode
  <2>2. work'.new \in RescoreNew
    BY <1>1, <1>3, <1>5, <2>1 DEF RescoreNew
  <2> QED
    BY <1>1, <2>2 DEF RescoreWork
<1>8. WorkOk' /\ FilesOk' /\ MainOk' /\ BuildOk'
  BY <1>1, <1>6, <1>7, FilesStay DEF IInv, WorkOk, MainOk, BuildOk, Preparing, MainStep
<1>9. \A m \in Mode : Readable(m) /\ ScoredWith(file[m], catalog)
  BY <1>1, <1>2 DEF IInv, FilesOk, Accepts, Inputs
<1>10. RescoreOk'
  BY <1>1, <1>2, <1>3, <1>4, <1>6, <1>9 DEF RescoreOk, Readable
<1> QED
  BY <1>8, <1>10 DEF IInv

\* What the position in the order says of the file to write, and of the step.
LEMMA RescoreWrites ==
  ASSUME IInv, NEW n \in File, NextWrite(n)
  PROVE  /\ Rescoring /\ work \in RescoreWork
         /\ n = "eager" => work.at = 1
         /\ n = "skillloader" => work.at = 2
         /\ n = "environment" => work.at = 3
         /\ n = "summary" => work.at = 4
         /\ n \in {"eager", "skillloader", "environment", "summary"}
<1>1. Rescoring
  BY DEF NextWrite, Rescoring
<1>2. work \in RescoreWork
  BY <1>1, WorkOfStep DEF IInv
<1>3. work.at \in 1 .. 4
  BY <1>2 DEF RescoreWork
<1>4. RescoreOrder[work.at] = n
  BY DEF NextWrite
<1>5. work.at = 1 \/ work.at = 2 \/ work.at = 3 \/ work.at = 4
  BY <1>3
<1> QED
  BY <1>1, <1>2, <1>4, <1>5 DEF RescoreOrder

LEMMA RescoreOpens ==
  ASSUME IInv, NEW n \in {"environment", "summary"}, NextWrite(n), Open(n)
  PROVE  IInv'
<1>1. Write(n, Torn) /\ UNCHANGED <<fixture, catalog, site, work, published, interrupted>>
  BY DEF Open
<1>2. n \in File /\ n \notin Mode \cup {"tasks"} /\ Mode \subseteq File /\ "tasks" \in File
  BY DEF File, Mode
<1>3. Rescoring /\ work \in RescoreWork
      /\ (n = "environment" => work.at = 3) /\ (n = "summary" => work.at = 4)
  BY <1>2, RescoreWrites
<1>4. FilesOk'
  BY <1>1, <1>2, TearFile DEF IInv
<1>5. file'[n] = Torn /\ \A k \in File \ {n} : file'[k] = file[k]
  BY <1>1, <1>2, WriteOne DEF IInv, FilesOk
<1>6. WorkOk' /\ MainOk' /\ BuildOk'
  BY <1>1, <1>3 DEF IInv, WorkOk, MainOk, BuildOk, Preparing, Rescoring, MainStep
<1>7. RescoreOk'
  <2>1. file'["tasks"] = file["tasks"] /\ \A m \in Mode : file'[m] = file[m]
    BY <1>2, <1>5
  <2>2. work.at >= 4 => file'["environment"] = file["environment"]
    BY <1>3, <1>5 DEF File
  <2>3. file'["eager"] = file["eager"] /\ file'["skillloader"] = file["skillloader"]
    BY <2>1 DEF Mode
  <2> QED
    BY <1>1, <1>2, <1>3, <1>5, <2>1, <2>2, <2>3 DEF IInv, RescoreOk, Rescoring, Readable, File
<1> QED
  BY <1>4, <1>6, <1>7 DEF IInv

\* What the rescore knows after a write that is not its last.
LEMMA NextWriteWork ==
  ASSUME work \in RescoreWork, work.at \in 1 .. 3, NEW n, Written(n)
  PROVE  /\ work' \in RescoreWork
         /\ work'.step = "rescore" /\ work'.at = work.at + 1
         /\ work'.new = work.new
<1>1. Len(RescoreOrder) = 4
  BY DEF RescoreOrder
<1>2. work' = [work EXCEPT !.at = work.at + 1]
  BY <1>1 DEF Written
<1>3. work.at + 1 \in 1 .. 4
  OBVIOUS
<1> QED
  BY <1>2, <1>3 DEF RescoreWork

LEMMA ReplaceRecordsStep == IInv /\ ReplaceRecords => IInv'
<1> SUFFICES ASSUME IInv, ReplaceRecords PROVE IInv'
  OBVIOUS
<1>1. PICK n \in Mode : NextWrite(n) /\ Written(n)
                        /\ UNCHANGED <<fixture, catalog, site, published, interrupted>>
  BY DEF ReplaceRecords
<1>2. n \in File /\ Mode \subseteq File \ {"tasks", "environment", "summary"}
      /\ {"tasks", "environment", "summary"} \subseteq File \ {n}
  BY DEF File, Mode
<1>3. Rescoring /\ work \in RescoreWork /\ work.at \in 1 .. 3
      /\ (n = "eager" => work.at = 1) /\ (n = "skillloader" => work.at = 2)
  BY <1>1, <1>2, RescoreWrites DEF Mode
<1>4. work' \in RescoreWork /\ work'.step = "rescore" /\ work'.at = work.at + 1
      /\ work'.new = work.new
  BY <1>1, <1>3, NextWriteWork
<1>5. DOMAIN file' = File /\ file'[n] = work.new[n] /\ \A k \in File \ {n} : file'[k] = file[k]
  BY <1>1, <1>2, WriteOne DEF Written, IInv, FilesOk
<1>6. \A m \in Mode : work.new[m] \in Seq(Record)
  BY <1>3 DEF RescoreWork, RescoreNew, Mode
<1>7. /\ Readable("tasks") /\ published \subseteq NamesOf(work.new.environment)
      /\ work.new.environment.scoring \in Fixture
      /\ \A m \in Mode :
           /\ RecordsOk(work.new[m])
           /\ ScoredWith(work.new[m], work.new.environment.catalog)
           /\ Complete(work.new[m], file["tasks"])
           /\ SummaryOf(work.new.summary[m], file["tasks"])
           /\ Readable(m)
           /\ ScoredWith(file[m], work.new.environment.catalog)
  BY <1>3 DEF IInv, RescoreOk
<1>8. Readable(n)'
  BY <1>5, <1>6, UnreadableAssumption DEF Readable
<1>9. Readable("environment") => file["environment"].catalog = work.new.environment.catalog
  BY <1>3 DEF IInv, RescoreOk
<1>10. FilesOk'
  <2>1. /\ file'["tasks"] = file["tasks"] /\ file'["environment"] = file["environment"]
        /\ file'["summary"] = file["summary"]
    BY <1>2, <1>5
  <2>2. ASSUME NEW m \in Mode
        PROVE  /\ file'[m] \in Seq(Record) \cup {Absent, Torn}
               /\ Readable(m)'
               /\ RecordsOk(file'[m])
               /\ Readable("environment")' => ScoredWith(file'[m], file'["environment"].catalog)
               /\ Readable("summary")' =>
                    /\ Complete(file'[m], file'["tasks"])
                    /\ SummaryOf(file'["summary"][m], file'["tasks"])
    <3>1. CASE m = n
      BY <1>5, <1>6, <1>7, <1>8, <1>9, <2>1, <3>1 DEF IInv, FilesOk, Readable
    <3>2. CASE m # n
      BY <1>2, <1>5, <1>7, <2>1, <3>2 DEF IInv, FilesOk, Readable
    <3> QED
      BY <3>1, <3>2
  <2> QED
    BY <1>1, <1>5, <1>7, <2>1, <2>2 DEF IInv, FilesOk, Readable
<1>11. WorkOk' /\ MainOk' /\ BuildOk'
  BY <1>1, <1>4 DEF IInv, WorkOk, MainOk, BuildOk, Preparing, MainStep
<1>12. RescoreOk'
  <2>1. \A m \in Mode : Readable(m)' /\ ScoredWith(file'[m], work.new.environment.catalog)
    BY <1>2, <1>5, <1>7, <1>8 DEF Readable
  <2>2. file'["tasks"] = file["tasks"]
    BY <1>2, <1>5
  <2>3. /\ file'["eager"] = work.new["eager"]
        /\ work.at = 2 => file'["skillloader"] = work.new["skillloader"]
    BY <1>2, <1>3, <1>5 DEF IInv, RescoreOk, Mode, File
  <2>4. work'.at \in 1 .. 3 /\ (work'.at >= 3 => work.at = 2)
    BY <1>3, <1>4 DEF Mode
  <2>5. Readable("environment")' =>
          file'["environment"].catalog = work.new.environment.catalog
    BY <1>2, <1>5, <1>9 DEF Readable
  <2> QED
    BY <1>1, <1>4, <1>7, <2>1, <2>2, <2>3, <2>4, <2>5 DEF RescoreOk, Readable
<1> QED
  BY <1>10, <1>11, <1>12 DEF IInv

LEMMA OverwriteEnvironmentStep == IInv /\ OverwriteEnvironment => IInv'
<1> SUFFICES ASSUME IInv, OverwriteEnvironment PROVE IInv'
  OBVIOUS
<1>1. NextWrite("environment") /\ "environment" \in File
  BY DEF OverwriteEnvironment, File
<1>2. CASE Open("environment")
  BY <1>1, <1>2, RescoreOpens
<1>3. CASE ~Open("environment")
  <2>1. Written("environment") /\ UNCHANGED <<fixture, catalog, site, published, interrupted>>
    BY <1>3 DEF OverwriteEnvironment
  <2>2. Rescoring /\ work \in RescoreWork /\ work.at = 3
    BY <1>1, RescoreWrites
  <2>3. work' \in RescoreWork /\ work'.step = "rescore" /\ work'.at = 4 /\ work'.new = work.new
    BY <2>1, <2>2, NextWriteWork
  <2>4. /\ DOMAIN file' = File /\ file'["environment"] = work.new.environment
        /\ \A k \in File \ {"environment"} : file'[k] = file[k]
    BY <1>1, <2>1, WriteOne DEF Written, IInv, FilesOk
  <2>5. Mode \subseteq File \ {"environment"} /\ {"tasks", "summary"} \subseteq File \ {"environment"}
    BY DEF File, Mode
  <2>6. work.new.environment \in Environment
    BY <2>2 DEF RescoreWork, RescoreNew
  <2>7. /\ published \subseteq NamesOf(work.new.environment)
        /\ \A m \in Mode : ScoredWith(file[m], work.new.environment.catalog)
    BY <2>2 DEF IInv, RescoreOk
  <2>8. FilesOk'
    BY <2>1, <2>4, <2>5, <2>6, <2>7 DEF IInv, FilesOk, Readable
  <2>9. WorkOk' /\ MainOk' /\ BuildOk'
    BY <2>1, <2>3 DEF IInv, WorkOk, MainOk, BuildOk, Preparing, MainStep
  <2>10. file'["eager"] = file["eager"] /\ file'["skillloader"] = file["skillloader"]
    BY <2>4 DEF File, Mode
  <2>11. RescoreOk'
    BY <2>1, <2>2, <2>3, <2>4, <2>5, <2>10 DEF IInv, RescoreOk, Readable
  <2> QED
    BY <2>8, <2>9, <2>11 DEF IInv
<1> QED
  BY <1>2, <1>3

LEMMA OverwriteSummaryStep == IInv /\ OverwriteSummary => IInv'
<1> SUFFICES ASSUME IInv, OverwriteSummary PROVE IInv'
  OBVIOUS
<1>1. NextWrite("summary") /\ "summary" \in File
  BY DEF OverwriteSummary, File
<1>2. CASE Open("summary")
  BY <1>1, <1>2, RescoreOpens
<1>3. CASE ~Open("summary")
  <2>1. /\ Written("summary")
        /\ published' = published \cup {work.new["environment"].scoring}
        /\ UNCHANGED <<fixture, catalog, site>>
    BY <1>3 DEF OverwriteSummary
  <2>2. Rescoring /\ work \in RescoreWork /\ work.at = 4
    BY <1>1, RescoreWrites
  <2>3. work' = None
    BY <2>1, <2>2 DEF Written, RescoreOrder
  <2>4. /\ DOMAIN file' = File /\ file'["summary"] = work.new.summary
        /\ \A k \in File \ {"summary"} : file'[k] = file[k]
    BY <1>1, <2>1, WriteOne DEF Written, IInv, FilesOk
  <2>5. Mode \subseteq File \ {"summary"} /\ {"tasks", "environment"} \subseteq File \ {"summary"}
    BY DEF File, Mode
  <2>6. /\ file["environment"] = work.new.environment
        /\ file["eager"] = work.new["eager"] /\ file["skillloader"] = work.new["skillloader"]
        /\ Readable("tasks")
        /\ work.new.environment.scoring \in Fixture
        /\ \A m \in Mode :
             /\ Complete(work.new[m], file["tasks"])
             /\ SummaryOf(work.new.summary[m], file["tasks"])
             /\ Readable(m)
    BY <2>2 DEF IInv, RescoreOk
  <2>7. \A m \in Mode : file[m] = work.new[m]
    BY <2>6 DEF Mode
  <2>8. work.new.environment.scoring \in NamesOf(file["environment"])
    BY <2>6 DEF NamesOf
  <2>9. FilesOk'
    BY <2>1, <2>4, <2>5, <2>6, <2>7, <2>8 DEF IInv, FilesOk, Readable
  <2>10. WorkOk'
    BY <2>1, <2>3, <2>6 DEF IInv, WorkOk
  <2> QED
    BY <2>3, <2>9, <2>10 DEF IInv, MainOk, BuildOk, RescoreOk, Preparing, Rescoring
<1> QED
  BY <1>2, <1>3

-----------------------------------------------------------------------------
(* The others *)

LEMMA EditRepositoryStep == IInv /\ EditRepository => IInv'
<1> SUFFICES ASSUME IInv, EditRepository PROVE IInv'
  OBVIOUS
<1>1. work # None /\ UNCHANGED <<fixture, site, file, published, interrupted>>
  BY DEF EditRepository
<1>2. ASSUME work.step \in {"tasks", "copy", "build", "verify"}, NEW b \in Edits(work.build),
             work' = [work EXCEPT !.build = b], UNCHANGED catalog
      PROVE  IInv'
  <2>1. Preparing /\ work \in MainWork
    BY <1>1, <1>2, WorkOfStep DEF Preparing, MainStep, IInv
  <2>2. work.build \in Build
    BY <2>1 DEF MainWork
  <2>3. /\ b \in Build /\ b.source = work.build.source /\ b.binary = work.build.binary
        /\ b.tree = work.build.tree \/ b.tree = work.build.tree + 1
    <3>1. CASE b = [work.build EXCEPT !.clean = TRUE]
      BY <2>2, <3>1 DEF Build
    <3>2. CASE /\ work.build.tree < MaxEdits
               /\ b = [[work.build EXCEPT !.tree = work.build.tree + 1] EXCEPT !.clean = FALSE]
      <4>1. work.build.tree + 1 \in 0 .. MaxEdits
        BY <2>2, <3>2, BuildAssumption DEF Build
      <4> QED
        BY <2>2, <3>2, <4>1 DEF Build
    <3> QED
      BY <1>2, <3>1, <3>2 DEF Edits
  <2>4. /\ work' \in MainWork /\ work'.step = work.step /\ work'.build = b
        /\ work'.tasks = work.tasks /\ work'.catalog = work.catalog
        /\ work'.runs = work.runs /\ work'.records = work.records
        /\ work'.served = work.served
    BY <1>2, <2>1, <2>3 DEF MainWork
  <2>5. WorkOk' /\ FilesOk' /\ RescoreOk'
    BY <1>1, <1>2, <2>4, FilesStay DEF IInv, WorkOk, RescoreOk, Rescoring
  <2>6. MainOk'
    BY <1>1, <1>2, <2>1, <2>4 DEF IInv, MainOk, FileOfRuns, Readable
  <2>7. BuildOk'
    <3>1. work.build.tree \in Nat /\ b.tree \in Nat /\ b.tree >= work.build.tree
      BY <2>2, <2>3, BuildAssumption DEF Build
    <3>2. work.build.source \in Nat /\ work.build.source <= work.build.tree
      BY <2>1 DEF IInv, BuildOk
    <3>3. b.source <= b.tree
      BY <2>3, <3>1, <3>2
    <3>4. ASSUME work.step = "verify"
          PROVE  b.binary \in Nat /\ b.source <= b.binary /\ b.binary <= b.tree
      <4>1. /\ work.build.binary \in Nat /\ work.build.source <= work.build.binary
            /\ work.build.binary <= work.build.tree
        BY <2>1, <3>4 DEF IInv, BuildOk
      <4> QED
        BY <2>3, <3>1, <4>1
    <3>5. work.step \notin {"schema", "tasks", "copy"} => work.served = work.catalog
      BY <2>1 DEF IInv, BuildOk
    <3> QED
      BY <1>2, <2>3, <2>4, <3>2, <3>3, <3>4, <3>5 DEF BuildOk
  <2> QED
    BY <2>5, <2>6, <2>7 DEF IInv
<1>3. ASSUME work.step \in {"tasks", "copy"}, catalog' \in Catalog, UNCHANGED work
      PROVE  IInv'
  BY <1>1, <1>3, FilesStay
  DEF IInv, WorkOk, MainOk, BuildOk, RescoreOk, Preparing, Rescoring, FileOfRuns, Readable
<1> QED
  BY <1>2, <1>3 DEF EditRepository

LEMMA LegacyRecordIs ==
  ASSUME NEW m \in Mode, NEW id \in Id, NEW f \in Fixture, NEW c \in Catalog, NEW s \in Usable
  PROVE  LET r == LegacyRecord(m, id, f, c, s)
         IN  /\ r \in Record
             /\ r.task = [id |-> id, fixture |-> f]
             /\ r.events = r.printed /\ r.score.events = r.printed
             /\ r.score.catalog = c /\ ~execution_failure(r)
<1>1. s \in Stream
  BY EvidenceAssumption
<1>2. [events |-> s, fixture |-> f, catalog |-> c] \in Score
  BY <1>1 DEF Score
<1>3. [id |-> id, fixture |-> f] \in RecordedTask
  BY DEF RecordedTask
<1> QED
  BY <1>1, <1>2, <1>3 DEF LegacyRecord, Record, execution_failure

LEMMA LegacyOk ==
  ASSUME fixture \in Fixture, catalog \in Catalog, published = {fixture},
         NEW ids \in Selections, NEW s \in Usable, file = LegacyFiles(ids, s)
  PROVE  FilesOk
<1> DEFINE rs(m) == [i \in DOMAIN ids |-> LegacyRecord(m, ids[i], fixture, catalog, s)]
           records == [m \in Mode |-> rs(m)]
           env == [ fixture |-> fixture, catalog |-> catalog, scoring |-> None,
                    prior |-> {}, argv_schema_version |-> None ]
           tasks == Tasks(ids, fixture)
<1>1. /\ tasks \in Seq(RecordedTask) /\ DOMAIN tasks = DOMAIN ids
      /\ \A i \in DOMAIN ids : tasks[i] = [id |-> ids[i], fixture |-> fixture]
  BY TasksOfRun DEF Tasks
<1>2. DOMAIN ids = 1 .. Len(ids) /\ Len(ids) \in Nat /\ \A i \in DOMAIN ids : ids[i] \in Id
  <2>1. ids \in Seq(Id)
    BY EvidenceAssumption
  <2> QED
    BY <2>1
<1>3. env \in Environment
  BY DEF Environment
<1>4. /\ DOMAIN file = File
      /\ file["tasks"] = tasks /\ file["environment"] = env
      /\ file["summary"] = summarize(records)
      /\ file["eager"] = rs("eager") /\ file["skillloader"] = rs("skillloader")
  BY DEF LegacyFiles, File, Mode
<1>5. \A m \in Mode : file[m] = rs(m)
  BY <1>4 DEF Mode
<1>6. ASSUME NEW m \in Mode
      PROVE  /\ rs(m) \in Seq(Record)
             /\ RecordsOk(rs(m)) /\ ScoredWith(rs(m), catalog)
             /\ Complete(rs(m), tasks) /\ SummaryOf(summarize(records)[m], tasks)
  <2>1. DOMAIN rs(m) = DOMAIN ids
    OBVIOUS
  <2>2. ASSUME NEW i \in DOMAIN ids
        PROVE  /\ rs(m)[i] \in Record /\ rs(m)[i].task = tasks[i]
               /\ rs(m)[i].events = rs(m)[i].printed /\ rs(m)[i].score.events = rs(m)[i].printed
               /\ rs(m)[i].score.catalog = catalog /\ ~execution_failure(rs(m)[i])
    <3>1. rs(m)[i] = LegacyRecord(m, ids[i], fixture, catalog, s) /\ ids[i] \in Id
      BY <1>2
    <3> HIDE DEF rs, tasks
    <3> QED
      BY <1>1, <3>1, LegacyRecordIs
  <2>3. summarize(records)[m] = [i \in DOMAIN rs(m) |-> Entry(rs(m)[i])]
    BY DEF summarize
  <2>4. rs(m) \in Seq(Record)
    <3>1. rs(m) \in [1 .. Len(ids) -> Record]
      BY <1>2, <2>2
    <3> QED
      BY <1>2, <3>1
  <2> HIDE DEF rs, tasks, records
  <2> QED
    BY <1>1, <2>1, <2>2, <2>3, <2>4 DEF RecordsOk, ScoredWith, Complete, SummaryOf, Entry
<1>7. \A m \in Mode : Readable(m)
  BY <1>5, <1>6, UnreadableAssumption DEF Readable
<1>8. Readable("tasks") /\ Readable("environment")
  BY <1>1, <1>3, <1>4, UnreadableAssumption DEF Readable
<1>9. published \subseteq NamesOf(env) /\ env.catalog = catalog
  BY DEF NamesOf
<1> HIDE DEF rs, records, env, tasks
<1> QED
  BY <1>1, <1>3, <1>4, <1>5, <1>6, <1>7, <1>8, <1>9 DEF FilesOk

LEMMA InitInvariant == Init => IInv
<1> SUFFICES ASSUME Init PROVE IInv
  OBVIOUS
<1>1. /\ fixture \in Fixture /\ catalog \in Catalog /\ site \in Site
      /\ work = None
  BY DEF Init
<1>2. CASE file = [n \in File |-> Absent] /\ published = {}
  <2>1. {"tasks", "environment", "summary"} \subseteq File /\ Mode \subseteq File
    BY DEF File
  <2>2. DOMAIN file = File /\ \A n \in File : file[n] = Absent
    BY <1>2
  <2>3. FilesOk
    BY <1>2, <2>1, <2>2 DEF FilesOk, Readable
  <2> QED
    BY <1>1, <1>2, <2>3 DEF IInv, WorkOk, MainOk, BuildOk, RescoreOk, Preparing, Rescoring
<1>3. ASSUME NEW ids \in Selections, NEW s \in Usable, file = LegacyFiles(ids, s),
             published = {fixture}
      PROVE  IInv
  BY <1>1, <1>3, LegacyOk DEF IInv, WorkOk, MainOk, BuildOk, RescoreOk, Preparing, Rescoring
<1> QED
  BY <1>2, <1>3 DEF Init

LEMMA StepInvariant == IInv /\ [Next]_vars => IInv'
<1> SUFFICES ASSUME IInv, [Next]_vars PROVE IInv'
  OBVIOUS
<1>1. ASSUME NEW ids \in Selections, Begin(ids) PROVE IInv'
  BY <1>1, BeginStep
<1>2. CASE WriteSchema \/ WriteTasks \/ CopyCatalog \/ GoBuild \/ VerifyBuild
  BY <1>2, WriteSchemaStep, WriteTasksStep, CopyCatalogStep, GoBuildStep, VerifyBuildStep
<1>3. CASE WriteEnvironment \/ RunClient \/ AppendRecord \/ WriteFailures \/ WriteSummary
  BY <1>3, WriteEnvironmentStep, RunClientStep, AppendRecordStep, WriteFailuresStep,
     WriteSummaryStep
<1>4. CASE StartRescore \/ ReplaceRecords \/ OverwriteEnvironment \/ OverwriteSummary
  BY <1>4, StartRescoreStep, ReplaceRecordsStep, OverwriteEnvironmentStep, OverwriteSummaryStep
<1>5. CASE Killed
  BY <1>5, ProcessEnds DEF Killed, IInv, WorkOk
<1>6. CASE EditRepository
  BY <1>6, EditRepositoryStep
<1>7. CASE Change
  <2>1. /\ fixture' \in Fixture /\ catalog' \in Catalog /\ site' \in Site
        /\ UNCHANGED <<file, work, published>> /\ work = None
    BY <1>7 DEF Change
  <2> QED
    BY <2>1, ProcessEnds
<1>8. CASE UNCHANGED vars
  BY <1>8, FilesStay
  DEF vars, IInv, WorkOk, MainOk, BuildOk, RescoreOk, Preparing, Rescoring, FileOfRuns, Readable
<1> QED
  BY <1>1, <1>2, <1>3, <1>4, <1>5, <1>6, <1>7, <1>8 DEF Next, main, rescore_existing

-----------------------------------------------------------------------------
(* Theorems *)

LEMMA Invariant == Spec => []IInv
BY InitInvariant, StepInvariant, PTL DEF Spec

\* Every file that parses is of the kind its name says.
THEOREM TypeCorrect == Spec => []TypeOK
<1>1. IInv => TypeOK
  BY DEF IInv, FilesOk, WorkOk, TypeOK
<1> QED
  BY <1>1, Invariant, PTL

\* No sequence of redactions and rescores (rescore_existing) scores a redacted
\* stream, or scores with another catalog than the run had.
THEOREM ScoresStayOfTheRun == Spec => []ScoresAreOfTheRun
<1>1. IInv => ScoresAreOfTheRun
  BY DEF IInv, FilesOk, RecordsOk, ScoredWith, ScoresAreOfTheRun
<1> QED
  BY <1>1, Invariant, PTL

\* Whatever is killed, a summary that can be read is of a whole paired run: the
\* runs alternate so that every task has one of each mode, main writes a
\* summary only of these, and no rescore drops or reorders a record.
THEOREM SummariesAreComplete == Spec => []SummaryIsComplete
<1>1. IInv => SummaryIsComplete
  <2> SUFFICES ASSUME IInv, Readable("summary"), NEW m \in Mode
               PROVE  /\ Readable(m)
                      /\ DOMAIN file[m] = DOMAIN file["tasks"]
                      /\ [i \in DOMAIN file[m] |-> file[m][i].task] = file["tasks"]
                      /\ \A i \in DOMAIN file[m] : ~execution_failure(file[m][i])
                      /\ [i \in DOMAIN file["summary"][m] |-> file["summary"][m][i].id]
                           = [i \in DOMAIN file["tasks"] |-> file["tasks"][i].id]
    BY DEF SummaryIsComplete
  <2>1. /\ Readable(m) /\ Complete(file[m], file["tasks"])
        /\ SummaryOf(file["summary"][m], file["tasks"])
    BY DEF IInv, FilesOk
  <2>2. file["tasks"] \in Seq(RecordedTask)
    BY DEF IInv, FilesOk, Readable
  <2>3. [i \in DOMAIN file[m] |-> file[m][i].task] = file["tasks"]
    BY <2>1, <2>2 DEF Complete
  <2> QED
    BY <2>1, <2>3 DEF Complete, SummaryOf
<1> QED
  BY <1>1, Invariant, PTL

\* However often the evidence is rescored, environment.json names the fixture
\* of every summary it ever had.
THEOREM PriorScoringIsRetained == Spec => []PriorScoringRetained
<1>1. IInv => PriorScoringRetained
  BY DEF IInv, FilesOk, NamesOf, PriorScoringRetained
<1> QED
  BY <1>1, Invariant, PTL

\* No kill loses the records of a run that had a summary.
THEOREM RecordsAreKept == Spec => []RecordsSurvive
<1>1. IInv => RecordsSurvive
  BY DEF IInv, FilesOk, RecordsSurvive
<1> QED
  BY <1>1, Invariant, PTL

\* Whatever is edited while main prepares, no run is made with another catalog
\* or with a binary of another source than those environment.json names: the
\* two readings enclose the build, and the copy is compared.
THEOREM RunsUseWhatIsRecorded == Spec => []RunsUseRecordedInputs
<1>1. IInv => RunsUseRecordedInputs
  BY DEF IInv, MainOk, BuildOk, Preparing, MainStep, RunsUseRecordedInputs
<1> QED
  BY <1>1, Invariant, PTL

-----------------------------------------------------------------------------
(* The files of a directory agree, and an interrupted rescore can be run again. *)

\* Scored and classified by the tasks of one fixture.
ScoredBy(rs, f) ==
  \A i \in DOMAIN rs : rs[i].score.fixture = f /\ Classification(rs[i]) = f

\* The fixture environment.json says the records were scored with.
ScoringOf(env) == IF env.scoring = None THEN env.fixture ELSE env.scoring

Canonical(rs) == \A i \in DOMAIN rs : rs[i].argv = "canonical"

Agreed ==
  /\ file["summary"] = summarize([m \in Mode |-> file[m]])
  /\ \A m \in Mode : ScoredBy(file[m], ScoringOf(file["environment"]))

\* What a rescore needs of the files that no step of a rescore takes away.
Retriable ==
  /\ \A n \in {"schema", "tasks"} \cup Mode : Readable(n)
  /\ Paired
  /\ Readable("environment") =>
       \A m \in Mode : Canonical(file[m]) \/ file["environment"].argv_schema_version = None

SummaryAgrees == Readable("summary") /\ work = None /\ ~interrupted => Agreed

RetryOk == interrupted \/ Rescoring => Retriable

\* What main holds in memory is of one fixture.
OneFixture == Preparing =>
  /\ ~interrupted
  /\ \A i \in DOMAIN work.tasks : work.tasks[i].fixture = work.tasks[1].fixture
  /\ \A m \in Mode : ScoredBy(work.records[m], work.tasks[1].fixture)
  /\ work.step \in {"run", "append"} =>
       file["environment"].scoring = work.tasks[1].fixture

\* So is what a rescore has still to write.
NewAgrees == Rescoring =>
  /\ work.new.summary = summarize([m \in Mode |-> work.new[m]])
  /\ \A m \in Mode :
       ScoredBy(work.new[m], work.new.environment.scoring) /\ Canonical(work.new[m])

AgreeInv == SummaryAgrees /\ RetryOk /\ OneFixture /\ NewAgrees

\* While main runs, another step of it has only its own memory to keep.
LEMMA MainGoesOn ==
  ASSUME IInv, AgreeInv, Preparing, work'.step \in MainStep, interrupted' = interrupted,
         file'["summary"] \in {file["summary"], Torn}, OneFixture'
  PROVE  AgreeInv'
<1>1. ~Readable("summary")'
  BY DEF IInv, MainOk, Readable
<1>2. ~interrupted' /\ ~Rescoring'
  BY DEF AgreeInv, OneFixture, Rescoring, MainStep
<1> QED
  BY <1>1, <1>2 DEF AgreeInv, SummaryAgrees, RetryOk, NewAgrees

LEMMA MainKeeps ==
  ASSUME IInv, AgreeInv, Preparing, work' \in MainWork, interrupted' = interrupted,
         file'["summary"] \in {file["summary"], Torn},
         work'.tasks = work.tasks, work'.records = work.records,
         work'.step \in {"run", "append"} =>
           file'["environment"].scoring = work.tasks[1].fixture
  PROVE  AgreeInv'
<1>1. work'.step \in MainStep
  BY DEF MainWork
<1>2. OneFixture'
  BY DEF AgreeInv, OneFixture
<1> QED
  BY <1>1, <1>2, MainGoesOn

\* Main that ends without a summary leaves nothing that could disagree.
LEMMA MainEnds ==
  ASSUME AgreeInv, Preparing, work' = None, interrupted' => interrupted, ~Readable("summary")'
  PROVE  AgreeInv'
BY DEF AgreeInv, SummaryAgrees, RetryOk, OneFixture, NewAgrees, Preparing, Rescoring

\* A file that main opens is none it has finished.
LEMMA MainOpensAgree ==
  ASSUME IInv, AgreeInv, Preparing, NEW n \in File, Open(n),
         work.step = "environment" \/ n # "environment",
         work.step \in MainStep
  PROVE  AgreeInv'
<1>1. Write(n, Torn) /\ UNCHANGED <<work, interrupted>>
  BY DEF Open
<1>2. \A k \in File \ {n} : file'[k] = file[k]
  BY <1>1, WriteOne DEF IInv, FilesOk
<1>3. work.step \in {"run", "append"} =>
        file'["environment"].scoring = work.tasks[1].fixture
  BY <1>2 DEF AgreeInv, OneFixture, File
<1>4. work' \in MainWork
  BY <1>1, WorkOfStep DEF IInv
<1>5. file'["summary"] \in {file["summary"], Torn}
  BY <1>1, <1>2, WriteOne DEF IInv, FilesOk, File
<1> QED
  BY <1>1, <1>3, <1>4, <1>5, MainKeeps

LEMMA BeginAgrees ==
  ASSUME IInv, AgreeInv, IInv', NEW ids \in Selections, Begin(ids)
  PROVE  AgreeInv'
<1>1. ~interrupted
  <2>1. file["schema"] = Absent
    BY DEF Begin, File
  <2> QED
    BY <2>1 DEF AgreeInv, RetryOk, Retriable, Readable
<1>2. PICK build \in Recorded(NewBuild) :
        work' = [ step |-> "schema", tasks |-> Tasks(ids, fixture), catalog |-> catalog,
                  served |-> None, build |-> build, site |-> site, runs |-> 0,
                  records |-> [m \in Mode |-> <<>>] ]
  BY DEF Begin
<1>3. \A i \in DOMAIN Tasks(ids, fixture) : Tasks(ids, fixture)[i].fixture = fixture
  BY DEF Tasks
<1>4. 1 \in DOMAIN Tasks(ids, fixture)
  <2>1. /\ Tasks(ids, fixture) \in Seq(RecordedTask)
        /\ Tasks(ids, fixture) # <<>>
    BY TasksOfRun DEF IInv, WorkOk
  <2> HIDE DEF Tasks
  <2> QED
    BY <2>1
<1>5. interrupted' = interrupted
  BY DEF Begin
<1>6. OneFixture'
  BY <1>1, <1>2, <1>3, <1>4, <1>5 DEF OneFixture, ScoredBy
<1>7. ~Readable("summary")'
  <2>1. file["summary"] = Absent /\ Write("schema", Torn)
    BY DEF Begin, File
  <2> QED
    BY <2>1, WriteOne DEF IInv, FilesOk, File, Readable
<1> QED
  BY <1>1, <1>2, <1>5, <1>6, <1>7
  DEF AgreeInv, SummaryAgrees, RetryOk, NewAgrees, Rescoring

LEMMA PreambleAgrees ==
  ASSUME IInv, AgreeInv, IInv', WriteSchema \/ WriteTasks
  PROVE  AgreeInv'
<1>0. PICK step \in {"schema", "tasks"} : \E value : WritePreamble(step, value)
  BY DEF WriteSchema, WriteTasks
<1>1. PICK value : WritePreamble(step, value)
  BY <1>0
<1>2. Preparing /\ work.step = step /\ step \in File /\ step # "environment"
  BY <1>1 DEF WritePreamble, Preparing, MainStep, File
<1>3. CASE Open(step)
  BY <1>2, <1>3, MainOpensAgree DEF Preparing
<1>4. CASE ~Open(step)
  <2>1. work' = [work EXCEPT !.step = Follows[step]] /\ interrupted' = interrupted
    BY <1>1, <1>4 DEF WritePreamble
  <2>2. Follows[step] \in MainStep \ {"run", "append"}
    BY DEF Follows, MainStep
  <2>3. /\ work' \in MainWork /\ work'.step = Follows[step]
        /\ work'.tasks = work.tasks /\ work'.records = work.records
    BY <1>2, <2>1, <2>2, NextStepWork
  <2>4. file'["summary"] = file["summary"]
    BY <1>1, <1>2, <1>4, WriteOne DEF WritePreamble, IInv, FilesOk, File
  <2> QED
    BY <1>2, <2>1, <2>2, <2>3, <2>4, MainKeeps
<1> QED
  BY <1>3, <1>4

LEMMA PreparationAgrees ==
  ASSUME IInv, AgreeInv, IInv', CopyCatalog \/ GoBuild \/ VerifyBuild
  PROVE  AgreeInv'
<1>1. /\ work # None /\ work.step \in {"copy", "build", "verify"}
      /\ UNCHANGED <<fixture, catalog, site, file, published, interrupted>>
  BY DEF CopyCatalog, GoBuild, VerifyBuild, Proceed
<1>2. Preparing /\ work \in MainWork
  BY <1>1, WorkOfStep DEF Preparing, MainStep, IInv
<1>3. CASE work' = None
  BY <1>1, <1>2, <1>3, MainEnds DEF IInv, MainOk, Readable
<1>4. CASE work' # None
  <2>1. \/ work' = [work EXCEPT !.step = "build", !.served = catalog]
        \/ \E b \in Compiled(work.build) : work' = [work EXCEPT !.step = "verify", !.build = b]
        \/ work' = [work EXCEPT !.step = "environment"]
    BY <1>4 DEF CopyCatalog, GoBuild, VerifyBuild, Proceed
  <2>2. /\ work'.step \notin {"run", "append", "rescore"}
        /\ work'.tasks = work.tasks /\ work'.records = work.records
    BY <1>2, <2>1 DEF MainWork
  <2>3. work' \in MainWork
    BY <1>4, <2>2 DEF IInv, WorkOk, RescoreWork
  <2> QED
    BY <1>1, <1>2, <2>2, <2>3, MainKeeps
<1> QED
  BY <1>3, <1>4

LEMMA WriteEnvironmentAgrees ==
  ASSUME IInv, AgreeInv, IInv', WriteEnvironment
  PROVE  AgreeInv'
<1> DEFINE env == [ fixture |-> work.tasks[1].fixture, catalog |-> work.catalog,
         scoring |-> work.tasks[1].fixture, prior |-> {}, argv_schema_version |-> None ]
<1>1. Preparing /\ work.step = "environment" /\ "environment" \in File
      /\ WritePreamble("environment", env)
  BY DEF WriteEnvironment, Preparing, MainStep, File
<1>2. CASE Open("environment")
  BY <1>1, <1>2, MainOpensAgree DEF Preparing
<1>3. CASE ~Open("environment")
  <2>1. work' = [work EXCEPT !.step = "run"] /\ interrupted' = interrupted
        /\ Write("environment", env)
    BY <1>1, <1>3 DEF WritePreamble, Follows
  <2>2. file'["environment"] = env /\ file'["summary"] = file["summary"]
    BY <1>1, <2>1, WriteOne DEF IInv, FilesOk, File
  <2>3. /\ work' \in MainWork
        /\ work'.tasks = work.tasks /\ work'.records = work.records
    BY <1>1, <2>1, NextStepWork DEF MainStep
  <2> QED
    BY <1>1, <2>1, <2>2, <2>3, MainKeeps
<1> QED
  BY <1>2, <1>3

LEMMA RunClientAgrees ==
  ASSUME IInv, AgreeInv, IInv', RunClient
  PROVE  AgreeInv'
<1>1. Preparing /\ work.step = "run" /\ work.runs < 2 * Len(work.tasks)
      /\ UNCHANGED <<fixture, catalog, site, file, published, interrupted>>
  BY DEF RunClient, Preparing, MainStep
<1> DEFINE m0 == ModeOfRun(work.runs)
           task == work.tasks[work.runs \div 2 + 1]
<1>2. PICK s \in Stream, exit_zero \in BOOLEAN :
        work' = WithRun(m0, RunRecord(task, s, exit_zero))
  BY DEF RunClient
<1> DEFINE rec == RunRecord(task, s, exit_zero)
<1>3. /\ work \in MainWork /\ m0 \in Mode
      /\ work.runs \div 2 + 1 \in DOMAIN work.tasks
      /\ work.records[m0] \in Seq(Record)
  BY <1>1, RunWork
<1>4. rec.score.fixture = work.tasks[1].fixture /\ Classification(rec) = work.tasks[1].fixture
  <2>1. rec.score.fixture = task.fixture /\ rec.scoring_task = task.fixture /\ rec.task = task
    BY DEF RunRecord
  <2>2. \A i \in DOMAIN work.tasks : work.tasks[i].fixture = work.tasks[1].fixture
    BY <1>1 DEF AgreeInv, OneFixture
  <2> HIDE DEF rec
  <2> QED
    BY <1>3, <2>1, <2>2 DEF Classification
<1> HIDE DEF rec, m0
<1>5. /\ work'.step = "append" /\ work'.tasks = work.tasks
      /\ work'.records = [work.records EXCEPT ![m0] = Append(work.records[m0], rec)]
  BY <1>2, <1>3 DEF MainWork, rec, WithRun
<1>6. work'.step \in MainStep
  BY <1>5 DEF MainStep
<1>7. ASSUME NEW m \in Mode
      PROVE  ScoredBy(work'.records[m], work.tasks[1].fixture)
  <2>1. ScoredBy(work.records[m], work.tasks[1].fixture)
    BY <1>1 DEF AgreeInv, OneFixture
  <2>2. CASE m # m0
    BY <1>3, <1>5, <2>1, <2>2 DEF MainWork
  <2>3. CASE m = m0
    <3> DEFINE longer == Append(work.records[m0], rec)
    <3>1. work'.records[m] = longer
      BY <1>3, <1>5, <2>3 DEF MainWork
    <3>2. \A i \in DOMAIN longer : longer[i] = rec \/ (i \in DOMAIN work.records[m0] /\ longer[i] = work.records[m0][i])
      BY <1>3
    <3> HIDE DEF longer
    <3> QED
      BY <1>4, <2>1, <2>3, <3>1, <3>2 DEF ScoredBy
  <2> QED
    BY <2>2, <2>3
<1>8. OneFixture'
  BY <1>1, <1>5, <1>7 DEF AgreeInv, OneFixture
<1> QED
  BY <1>1, <1>6, <1>8, MainGoesOn

LEMMA AppendRecordAgrees ==
  ASSUME IInv, AgreeInv, IInv', AppendRecord
  PROVE  AgreeInv'
<1> DEFINE m == ModeOfRun(work.runs - 1)
<1>1. Preparing /\ work.step = "append" /\ m \in File /\ m \notin {"environment", "summary"}
  BY DEF AppendRecord, Preparing, MainStep, ModeOfRun, File, Mode
<1>2. CASE Open(m)
  BY <1>1, <1>2, MainOpensAgree DEF Preparing
<1>3. CASE ~Open(m)
  <2>1. /\ Write(m, work.records[m])
        /\ work' = [work EXCEPT !.step = "run"] /\ interrupted' = interrupted
    BY <1>3 DEF AppendRecord
  <2>2. file'["environment"] = file["environment"] /\ file'["summary"] = file["summary"]
    BY <1>1, <2>1, WriteOne DEF IInv, FilesOk, File
  <2>3. /\ work' \in MainWork
        /\ work'.tasks = work.tasks /\ work'.records = work.records
    BY <1>1, <2>1, NextStepWork DEF MainStep
  <2>4. file["environment"].scoring = work.tasks[1].fixture
    BY <1>1 DEF AgreeInv, OneFixture
  <2> QED
    BY <1>1, <2>1, <2>2, <2>3, <2>4, MainKeeps
<1> QED
  BY <1>2, <1>3

LEMMA WriteFailuresAgrees ==
  ASSUME IInv, AgreeInv, IInv', WriteFailures
  PROVE  AgreeInv'
<1>1. Preparing /\ work.step = "run" /\ "failures" \in File
  BY DEF WriteFailures, Preparing, MainStep, File
<1>2. CASE Open("failures")
  BY <1>1, <1>2, MainOpensAgree DEF Preparing
<1>3. CASE ~Open("failures")
  <2>1. Write("failures", "failures") /\ work' = None /\ interrupted' = interrupted
    BY <1>3 DEF WriteFailures
  <2>2. file'["summary"] = file["summary"]
    BY <1>1, <2>1, WriteOne DEF IInv, FilesOk, File
  <2> QED
    BY <1>1, <2>1, <2>2, MainEnds DEF IInv, MainOk, Readable
<1> QED
  BY <1>2, <1>3

\* The summary main writes is of the records it has written.
LEMMA WriteSummaryAgrees ==
  ASSUME IInv, AgreeInv, IInv', WriteSummary
  PROVE  AgreeInv'
<1>1. Preparing /\ work.step = "run" /\ "summary" \in File /\ work \in MainWork
      /\ work.runs = 2 * Len(work.tasks)
  BY WorkOfStep DEF WriteSummary, Preparing, MainStep, File, IInv
<1>2. CASE Open("summary")
  BY <1>1, <1>2, MainOpensAgree DEF Preparing
<1>3. CASE ~Open("summary")
  <2>1. /\ Write("summary", summarize(work.records)) /\ work' = None
        /\ interrupted' = interrupted
    BY <1>3 DEF WriteSummary
  <2>2. /\ file'["summary"] = summarize(work.records)
        /\ \A k \in File \ {"summary"} : file'[k] = file[k]
    BY <1>1, <2>1, WriteOne DEF IInv, FilesOk
  <2>3. work.tasks \in Seq(RecordedTask) /\ Len(work.tasks) \in Nat /\ Len(work.tasks) > 0
    BY <1>1 DEF IInv, MainOk, MainWork
  <2>4. work.tasks[1].fixture # None
    <3>1. work.tasks[1] \in RecordedTask
      BY <2>3
    <3> QED
      BY <3>1, EvidenceAssumption DEF RecordedTask
  <2>5. \A m \in Mode : file'[m] = work.records[m]
    <3> SUFFICES ASSUME NEW m \in Mode PROVE file'[m] = work.records[m]
      OBVIOUS
    <3>1. FileOfRuns(m) /\ work.records[m] # <<>>
      BY <1>1, <2>3, RunsOfPairs DEF IInv, MainOk, MainWork
    <3> QED
      BY <2>2, <3>1 DEF FileOfRuns, File, Mode
  <2>6. /\ \A m \in Mode : ScoredBy(work.records[m], work.tasks[1].fixture)
        /\ file["environment"].scoring = work.tasks[1].fixture
        /\ ~interrupted
    BY <1>1 DEF AgreeInv, OneFixture
  <2>7. ScoringOf(file'["environment"]) = work.tasks[1].fixture
    BY <2>2, <2>4, <2>6 DEF ScoringOf, File
  <2>8. file'["summary"] = summarize([m \in Mode |-> file'[m]])
    BY <2>2, <2>5 DEF summarize
  <2>9. Agreed'
    BY <2>5, <2>6, <2>7, <2>8 DEF Agreed
  <2> QED
    BY <2>1, <2>6, <2>9
    DEF AgreeInv, SummaryAgrees, RetryOk, OneFixture, NewAgrees, Preparing, Rescoring
<1> QED
  BY <1>2, <1>3

LEMMA StartRescoreAgrees ==
  ASSUME IInv, AgreeInv, IInv', StartRescore
  PROVE  AgreeInv'
<1> DEFINE records == [m \in Mode |-> [i \in DOMAIN file[m] |-> Rescored(file[m][i])]]
           env == RescoredEnvironment(file["environment"])
<1>1. /\ Accepts
      /\ work' = [ step |-> "rescore", at |-> 1,
                   new |-> [ eager |-> records["eager"],
                             skillloader |-> records["skillloader"],
                             environment |-> env,
                             summary |-> summarize(records) ] ]
      /\ UNCHANGED <<fixture, catalog, site, file, published, interrupted>>
  BY DEF StartRescore
<1>2. file["environment"] \in Environment /\ published \subseteq NamesOf(file["environment"])
  BY <1>1 DEF IInv, FilesOk, Accepts, Inputs, Readable
<1>3. env.scoring = fixture
  BY <1>2, RescoredEnvironmentIs DEF IInv
<1>4. ASSUME NEW m \in Mode
      PROVE  ScoredBy(records[m], fixture) /\ Canonical(records[m])
  <2>1. file[m] \in Seq(Record)
    BY <1>1 DEF IInv, FilesOk, Accepts, Inputs, Readable
  <2>2. \A i \in DOMAIN file[m] : file[m][i] \in Record
    BY <2>1
  <2>3. ASSUME NEW r \in Record
        PROVE  /\ Rescored(r).score.fixture = fixture /\ Rescored(r).argv = "canonical"
               /\ Classification(Rescored(r)) = fixture
    <3>1. /\ Rescored(r).score.fixture = fixture /\ Rescored(r).argv = "canonical"
          /\ Rescored(r).scoring_task = fixture
      BY DEF Rescored, Record
    <3>2. fixture # None
      BY EvidenceAssumption DEF IInv, WorkOk
    <3> QED
      BY <3>1, <3>2 DEF Classification
  <2> QED
    BY <2>2, <2>3 DEF ScoredBy, Canonical
<1> HIDE DEF records, env
<1>5. /\ work'.step = "rescore" /\ work'.new.environment = env
      /\ work'.new.summary = summarize(records)
      /\ \A m \in Mode : work'.new[m] = records[m]
  BY <1>1 DEF Mode
<1>6. Retriable'
  <2>1. \A m \in Mode : Canonical(file[m]) \/ file["environment"].argv_schema_version = None
    BY <1>1 DEF Accepts, RecordAccepted, Canonical
  <2>2. Retriable
    BY <1>1, <2>1 DEF Accepts, Inputs, Retriable
  <2> QED
    BY <1>1, <2>2 DEF Retriable, Readable, Paired
<1>7. NewAgrees'
  <2>1. summarize(records) = summarize([m \in Mode |-> work'.new[m]])
    BY <1>5 DEF summarize
  <2> QED
    BY <1>3, <1>4, <1>5, <2>1 DEF NewAgrees
<1>8. ~Preparing'
  BY <1>5 DEF Preparing, MainStep
<1>9. SummaryAgrees'
  <2>1. Rescoring' \/ work' = None
    BY <1>5 DEF Rescoring
  <2>2. work = None
    BY DEF StartRescore
  <2>3. SummaryAgrees' \/ (Readable("summary") /\ ~interrupted)
    BY <1>1 DEF SummaryAgrees, Readable
  <2>4. Agreed => Agreed'
    BY <1>1 DEF Agreed
  <2> QED
    BY <2>2, <2>3, <2>4 DEF AgreeInv, SummaryAgrees
<1> QED
  BY <1>6, <1>7, <1>8, <1>9 DEF AgreeInv, RetryOk, OneFixture

\* What a rescore replaces is as good for another.
LEMMA RescoreGoesOn ==
  ASSUME IInv, AgreeInv, Rescoring, work' # None, work'.step = "rescore", work'.new = work.new,
         interrupted' = interrupted, Retriable'
  PROVE  AgreeInv'
<1>1. NewAgrees' /\ RetryOk' /\ SummaryAgrees'
  BY DEF AgreeInv, NewAgrees, RetryOk, SummaryAgrees
<1>2. OneFixture'
  BY DEF OneFixture, Preparing, MainStep
<1> QED
  BY <1>1, <1>2 DEF AgreeInv

LEMMA ReplaceRecordsAgrees ==
  ASSUME IInv, AgreeInv, IInv', ReplaceRecords
  PROVE  AgreeInv'
<1>1. PICK n \in Mode : NextWrite(n) /\ Written(n)
                        /\ UNCHANGED <<fixture, catalog, site, published, interrupted>>
  BY DEF ReplaceRecords
<1>2. n \in File /\ Mode \subseteq File
      /\ {"schema", "tasks", "environment"} \subseteq File \ {n}
  BY <1>1 DEF File, Mode
<1>3. Rescoring /\ work \in RescoreWork /\ work.at \in 1 .. 3
  BY <1>1, <1>2, RescoreWrites DEF Mode
<1>4. work' # None /\ work'.step = "rescore" /\ work'.new = work.new
  BY <1>1, <1>3, NextWriteWork, NoProcessAssumption
<1>5. file'[n] = work.new[n] /\ \A k \in File \ {n} : file'[k] = file[k]
  BY <1>1, <1>2, WriteOne DEF Written, IInv, FilesOk
<1>6. Readable(n)' /\ Complete(work.new[n], file["tasks"]) /\ Canonical(work.new[n])
  <2>1. work.new[n] \in Seq(Record)
    BY <1>3 DEF RescoreWork, RescoreNew, Mode
  <2> QED
    BY <1>3, <1>5, <2>1, UnreadableAssumption DEF Readable, IInv, RescoreOk, AgreeInv, NewAgrees
<1>7. Retriable
  BY <1>3 DEF AgreeInv, RetryOk
<1>8. Retriable'
  <2>1. \A k \in File \ {n} : Readable(k)' <=> Readable(k)
    BY <1>5 DEF Readable
  <2>2. \A k \in {"schema", "tasks"} \cup Mode : Readable(k)'
    BY <1>2, <1>6, <1>7, <2>1 DEF Retriable
  <2>3. file'["tasks"] = file["tasks"] /\ file'["environment"] = file["environment"]
    BY <1>2, <1>5
  <2>4. ASSUME NEW m \in Mode
        PROVE  /\ DOMAIN file'[m] = DOMAIN file["tasks"]
               /\ \A i \in DOMAIN file'[m] : file'[m][i].task = file["tasks"][i]
               /\ Readable("environment") =>
                    Canonical(file'[m]) \/ file["environment"].argv_schema_version = None
    <3>1. CASE m = n
      BY <1>5, <1>6, <3>1 DEF Complete
    <3>2. CASE m # n
      BY <1>2, <1>5, <1>7, <3>2 DEF Retriable, Paired
    <3> QED
      BY <3>1, <3>2
  <2> QED
    BY <1>2, <2>1, <2>2, <2>3, <2>4 DEF Retriable, Paired
<1> QED
  BY <1>1, <1>3, <1>4, <1>8, RescoreGoesOn

LEMMA OverwriteEnvironmentAgrees ==
  ASSUME IInv, AgreeInv, IInv', OverwriteEnvironment
  PROVE  AgreeInv'
<1>1. NextWrite("environment") /\ "environment" \in File
  BY DEF OverwriteEnvironment, File
<1>2. Rescoring /\ work \in RescoreWork /\ work.at = 3
  BY <1>1, RescoreWrites
<1>3. Retriable /\ \A m \in Mode : Canonical(work.new[m])
  BY <1>2 DEF AgreeInv, RetryOk, NewAgrees
<1>4. \A m \in Mode : file[m] = work.new[m]
  BY <1>2 DEF IInv, RescoreOk, Mode
<1>5. ASSUME NEW v, Write("environment", v)
      PROVE  Retriable'
  <2>1. \A k \in File \ {"environment"} : file'[k] = file[k]
    BY <1>1, <1>5, WriteOne DEF IInv, FilesOk
  <2>2. Mode \subseteq File \ {"environment"} /\ {"schema", "tasks"} \subseteq File \ {"environment"}
    BY DEF File, Mode
  <2>3. \A m \in Mode : Canonical(file'[m])
    BY <1>3, <1>4, <2>1, <2>2
  <2> QED
    BY <1>3, <2>1, <2>2, <2>3 DEF Retriable, Paired, Readable
<1>6. CASE Open("environment")
  BY <1>2, <1>5, <1>6, RescoreGoesOn DEF Open, Rescoring
<1>7. CASE ~Open("environment")
  <2>1. Written("environment") /\ interrupted' = interrupted
    BY <1>7 DEF OverwriteEnvironment
  <2>2. work' # None /\ work'.step = "rescore" /\ work'.new = work.new
    BY <1>2, <2>1, NextWriteWork, NoProcessAssumption
  <2> QED
    BY <1>2, <1>5, <2>1, <2>2, RescoreGoesOn DEF Written
<1> QED
  BY <1>6, <1>7

\* The last file a rescore writes is of the files it has written.
LEMMA OverwriteSummaryAgrees ==
  ASSUME IInv, AgreeInv, IInv', OverwriteSummary
  PROVE  AgreeInv'
<1>1. NextWrite("summary") /\ "summary" \in File
  BY DEF OverwriteSummary, File
<1>2. Rescoring /\ work \in RescoreWork /\ work.at = 4
  BY <1>1, RescoreWrites
<1>3. CASE Open("summary")
  <2>1. Write("summary", Torn) /\ UNCHANGED <<work, interrupted>>
    BY <1>3 DEF Open
  <2>2. \A k \in File \ {"summary"} : file'[k] = file[k]
    BY <1>1, <2>1, WriteOne DEF IInv, FilesOk
  <2>3. Mode \cup {"schema", "tasks", "environment"} \subseteq File \ {"summary"}
    BY DEF File, Mode
  <2>4. Retriable'
    BY <1>2, <2>2, <2>3 DEF AgreeInv, RetryOk, Retriable, Paired, Readable
  <2> QED
    BY <1>2, <2>1, <2>4, RescoreGoesOn DEF Rescoring
<1>4. CASE ~Open("summary")
  <2>1. /\ Written("summary") /\ interrupted' = FALSE
    BY <1>4 DEF OverwriteSummary
  <2>2. work' = None
    BY <1>2, <2>1 DEF Written, RescoreOrder
  <2>3. /\ file'["summary"] = work.new.summary
        /\ \A k \in File \ {"summary"} : file'[k] = file[k]
    BY <1>1, <2>1, WriteOne DEF Written, IInv, FilesOk
  <2>4. /\ file["environment"] = work.new.environment
        /\ \A m \in Mode : file[m] = work.new[m]
        /\ work.new.environment.scoring \in Fixture
    BY <1>2 DEF IInv, RescoreOk, Mode
  <2>5. /\ work.new.summary = summarize([m \in Mode |-> work.new[m]])
        /\ \A m \in Mode : ScoredBy(work.new[m], work.new.environment.scoring)
    BY <1>2 DEF AgreeInv, NewAgrees
  <2>6. \A m \in Mode : file'[m] = work.new[m]
    BY <2>3, <2>4 DEF File, Mode
  <2>7. file'["environment"] = work.new.environment
    BY <2>3, <2>4 DEF File
  <2>8. ScoringOf(file'["environment"]) = work.new.environment.scoring
    BY <2>4, <2>7, EvidenceAssumption DEF ScoringOf
  <2>9. file'["summary"] = summarize([m \in Mode |-> file'[m]])
    BY <2>3, <2>5, <2>6
  <2>10. Agreed'
    BY <2>5, <2>6, <2>8, <2>9 DEF Agreed
  <2> QED
    BY <2>1, <2>2, <2>10
    DEF AgreeInv, SummaryAgrees, RetryOk, OneFixture, NewAgrees, Preparing, Rescoring
<1> QED
  BY <1>3, <1>4

\* A process that is killed leaves no summary, or files to rescore again.
LEMMA KilledAgrees ==
  ASSUME IInv, AgreeInv, Killed
  PROVE  AgreeInv'
<1>1. work # None /\ work' = None /\ UNCHANGED file
      /\ interrupted' = (interrupted \/ work.step = "rescore")
  BY DEF Killed
<1>2. CASE Preparing
  <2>1. work.step # "rescore" /\ ~Readable("summary")'
    BY <1>1, <1>2 DEF Preparing, MainStep, IInv, MainOk, Readable
  <2>2. interrupted' => interrupted
    BY <1>1, <2>1
  <2> QED
    BY <1>1, <1>2, <2>1, <2>2, MainEnds
<1>3. CASE Rescoring
  <2>1. interrupted' /\ Retriable
    BY <1>1, <1>3 DEF AgreeInv, RetryOk, Rescoring
  <2>2. Retriable'
    BY <1>1, <2>1 DEF Retriable, Paired, Readable
  <2> QED
    BY <1>1, <2>1, <2>2
    DEF AgreeInv, SummaryAgrees, RetryOk, OneFixture, NewAgrees, Preparing, Rescoring
<1> QED
  BY <1>1, <1>2, <1>3 DEF IInv, WorkOk, MainWork, RescoreWork, Preparing, Rescoring

LEMMA EditRepositoryAgrees ==
  ASSUME IInv, AgreeInv, IInv', EditRepository
  PROVE  AgreeInv'
<1>1. work # None /\ UNCHANGED <<file, interrupted>>
      /\ work.step \in {"tasks", "copy", "build", "verify"}
  BY DEF EditRepository
<1>2. Preparing /\ work \in MainWork
  BY <1>1, WorkOfStep DEF Preparing, MainStep, IInv
<1>3. /\ work'.step = work.step /\ work'.tasks = work.tasks /\ work'.records = work.records
      /\ work' = work \/ \E b \in Edits(work.build) : work' = [work EXCEPT !.build = b]
  BY <1>2 DEF EditRepository, MainWork
<1>4. OneFixture'
  BY <1>1, <1>2, <1>3 DEF AgreeInv, OneFixture
<1> QED
  BY <1>1, <1>2, <1>3, <1>4, MainGoesOn DEF Preparing

\* What an older version of the runner left was scored with its one fixture.
LEMMA LegacyAgrees ==
  ASSUME NEW ids \in Selections, NEW s \in Usable, file = LegacyFiles(ids, s)
  PROVE  Agreed
<1> DEFINE records == [m \in Mode |-> [i \in DOMAIN ids |->
                         LegacyRecord(m, ids[i], fixture, catalog, s)]]
<1>1. /\ file["summary"] = summarize(records)
      /\ file["environment"].scoring = None /\ file["environment"].fixture = fixture
      /\ file["eager"] = records["eager"] /\ file["skillloader"] = records["skillloader"]
  BY DEF LegacyFiles
<1>2. \A m \in Mode : file[m] = records[m]
  BY <1>1 DEF Mode
<1>3. records = [m \in Mode |-> file[m]]
  BY <1>2
<1>4. \A m \in Mode : ScoredBy(records[m], fixture)
  BY DEF ScoredBy, LegacyRecord, Classification
<1> HIDE DEF records
<1> QED
  BY <1>1, <1>2, <1>3, <1>4 DEF Agreed, ScoringOf

LEMMA AgreeInit == Init => AgreeInv
<1> SUFFICES ASSUME Init PROVE AgreeInv
  OBVIOUS
<1>1. work = None /\ ~interrupted
  BY DEF Init
<1>2. Readable("summary") => Agreed
  <2>1. CASE file = [n \in File |-> Absent]
    BY <2>1 DEF Readable, File
  <2>2. ASSUME NEW ids \in Selections, NEW s \in Usable, file = LegacyFiles(ids, s)
        PROVE  Agreed
    BY <2>2, LegacyAgrees
  <2> QED
    BY <2>1, <2>2 DEF Init
<1> QED
  BY <1>1, <1>2
  DEF AgreeInv, SummaryAgrees, RetryOk, OneFixture, NewAgrees, Preparing, Rescoring

LEMMA StepAgrees == IInv /\ AgreeInv /\ IInv' /\ [Next]_vars => AgreeInv'
<1> SUFFICES ASSUME IInv, AgreeInv, IInv', [Next]_vars PROVE AgreeInv'
  OBVIOUS
<1>1. ASSUME NEW ids \in Selections, Begin(ids) PROVE AgreeInv'
  BY <1>1, BeginAgrees
<1>2. CASE WriteSchema \/ WriteTasks \/ CopyCatalog \/ GoBuild \/ VerifyBuild
  BY <1>2, PreambleAgrees, PreparationAgrees
<1>3. CASE WriteEnvironment \/ RunClient \/ AppendRecord \/ WriteFailures \/ WriteSummary
  BY <1>3, WriteEnvironmentAgrees, RunClientAgrees, AppendRecordAgrees, WriteFailuresAgrees,
     WriteSummaryAgrees
<1>4. CASE StartRescore \/ ReplaceRecords \/ OverwriteEnvironment \/ OverwriteSummary
  BY <1>4, StartRescoreAgrees, ReplaceRecordsAgrees, OverwriteEnvironmentAgrees,
     OverwriteSummaryAgrees
<1>5. CASE Killed
  BY <1>5, KilledAgrees
<1>6. CASE EditRepository
  BY <1>6, EditRepositoryAgrees
<1>7. CASE UNCHANGED <<file, work, interrupted>>
  BY <1>7
  DEF AgreeInv, SummaryAgrees, Agreed, RetryOk, Retriable, Paired, OneFixture, NewAgrees,
      Preparing, Rescoring, Readable
<1> QED
  BY <1>1, <1>2, <1>3, <1>4, <1>5, <1>6, <1>7 DEF Next, main, rescore_existing, Change, vars

LEMMA AgreeInvariant == Spec => []AgreeInv
BY Invariant, AgreeInit, StepAgrees, PTL DEF Spec

\* Where no rescore was killed, summary.json is of the records that are there,
\* and they were all scored, and are counted in it, by the tasks of the fixture
\* environment.json names, however many rescores and edits of the fixture there were.
THEOREM FilesAlwaysAgree == Spec => []FilesAgree
<1>1. AgreeInv => FilesAgree
  <2> SUFFICES ASSUME Agreed PROVE
        LET env == file["environment"]
            scoring == IF env.scoring = None THEN env.fixture ELSE env.scoring
        IN  \A m \in Mode : \A i \in DOMAIN file[m] :
              /\ file[m][i].score.fixture = scoring
              /\ file["summary"][m][i].classified = scoring
    BY DEF AgreeInv, SummaryAgrees, Agreed, FilesAgree
  <2>1. ASSUME NEW m \in Mode, NEW i \in DOMAIN file[m]
        PROVE  /\ file[m][i].score.fixture = ScoringOf(file["environment"])
               /\ file["summary"][m][i].classified = ScoringOf(file["environment"])
    <3>1. file["summary"][m][i] = Entry(file[m][i])
      BY DEF Agreed, summarize
    <3> QED
      BY <3>1 DEF Agreed, ScoredBy, Entry
  <2> QED
    BY <2>1 DEF ScoringOf
<1> QED
  BY <1>1, AgreeInvariant, PTL

\* The order in which a rescore writes its files never makes the next one
\* refuse what this one, killed, has left half written.
THEOREM InterruptedRescoresRetry == Spec => []InterruptedRescoreRetries
<1>1. IInv /\ AgreeInv => InterruptedRescoreRetries
  <2> SUFFICES ASSUME AgreeInv, interrupted, Readable("environment"),
                      file["environment"].catalog = catalog, TasksMatch,
                      \A m \in Mode : \A i \in DOMAIN file[m] :
                        ~file[m][i].redacted /\ ~execution_failure(Rescored(file[m][i]))
               PROVE  Accepts
    BY DEF InterruptedRescoreRetries
  <2>1. Retriable
    BY DEF AgreeInv, RetryOk
  <2>2. \A n \in Inputs : Readable(n)
    BY <2>1 DEF Retriable, Inputs
  <2>3. \A m \in Mode : \A i \in DOMAIN file[m] :
          RecordAccepted(file[m][i], file["environment"])
    BY <2>1 DEF Retriable, Canonical, RecordAccepted
  <2> QED
    BY <2>1, <2>2, <2>3 DEF Accepts, Retriable
<1> QED
  BY <1>1, Invariant, AgreeInvariant, PTL
=============================================================================
