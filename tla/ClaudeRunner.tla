----------------------------- MODULE ClaudeRunner -----------------------------
(***************************************************************************)
(* One invocation of scripts/run_gate6_claude_code.py: it builds the       *)
(* binary, runs the client over the selected tasks in both modes, scores   *)
(* each run as it ends (ClaudeScoring), appends its record, and at the end *)
(* writes either the failures or the summary.  There is no rescore, and no *)
(* invocation continues another: main insists on a new directory.          *)
(*                                                                         *)
(* The client issues tool calls, several at a time, and gets their results *)
(* in any order, until it ends or the timeout kills it.                    *)
(***************************************************************************)
EXTENDS ClaudeScoring, Gate6Build

CONSTANTS
  Selections,  \* the sequences of tasks an invocation is started with
  MaxEvents,   \* [Mode -> [Task -> Nat]]: bound on the calls and results of a run
  MaxOther,    \* [Mode -> [Task -> Nat]]: the same with a use of another tool
  MaxUses      \* bound on the uses of either tool of SkillLoader

ASSUME RunnerAssumption ==
  /\ \A s \in Selections : s \in Seq(Task) /\ s # <<>>
  /\ MaxEvents \in [Mode -> [Task -> Nat]]
  /\ MaxOther \in [Mode -> [Task -> Nat]]
  /\ MaxUses \in Nat
  /\ None \notin BOOLEAN \cup Nat

VARIABLES
  step,     \* where main is
  build,    \* the build of the binary
  tasks,    \* the selected tasks
  events,   \* the stream of the running client
  records,  \* [Mode -> Seq(Record)]: eager.jsonl and skillloader.jsonl
  summary   \* summary.json, or None

vars == <<step, build, tasks, events, records, summary>>

\* executed: exit code zero, which a timeout is not, no error result, and
\* valid usage counters.  readable: the answer can be read from the redacted
\* events.  earned: history, whether the run deserves to be a success.
Record == [ task : Task, executed : BOOLEAN, readable : BOOLEAN,
            top_five_recall : BOOLEAN \cup {None}, task_success : BOOLEAN,
            earned : BOOLEAN ]

Step == {"prepare", "build", "verify", "client", "next", "end"}

Runs == Len(records["eager"]) + Len(records["skillloader"])

\* Mutant: the mode that comes first changes with every run.
ModeOfRun_Always(k) == IF k % 4 \in {0, 1} THEN "eager" ELSE "skillloader"

\* Paired by task; eager comes first for even indexes.
ModeOfRun(k) == IF k % 4 \in {0, 3} THEN "eager" ELSE "skillloader"

mode == ModeOfRun(Runs)
task == tasks[Runs \div 2 + 1]

Init ==
  /\ step = "prepare"
  /\ build \in {[NewBuild EXCEPT !.clean = c] : c \in BOOLEAN}
  /\ tasks \in Selections
  /\ events = <<>>
  /\ records = [m \in Mode |-> <<>>]
  /\ summary = None

-----------------------------------------------------------------------------
(* The binary *)

BuildStep(from, to, builds) ==
  /\ step = from
  /\ step' = to
  /\ build' \in builds
  /\ UNCHANGED <<tasks, events, records, summary>>

\* A reading that refuses raises SystemExit.
Refused(from, builds) ==
  /\ step = from /\ builds = {}
  /\ step' = "end"
  /\ UNCHANGED <<build, tasks, events, records, summary>>

\* load_catalog, build_input_metadata, then mkdir(exist_ok=False) and tasks.jsonl.
Prepare ==
  \/ BuildStep("prepare", "build", Recorded(build))
  \/ Refused("prepare", Recorded(build))

GoBuild == BuildStep("build", "verify", Compiled(build))

\* The second build_input_metadata, then environment.json.
VerifyBuild ==
  \/ BuildStep("verify", "client", Verified(build))
  \/ Refused("verify", Verified(build))

EditInputs ==
  /\ step \in {"build", "verify"}
  /\ build' \in Edits(build)
  /\ UNCHANGED <<step, tasks, events, records, summary>>

-----------------------------------------------------------------------------
(* The client *)

Others == {i \in DOMAIN events : events[i].tool \notin {"search_skills", "load_skill"}}

Emit(block, others) ==
  /\ step = "client"
  /\ others <= 1
  /\ Len(events) < IF others = 0 THEN MaxEvents[mode][task] ELSE MaxOther[mode][task]
  /\ events' = Append(events, block)
  /\ UNCHANGED <<step, build, tasks, records, summary>>

Fewer(tool) == Cardinality(mcp_calls(events, tool)) < MaxUses

UseTool ==
  \/ /\ Fewer("search_skills")
     /\ \E apt \in BOOLEAN : Emit(Use("search_skills", NoName, apt), Cardinality(Others))
  \/ /\ Fewer("load_skill")
     /\ \/ \E n \in Name : Emit(Use("load_skill", n, TRUE), Cardinality(Others))
        \/ Emit(Use("load_skill", NoName, FALSE), Cardinality(Others))
  \/ \E tool \in {"ToolSearch", "StructuredOutput", "foreign"} :
       Emit(Use(tool, NoName, TRUE), Cardinality(Others) + 1)

\* Results of the other tools are left out: nobody reads them.
GetResult ==
  \E i \in mcp_calls(events, "search_skills") \cup mcp_calls(events, "load_skill"),
     matches \in Matches \cup {<<>>} :
    /\ tool_results_by_use_id(events, i) = {}
    /\ events[i].tool = "load_skill" => matches = <<>>
    /\ Emit(Result(events, i, matches), Cardinality(Others))

\* The process ends, or subprocess.run kills it after timeout_seconds.
run_claude ==
  /\ step = "client"
  /\ step' = "next"
  /\ \E r \in Answer \cup {None} :
       \E score \in {score_run(mode, task, events, r)},
          earned \in {Earned(mode, task, events, r)},
          executed \in BOOLEAN, readable \in {r # None, FALSE} :
         records' = [records EXCEPT ![mode] = Append(@,
           [ task |-> task, executed |-> executed, readable |-> readable,
             top_five_recall |-> score.top_five_recall,
             task_success |-> score.task_success, earned |-> earned ])]
  /\ events' = <<>>
  /\ UNCHANGED <<build, tasks, summary>>

-----------------------------------------------------------------------------
(* The results *)

\* Mutant: the answer is looked for in the events before their redaction.
execution_failure_Original(record) == ~record.executed

execution_failure(record) == ~record.executed \/ ~record.readable

percentage(n, d) == IF d = 0 THEN None ELSE (100 * n) \div d

Count(recs, P(_)) == Cardinality({i \in DOMAIN recs : P(recs[i])})

summarize(recs) ==
  [m \in Mode |->
    LET Recalls(record) == record.top_five_recall = TRUE
        Recallable(record) == record.top_five_recall # None
    IN  [ run_count |-> Len(recs[m]),
          top_five_recall_percent |->
            percentage(Count(recs[m], Recalls), Count(recs[m], Recallable)),
          task_successes |-> Count(recs[m], LAMBDA r : r.task_success) ]]

NextRun ==
  /\ step = "next"
  /\ Runs < 2 * Len(tasks)
  /\ step' = "client"
  /\ UNCHANGED <<build, tasks, events, records, summary>>

\* execution-failures.json or summary.json.
WriteResults ==
  /\ step = "next"
  /\ Runs = 2 * Len(tasks)
  /\ step' = "end"
  /\ summary' = IF \E m \in Mode : \E i \in DOMAIN records[m] : execution_failure(records[m][i])
                THEN None ELSE summarize(records)
  /\ UNCHANGED <<build, tasks, events, records>>

Killed ==
  /\ step # "end"
  /\ step' = "end"
  /\ UNCHANGED <<build, tasks, events, records, summary>>

main == Prepare \/ GoBuild \/ VerifyBuild \/ run_claude \/ NextRun \/ WriteResults

Next == main \/ EditInputs \/ UseTool \/ GetResult \/ Killed

Spec == Init /\ [][Next]_vars
-----------------------------------------------------------------------------
(* Properties *)

TypeOK ==
  /\ step \in Step
  /\ build \in Build
  /\ tasks \in Seq(Task)
  /\ events \in Seq(Block)
  /\ records \in [Mode -> Seq(Record)]
  /\ Len(records["eager"]) <= Len(records["skillloader"]) + 1
  /\ Len(records["skillloader"]) <= Len(records["eager"]) + 1

\* The binary whose results are recorded is of the Go files the environment
\* names, although anybody may edit and commit them during the build.
BuiltFromRecordedSource == step \in {"client", "next"} => BinaryIsOfSource(build)

\* No stream of tool uses and results, cut off wherever the timeout falls,
\* is scored a success unless the run deserves it.
SuccessIsEarned ==
  \A m \in Mode : \A i \in DOMAIN records[m] :
    records[m][i].task_success => records[m][i].earned

\* And every run that deserves it is, however often it resolved its tools and
\* in whatever order its parallel loads ended.
EarnedIsSuccess ==
  \A m \in Mode : \A i \in DOMAIN records[m] :
    records[m][i].earned => records[m][i].task_success

\* A summary compares the modes over the same tasks, all of them, counts the
\* runs that deserved it, and none that failed to execute or whose stored
\* answer cannot be read; it has a percentage only where it counted something.
SummaryIsOfTheRuns ==
  summary # None =>
    \A m \in Mode :
      /\ [i \in DOMAIN records[m] |-> records[m][i].task] = tasks
      /\ \A i \in DOMAIN records[m] : records[m][i].executed /\ records[m][i].readable
      /\ summary[m].run_count = Len(tasks)
      /\ summary[m].task_successes = Cardinality({i \in DOMAIN tasks : records[m][i].earned})
      /\ summary[m].top_five_recall_percent = None
           <=> m = "eager" \/ \A i \in DOMAIN tasks : tasks[i].no_load
=============================================================================
