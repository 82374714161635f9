----------------------------- MODULE Gate6Answer -----------------------------
(***************************************************************************)
(* What both Gate 6 runners ask of the structured message a client ends    *)
(* with, and of the names it loaded: the part of score_run that does not   *)
(* look at the event stream.  scripts/run_gate6_codex.py and               *)
(* scripts/run_gate6_claude_code.py have the same code here; Gate6Scoring  *)
(* and ClaudeScoring add what they ask of their streams.                   *)
(***************************************************************************)
EXTENDS Naturals, Sequences, FiniteSets

CONSTANTS
  Name,       \* the skills of the fixture catalog
  NoName,
  None,       \* no structured message, not scored yet
  Task,       \* the tasks of the fixture
  Answer      \* the structured messages considered: SUBSET Response

Mode == {"eager", "skillloader"}

\* exact: applied_instructions holds the instruction of every selected name,
\* once, and nothing else.  shape: the message has the output schema.
Response ==
  [ selected_names : UNION {[1 .. n -> Name] : n \in 0 .. 2},  \* MAX_SKILLS
    no_load : BOOLEAN, exact : BOOLEAN, shape : BOOLEAN ]

\* The tasks of bench/tasks/task-fixture-v1.json.
ASSUME FixtureAssumption ==
  /\ NoName \notin Name
  /\ Answer \subseteq Response
  /\ \A t \in Task :
    /\ t.required_names \in SUBSET Name
    /\ t.expected_top \in t.required_names \cup {NoName}
    /\ t.alternatives \in SUBSET Name
    /\ t.load_count = Cardinality(t.required_names)
    /\ t.no_load = (t.required_names = {})
    /\ t.no_load <=> t.expected_top = NoName

\* Lists of names.  Of the loaded ones no order is asked, so they are given
\* by the positions of their calls in the stream.
NamesIn(s) == {s[i] : i \in DOMAIN s}
AllDistinct(s) == Cardinality(NamesIn(s)) = Cardinality(DOMAIN s)
Times(s, n) == Cardinality({i \in DOMAIN s : s[i] = n})

instruction_score(r) == r # None /\ AllDistinct(r.selected_names) /\ r.exact

load_count_correct(m, t, selected, loaded) ==
  LET counted == IF m = "eager" THEN selected ELSE loaded
  IN  AllDistinct(counted) /\ Cardinality(DOMAIN counted) = t.load_count

\* The scores that depend on the message r and the loaded names only.
answer_score(m, t, r, loaded) ==
  LET selected == IF r = None THEN <<>> ELSE r.selected_names
      allowed == t.alternatives \cup t.required_names \cup ({t.expected_top} \ {NoName})
      shapeOk == r # None /\ r.shape /\ r.no_load = (selected = <<>>)
  IN  [ selected |-> selected,
        response_shape_ok |-> shapeOk,
        required_skill_set_correct |->
          /\ Len(selected) = Cardinality(t.required_names)
          /\ NamesIn(selected) = t.required_names,
        selection_top_one_correct |->
          IF t.no_load THEN selected = <<>>
          ELSE selected # <<>> /\ selected[1] = t.expected_top,
        incorrect_load |-> ~ (NamesIn(selected) \cup NamesIn(loaded) \subseteq allowed),
        load_count_correct |-> load_count_correct(m, t, selected, loaded),
        no_load_correct |->
          /\ shapeOk
          /\ (selected = <<>>) = t.no_load
          /\ m = "skillloader" => (DOMAIN loaded = {}) = t.no_load,
        applied |-> instruction_score(r),
        reported_matches_calls |->
          m = "skillloader" =>
            \A n \in Name \cup {NoName} : Times(selected, n) = Times(loaded, n) ]

task_success(a, routing_failure) ==
  /\ a.selection_top_one_correct
  /\ a.no_load_correct
  /\ ~a.incorrect_load
  /\ a.load_count_correct
  /\ a.applied
  /\ a.required_skill_set_correct
  /\ a.response_shape_ok
  /\ ~routing_failure
  /\ a.reported_matches_calls

-----------------------------------------------------------------------------
\* The message r is the one the task t asks for.
RightAnswer(t, r) ==
  /\ r # None
  /\ r.shape
  /\ r.exact
  /\ NamesIn(r.selected_names) = t.required_names
  /\ Len(r.selected_names) = Cardinality(t.required_names)
  /\ r.no_load = t.no_load
  /\ ~t.no_load => r.selected_names[1] = t.expected_top
=============================================================================
