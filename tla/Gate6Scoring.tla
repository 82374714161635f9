---------------------------- MODULE Gate6Scoring ----------------------------
(***************************************************************************)
(* How the Gate 6 runner (scripts/run_gate6_codex.py) scores one run of    *)
(* the Codex client from the events it printed (score_run).  The client is *)
(* outside the repository: it starts and completes tool calls in any order *)
(* its model likes, several at a time, and may be cut off by the timeout   *)
(* at any point; a bounded number of events may besides be anything at all *)
(* (repeated, without their counterpart, in the wrong order).              *)
(*                                                                         *)
(* What the schema checks of a result come to is one value, its outcome.   *)
(***************************************************************************)
EXTENDS Gate6Answer, FiniteSetsExt

CONSTANTS
  CallId,     \* item ids
  Matches,    \* the match lists a search can return: SUBSET Seq(Name)
  MaxEvents,  \* [mode -> Nat]: bound on the length of the stream
  MaxOdd,     \* bound on the events that do not fit the calls
  MaxOddEvents \* bound on the length of a stream that has such events

ASSUME BoundAssumption ==
  /\ MaxEvents \in [Mode -> Nat]
  /\ MaxOdd \in Nat
  /\ MaxOddEvents \in Nat

VARIABLES
  mode,      \* "eager" or "skillloader"
  task,
  events,    \* the stream so far
  odd,       \* how many events of it fit no call
  response,  \* final_response: the last structured message, or None
  score      \* what score_run returned, or None

vars == <<mode, task, events, odd, response, score>>

\* ok: the result passes the checks; invalid: it does not; error: nor did the
\* call complete without an error; failed: it did not, with a result that passes
\* them; arguments: a search for something else.
Outcome == {"ok", "invalid", "error", "failed", "arguments"}

Event == [ type : {"item.started", "item.completed"},
           tool : {"search_skills", "load_skill", "command"},
           id : CallId, name : Name \cup {NoName}, matches : Matches \cup {<<>>},
           outcome : Outcome ]

Started(tool, id, name) ==
  [ type |-> "item.started", tool |-> tool, id |-> id, name |-> name,
    matches |-> <<>>, outcome |-> "ok" ]

Completed(tool, id, name, matches, outcome) ==
  [ type |-> "item.completed", tool |-> tool, id |-> id, name |-> name,
    matches |-> matches, outcome |-> outcome ]

-----------------------------------------------------------------------------
(* score_run *)

\* tool_call_events: positions in the stream.
At(stream, type, tool) ==
  {i \in DOMAIN stream : stream[i].type = type /\ stream[i].tool = tool}

completed_tool_calls(stream, tool) == At(stream, "item.completed", tool)

\* item_is_allowed, over the stream.
unexpected_action_events(stream, m) ==
  {i \in DOMAIN stream : m = "eager" \/ stream[i].tool = "command"}

\* Mutant: the order of a start and its completion is not looked at.
matching_call_ids_Unordered(stream, starts, completions) ==
  /\ \A i, j \in starts : stream[i].id = stream[j].id => i = j
  /\ \A i, j \in completions : stream[i].id = stream[j].id => i = j
  /\ {stream[i].id : i \in starts} = {stream[i].id : i \in completions}

\* Mutant: the first completion must be that of the first start, and so on.
matching_call_ids_Paired(stream, starts, completions) ==
  /\ Cardinality(starts) = Cardinality(completions)
  /\ \A i \in starts, j \in completions :
       Cardinality({k \in starts : k < i}) = Cardinality({k \in completions : k < j})
         => stream[i].id = stream[j].id /\ i < j

matching_call_ids(stream, starts, completions) ==
  /\ \A i, j \in starts : stream[i].id = stream[j].id => i = j
  /\ \A i, j \in completions : stream[i].id = stream[j].id => i = j
  /\ {stream[i].id : i \in starts} = {stream[i].id : i \in completions}
  /\ \A i \in starts, j \in completions : stream[i].id = stream[j].id => i < j

\* Of the first search that completed.
search_names(stream) ==
  LET searches == completed_tool_calls(stream, "search_skills")
  IN  IF searches = {} THEN <<>> ELSE stream[Min(searches)].matches

tool_sequence_ok(m, stream) ==
  LET searches == completed_tool_calls(stream, "search_skills")
      loads == completed_tool_calls(stream, "load_skill")
      searchStarts == At(stream, "item.started", "search_skills")
      searchEnds == At(stream, "item.completed", "search_skills")
      loadStarts == At(stream, "item.started", "load_skill")
      loadEnds == At(stream, "item.completed", "load_skill")
  IN  /\ unexpected_action_events(stream, m) = {}
      /\ m = "skillloader" =>
           /\ Cardinality(searchStarts) = 1
           /\ Cardinality(searchEnds) = 1
           /\ matching_call_ids(stream, searchStarts, searchEnds)
           /\ Cardinality(loadStarts) = Cardinality(loadEnds)
           /\ matching_call_ids(stream, loadStarts, loadEnds)
           /\ \A i \in loadStarts : \E j \in searchEnds :
                j < i /\ \A k \in searchEnds : j <= k
           /\ \A i \in loads : stream[i].name \in NamesIn(search_names(stream))
           /\ \A i \in searches \cup loads : stream[i].outcome = "ok"

\* Mutant: instructions_exact is taken for a truth value, as Python would.
required_instruction_set_applied_Truthy(t, exact, applied, rest) ==
  IF exact = None THEN None ELSE exact /\ rest

\* selected_instructions_exact is None when nothing was selected.
required_instruction_set_applied(t, exact, applied, rest) ==
  IF t.load_count > 0 THEN exact # None /\ exact /\ rest ELSE applied /\ rest

score_run(m, t, stream, r) ==
  LET loads == completed_tool_calls(stream, "load_skill")
      calls == completed_tool_calls(stream, "search_skills") \cup loads
      loaded == [i \in loads |-> stream[i].name]
      answer == answer_score(m, t, r, loaded)
      load_results_valid ==
        m = "eager" \/ \A i \in loads : stream[i].outcome \in {"ok", "failed"}
      tool_errors == \E i \in calls : stream[i].outcome \in {"error", "failed"}
      instructions_exact ==
        IF answer.selected = <<>> THEN None
        ELSE answer.applied /\ load_results_valid
      routing_failure == r = None \/ tool_errors \/ ~tool_sequence_ok(m, stream)
  IN  [ incorrect_load |-> answer.incorrect_load,
        no_load_correct |-> answer.no_load_correct,
        routing_failure |-> routing_failure,
        selected_instructions_exact |-> instructions_exact,
        required_instruction_set_applied |->
          required_instruction_set_applied(t, instructions_exact, answer.applied,
            /\ answer.required_skill_set_correct
            /\ IF t.load_count > 0 THEN answer.reported_matches_calls
               ELSE answer.no_load_correct /\ answer.response_shape_ok),
        task_success |-> task_success(answer, routing_failure) ]

-----------------------------------------------------------------------------
(* The client *)

Init ==
  /\ mode \in Mode
  /\ task \in Task
  /\ events = <<>>
  /\ odd = 0
  /\ response = None
  /\ score = None

Running == score = None

Emit(e) ==
  /\ Running
  /\ Len(events) < IF odd' = 0 THEN MaxEvents[mode] ELSE MaxOddEvents
  /\ events' = Append(events, e)
  /\ UNCHANGED <<mode, task, response, score>>

AnyMatches == CHOOSE m \in Matches : TRUE

StartedIds == {events[i].id : i \in {j \in DOMAIN events : events[j].type = "item.started"}}

\* A call starts under an id of its own.
StartCall ==
  /\ UNCHANGED odd
  /\ \E id \in CallId \ StartedIds, n \in Name :
       \/ Emit(Started("search_skills", id, NoName))
       \/ Emit(Started("load_skill", id, n))
       \/ Emit(Started("command", id, NoName))

\* A call that started ends, once.
CompleteCall ==
  /\ UNCHANGED odd
  /\ \E i \in DOMAIN events, matches \in Matches, outcome \in Outcome :
       /\ events[i].type = "item.started"
       /\ \A j \in DOMAIN events : j # i => events[j].id # events[i].id
       /\ Emit(Completed(events[i].tool, events[i].id, events[i].name,
                         IF events[i].tool = "search_skills" THEN matches ELSE <<>>,
                         outcome))
       /\ outcome = "arguments" => events[i].tool = "search_skills"
       /\ events[i].tool = "command" => outcome = "ok"
       /\ events[i].tool # "search_skills" \/ outcome # "ok" => matches = AnyMatches

\* An event repeated, or without its counterpart, or before it.
OddEvent ==
  /\ odd < MaxOdd
  /\ odd' = odd + 1
  /\ \E id \in CallId, n \in Name, matches \in Matches :
       \/ Emit(Started("search_skills", id, NoName))
       \/ Emit(Started("load_skill", id, n))
       \/ Emit(Completed("search_skills", id, NoName, matches, "ok"))
       \/ Emit(Completed("load_skill", id, n, <<>>, "ok"))

\* The process ends or is killed by the timeout: run_codex scores what it
\* printed, with the last structured message if there was one.
run_codex ==
  /\ Running
  /\ \E r \in Answer \cup {None} :
       /\ response' = r
       /\ score' = score_run(mode, task, events, r)
  /\ UNCHANGED <<mode, task, events, odd>>

Next == StartCall \/ CompleteCall \/ OddEvent \/ run_codex

Spec == Init /\ [][Next]_vars
-----------------------------------------------------------------------------
(* Properties *)

TypeOK ==
  /\ mode \in Mode
  /\ task \in Task
  /\ events \in Seq(Event)
  /\ odd \in 0 .. MaxOdd
  /\ score # None =>
       /\ score.selected_instructions_exact \in BOOLEAN \cup {None}
       /\ \A f \in DOMAIN score \ {"selected_instructions_exact"} : score[f] \in BOOLEAN

\* The stream is one good search, then a good load of each required skill that
\* the search offered, each complete, and nothing else.
Routed ==
  /\ Len(events) = 2 + 2 * task.load_count
  /\ events[1].type = "item.started"
  /\ events[2] \in [ type : {"item.completed"}, tool : {"search_skills"},
                     id : {events[1].id}, name : {NoName}, matches : Matches,
                     outcome : {"ok"} ]
  /\ events[1].tool = "search_skills"
  /\ task.required_names \subseteq NamesIn(events[2].matches)
  /\ \A n \in task.required_names : \E i, j \in 3 .. Len(events) :
       /\ i < j
       /\ events[i].type = "item.started" /\ events[i].tool = "load_skill"
       /\ events[j].type = "item.completed" /\ events[j].tool = "load_skill"
       /\ events[i].id = events[j].id
       /\ events[j].name = n
       /\ events[j].outcome = "ok"
       /\ \A k \in 3 .. Len(events) : events[k].id = events[i].id => k \in {i, j}

\* A run counts as a success only if it was one: no event stream, whatever was
\* repeated, reordered or cut off, earns task_success with an answer the client
\* did not route through one search and the loads of the required skills.
SuccessIsEarned ==
  score # None /\ score.task_success =>
    RightAnswer(task, response) /\ IF mode = "eager" THEN events = <<>> ELSE Routed

\* And every such run counts, in whatever order parallel loads complete.
EarnedIsSuccess ==
  score # None /\ RightAnswer(task, response) /\ (IF mode = "eager" THEN events = <<>> ELSE Routed) =>
    score.task_success
=============================================================================
