---------------------------- MODULE ClaudeScoring ----------------------------
(***************************************************************************)
(* How scripts/run_gate6_claude_code.py scores one run of Claude Code.     *)
(* The stream is one of tool uses, the blocks of assistant events, and of  *)
(* their results, the blocks of user events.  A use is identified by its   *)
(* position, as its id does; the recorded streams have one block an event. *)
(* Unlike its Codex counterpart, score_run asks of a load that it was      *)
(* issued after the search and has a result: neither that the search had   *)
(* ended by then nor what the result of the load says.                     *)
(***************************************************************************)
EXTENDS Gate6Answer, FiniteSetsExt

CONSTANT Matches   \* the match lists a search can return: SUBSET Seq(Name)

\* foreign: any tool the run was not given.  apt: the arguments of a search
\* are the task's query and limit 5, those of a load are an object.  matches: of the result of a search; a
\* result that is not structured has none.
Tool == {"search_skills", "load_skill", "ToolSearch", "StructuredOutput", "foreign"}

Block == [ type : {"tool_use", "tool_result"}, tool : Tool, name : Name \cup {NoName},
           apt : BOOLEAN, use : Nat, matches : Matches \cup {<<>>} ]

Use(tool, name, apt) ==
  [ type |-> "tool_use", tool |-> tool, name |-> name, apt |-> apt, use |-> 0,
    matches |-> <<>> ]

Result(stream, i, matches) ==
  [ type |-> "tool_result", tool |-> stream[i].tool, name |-> stream[i].name,
    apt |-> TRUE, use |-> i, matches |-> matches ]

assistant_tool_uses(stream) == {i \in DOMAIN stream : stream[i].type = "tool_use"}

tool_results_by_use_id(stream, i) ==
  {j \in DOMAIN stream : stream[j].type = "tool_result" /\ stream[j].use = i}

mcp_calls(stream, tool) ==
  {i \in assistant_tool_uses(stream) : stream[i].tool = tool}

\* A load whose arguments are no object names nothing and is passed over.
named_loads(stream) == {i \in mcp_calls(stream, "load_skill") : stream[i].apt}

\* Mutant: ToolSearch, with which the client resolves the tools, is not known.
non_skillloader_tool_uses_NoToolSearch(stream, m) ==
  LET allowed == {"StructuredOutput"}
        \cup IF m = "skillloader" THEN {"search_skills", "load_skill"} ELSE {}
  IN  {i \in assistant_tool_uses(stream) : stream[i].tool \notin allowed}

non_skillloader_tool_uses(stream, m) ==
  LET allowed == {"StructuredOutput"}
        \cup IF m = "skillloader" THEN {"ToolSearch", "search_skills", "load_skill"} ELSE {}
  IN  {i \in assistant_tool_uses(stream) : stream[i].tool \notin allowed}

\* Of the first search; the last result of a use counts.
search_names(stream) ==
  LET searches == mcp_calls(stream, "search_skills")
      results == tool_results_by_use_id(stream, Min(searches))
  IN  IF searches = {} \/ results = {} THEN <<>> ELSE stream[Max(results)].matches

\* Mutant: a call that was cut off is taken for one that has its result.
results_present_Issued(stream, calls) == TRUE

results_present(stream, calls) ==
  \A i \in calls : tool_results_by_use_id(stream, i) # {}

tool_sequence_ok(m, stream) ==
  LET searches == mcp_calls(stream, "search_skills")
      loads == mcp_calls(stream, "load_skill")
  IN  /\ non_skillloader_tool_uses(stream, m) = {}
      /\ m = "skillloader" =>
           /\ Cardinality(searches) = 1
           /\ \A i \in loads : i > Min(searches)
           /\ \A i \in named_loads(stream) : stream[i].name \in NamesIn(search_names(stream))
           /\ \A i \in searches : stream[i].apt
           /\ results_present(stream, searches \cup loads)

score_run(m, t, stream, r) ==
  LET answer == answer_score(m, t, r, [i \in named_loads(stream) |-> stream[i].name])
      routing_failure == r = None \/ ~tool_sequence_ok(m, stream)
  IN  [ routing_failure |-> routing_failure,
        top_five_recall |->
          IF m = "eager" \/ t.expected_top = NoName THEN None
          ELSE t.expected_top \in NamesIn(search_names(stream)),
        task_success |-> task_success(answer, routing_failure) ]

-----------------------------------------------------------------------------
\* What a successful run is: the right answer, and, with SkillLoader, one apt
\* search that ended and offered every required skill, one load of each that
\* was issued after it and ended, and no tool of another kind.  A load that
\* names nothing is let pass, if it was issued after the search and ended.
Earned(m, t, stream, r) ==
  LET uses == assistant_tool_uses(stream)
      Ended(i) == \E j \in DOMAIN stream : j > i /\ stream[j].use = i
      Loads(i, n) ==
        stream[i].tool = "load_skill" /\ stream[i].apt /\ stream[i].name = n
  IN  /\ RightAnswer(t, r)
      /\ \A i \in uses : stream[i].tool # "foreign"
      /\ m = "eager" => \A i \in uses : stream[i].tool = "StructuredOutput"
      /\ m = "skillloader" =>
           \E s \in uses :
             /\ stream[s].tool = "search_skills" /\ stream[s].apt /\ Ended(s)
             /\ \A i \in uses \ {s} : stream[i].tool # "search_skills"
             /\ \A n \in t.required_names : \E i \in uses :
                  /\ i > s /\ Loads(i, n) /\ Ended(i)
                  /\ \A k \in uses \ {i} : ~Loads(k, n)
                  /\ \E j \in DOMAIN stream :
                       stream[j].use = s /\ n \in NamesIn(stream[j].matches)
             /\ \A i \in uses : stream[i].tool = "load_skill" =>
                  IF stream[i].apt THEN stream[i].name \in t.required_names
                                   ELSE i > s /\ Ended(i)
=============================================================================
