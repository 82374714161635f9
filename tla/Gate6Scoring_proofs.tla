------------------------- MODULE Gate6Scoring_proofs -------------------------
(***************************************************************************)
(* A run of Codex is scored a success exactly when it was one, for any     *)
(* tasks and answers and streams of any length, whatever is odd in them    *)
(* and wherever they are cut off.                                          *)
(*                                                                         *)
(* What tool_sequence_ok asks of sets of events, that their ids agree and  *)
(* that starts come before completions, fixes the whole stream: the search *)
(* is its first two events (SuccessRouted).  Conversely the events that    *)
(* Routed asks for are as many as there are, so there are no others        *)
(* (RoutedCovers) and the sets are known (RoutedScored).                   *)
(***************************************************************************)
EXTENDS Gate6Scoring, Gate6Answer_proofs

\* What every event has: a search names no skill, a load names one.
EventOk(e) ==
  /\ e.tool = "search_skills" =>
       /\ e.name = NoName
       /\ e.type = "item.completed" => e.matches \in Matches
  /\ e.tool = "load_skill" => e.name \in Name

StreamOk(stream) == \A i \in DOMAIN stream : EventOk(stream[i])

IInv ==
  /\ mode \in Mode
  /\ task \in Task
  /\ events \in Seq(Event)
  /\ odd \in 0 .. MaxOdd
  /\ StreamOk(events)
  /\ score # None =>
       /\ response \in Answer \cup {None}
       /\ score = score_run(mode, task, events, response)

-----------------------------------------------------------------------------
(* The client prints such events only, and a score is that of what it      *)
(* printed, because nothing is printed after it.                           *)

LEMMA EmitKeeps ==
  ASSUME IInv, NEW e \in Event, EventOk(e), Emit(e), odd' \in 0 .. MaxOdd
  PROVE  IInv'
<1>1. /\ events' = Append(events, e) /\ score = None
      /\ UNCHANGED <<mode, task, response, score>>
  BY DEF Emit, Running
<1>2. events \in Seq(Event) /\ StreamOk(events)
  BY DEF IInv
<1>3. events' \in Seq(Event)
  BY <1>1, <1>2
<1>4. /\ DOMAIN events' = DOMAIN events \cup {Len(events) + 1}
      /\ events'[Len(events) + 1] = e
      /\ \A i \in DOMAIN events : events'[i] = events[i]
  BY <1>1, <1>2
<1>5. StreamOk(events')
  BY <1>2, <1>4 DEF StreamOk
<1> QED
  BY <1>1, <1>3, <1>5 DEF IInv

LEMMA StartMade ==
  ASSUME NEW id \in CallId, NEW n \in Name
  PROVE  /\ \A tool \in {"search_skills", "command"} :
              Started(tool, id, NoName) \in Event /\ EventOk(Started(tool, id, NoName))
         /\ Started("load_skill", id, n) \in Event /\ EventOk(Started("load_skill", id, n))
BY DEF Started, Event, EventOk, Outcome

LEMMA CompletionMade ==
  ASSUME NEW id \in CallId, NEW n \in Name, NEW matches \in Matches
  PROVE  /\ LET e == Completed("search_skills", id, NoName, matches, "ok")
            IN  e \in Event /\ EventOk(e)
         /\ LET e == Completed("load_skill", id, n, <<>>, "ok")
            IN  e \in Event /\ EventOk(e)
BY DEF Completed, Event, EventOk, Outcome

LEMMA StartKeeps == IInv /\ StartCall => IInv'
<1> SUFFICES ASSUME IInv, StartCall PROVE IInv'
  OBVIOUS
<1>1. odd' \in 0 .. MaxOdd
  BY DEF StartCall, IInv
<1>2. PICK id \in CallId, n \in Name :
        \/ Emit(Started("search_skills", id, NoName))
        \/ Emit(Started("load_skill", id, n))
        \/ Emit(Started("command", id, NoName))
  BY DEF StartCall
<1> QED
  BY <1>1, <1>2, StartMade, EmitKeeps

LEMMA CompleteKeeps == IInv /\ CompleteCall => IInv'
<1> SUFFICES ASSUME IInv, CompleteCall PROVE IInv'
  OBVIOUS
<1>1. odd' \in 0 .. MaxOdd
  BY DEF CompleteCall, IInv
<1>2. PICK i \in DOMAIN events, matches \in Matches, outcome \in Outcome :
        Emit(Completed(events[i].tool, events[i].id, events[i].name,
                       IF events[i].tool = "search_skills" THEN matches ELSE <<>>,
                       outcome))
  BY DEF CompleteCall
<1> DEFINE e == Completed(events[i].tool, events[i].id, events[i].name,
                          IF events[i].tool = "search_skills" THEN matches ELSE <<>>,
                          outcome)
<1>3. events[i] \in Event /\ EventOk(events[i])
  BY DEF IInv, StreamOk
<1>4. e \in Event
  BY <1>3 DEF Completed, Event
<1>5. EventOk(e)
  BY <1>3 DEF Completed, EventOk
<1> QED
  BY <1>1, <1>2, <1>4, <1>5, EmitKeeps

LEMMA OddKeeps == IInv /\ OddEvent => IInv'
<1> SUFFICES ASSUME IInv, OddEvent PROVE IInv'
  OBVIOUS
<1>1. odd' \in 0 .. MaxOdd
  BY BoundAssumption DEF OddEvent, IInv
<1>2. PICK id \in CallId, n \in Name, matches \in Matches :
        \/ Emit(Started("search_skills", id, NoName))
        \/ Emit(Started("load_skill", id, n))
        \/ Emit(Completed("search_skills", id, NoName, matches, "ok"))
        \/ Emit(Completed("load_skill", id, n, <<>>, "ok"))
  BY DEF OddEvent
<1> QED
  BY <1>1, <1>2, StartMade, CompletionMade, EmitKeeps

LEMMA StepsKeep == IInv /\ [Next]_vars => IInv'
<1> SUFFICES ASSUME IInv, [Next]_vars PROVE IInv'
  OBVIOUS
<1>1. CASE StartCall
  BY <1>1, StartKeeps
<1>2. CASE CompleteCall
  BY <1>2, CompleteKeeps
<1>3. CASE OddEvent
  BY <1>3, OddKeeps
<1>4. CASE run_codex
  <2>1. /\ UNCHANGED <<mode, task, events, odd>>
        /\ response' \in Answer \cup {None}
        /\ score' = score_run(mode, task, events, response')
    BY <1>4 DEF run_codex
  <2> QED
    BY <2>1 DEF IInv
<1>5. CASE UNCHANGED vars
  BY <1>5 DEF vars, IInv
<1> QED
  BY <1>1, <1>2, <1>3, <1>4, <1>5 DEF Next

LEMMA Always == Spec => []IInv
<1>1. Init => IInv
  BY BoundAssumption DEF Init, IInv, StreamOk
<1> QED
  BY <1>1, StepsKeep, PTL DEF Spec

\* The stream keeps its type, and a score is one whatever was printed.
THEOREM TypeCorrect == Spec => []TypeOK
<1>1. IInv => TypeOK
  <2> SUFFICES ASSUME IInv PROVE TypeOK
    OBVIOUS
  <2>1. ASSUME score # None
        PROVE  /\ score.selected_instructions_exact \in BOOLEAN \cup {None}
               /\ \A f \in DOMAIN score \ {"selected_instructions_exact"} : score[f] \in BOOLEAN
    <3>1. score = score_run(mode, task, events, response)
      BY <2>1 DEF IInv
    <3>2. \A m, t, r, loaded :
            /\ answer_score(m, t, r, loaded).incorrect_load \in BOOLEAN
            /\ answer_score(m, t, r, loaded).no_load_correct \in BOOLEAN
      BY DEF answer_score
    <3>3. /\ score.incorrect_load \in BOOLEAN /\ score.no_load_correct \in BOOLEAN
          /\ score.routing_failure \in BOOLEAN
      BY <3>1, <3>2 DEF score_run
    <3>4. score.task_success \in BOOLEAN
      BY <3>1 DEF score_run, task_success
    <3>5. score.selected_instructions_exact \in BOOLEAN \cup {None}
      BY <3>1 DEF score_run
    <3>6. score.required_instruction_set_applied \in BOOLEAN
      BY <3>1 DEF score_run, required_instruction_set_applied
    <3>7. DOMAIN score = {"incorrect_load", "no_load_correct", "routing_failure",
                          "selected_instructions_exact", "required_instruction_set_applied",
                          "task_success"}
      BY <3>1 DEF score_run
    <3> QED
      BY <3>3, <3>4, <3>5, <3>6, <3>7
  <2> QED
    BY <2>1 DEF IInv, TypeOK
<1> QED
  BY <1>1, Always, PTL

-----------------------------------------------------------------------------
(* The stream of a successful run *)

loads == completed_tool_calls(events, "load_skill")
loaded == [i \in loads |-> events[i].name]

SearchStarts == At(events, "item.started", "search_skills")
SearchEnds == At(events, "item.completed", "search_skills")
LoadStarts == At(events, "item.started", "load_skill")
LoadEnds == At(events, "item.completed", "load_skill")

\* What tool_sequence_ok says of the sets of events with SkillLoader.
LEMMA SequenceIs ==
  ASSUME mode = "skillloader"
  PROVE  tool_sequence_ok(mode, events) <=>
           /\ \A i \in DOMAIN events : events[i].tool # "command"
           /\ Cardinality(SearchStarts) = 1 /\ Cardinality(SearchEnds) = 1
           /\ matching_call_ids(events, SearchStarts, SearchEnds)
           /\ Cardinality(LoadStarts) = Cardinality(LoadEnds)
           /\ matching_call_ids(events, LoadStarts, LoadEnds)
           /\ \A i \in LoadStarts : \E j \in SearchEnds : j < i /\ \A k \in SearchEnds : j <= k
           /\ \A i \in LoadEnds : events[i].name \in NamesIn(search_names(events))
           /\ \A i \in SearchEnds \cup LoadEnds : events[i].outcome = "ok"
<1>1. unexpected_action_events(events, mode) = {}
        <=> \A i \in DOMAIN events : events[i].tool # "command"
  BY DEF unexpected_action_events
<1> QED
  BY <1>1 DEF tool_sequence_ok, completed_tool_calls, SearchStarts, SearchEnds, LoadStarts, LoadEnds

\* Every event but those of commands is in one of the four sets.
LEMMA EventsParted ==
  ASSUME events \in Seq(Event)
  PROVE  /\ DOMAIN events = 1 .. Len(events) /\ Len(events) \in Nat
         /\ \A i \in DOMAIN events :
              \/ i \in SearchStarts \/ i \in SearchEnds \/ i \in LoadStarts \/ i \in LoadEnds
              \/ events[i].tool = "command"
         /\ \A S \in {SearchStarts, SearchEnds, LoadStarts, LoadEnds} :
              S \subseteq 1 .. Len(events) /\ IsFiniteSet(S)
         /\ SearchStarts \cap SearchEnds = {} /\ LoadStarts \cap LoadEnds = {}
         /\ (SearchStarts \cup SearchEnds) \cap (LoadStarts \cup LoadEnds) = {}
<1>1. DOMAIN events = 1 .. Len(events) /\ Len(events) \in Nat
  OBVIOUS
<1>2. \A i \in DOMAIN events : events[i] \in Event
  OBVIOUS
<1>3. \A i \in DOMAIN events : /\ events[i].type \in {"item.started", "item.completed"}
                               /\ events[i].tool \in {"search_skills", "load_skill", "command"}
  BY <1>2 DEF Event
<1>4. IsFiniteSet(1 .. Len(events))
  BY <1>1, FS_Interval
<1>5. ASSUME NEW S \in {SearchStarts, SearchEnds, LoadStarts, LoadEnds}
      PROVE  S \subseteq 1 .. Len(events) /\ IsFiniteSet(S)
  <2>1. S \subseteq 1 .. Len(events)
    BY <1>1 DEF At, SearchStarts, SearchEnds, LoadStarts, LoadEnds
  <2>2. S \in SUBSET (1 .. Len(events))
    BY <2>1, Zenon
  <2>3. IsFiniteSet(S)
    BY <1>4, <2>2, FS_Subset, Zenon
  <2> QED
    BY <2>1, <2>3
<1>6. \A i \in DOMAIN events :
        \/ i \in SearchStarts \/ i \in SearchEnds \/ i \in LoadStarts \/ i \in LoadEnds
        \/ events[i].tool = "command"
  BY <1>3 DEF At, SearchStarts, SearchEnds, LoadStarts, LoadEnds
<1>7. /\ SearchStarts \cap SearchEnds = {} /\ LoadStarts \cap LoadEnds = {}
      /\ (SearchStarts \cup SearchEnds) \cap (LoadStarts \cup LoadEnds) = {}
  BY DEF At, SearchStarts, SearchEnds, LoadStarts, LoadEnds
<1> QED
  BY <1>1, <1>5, <1>6, <1>7

LEMMA OneOf ==
  ASSUME NEW x \in Nat
  PROVE  Min({x}) = x
BY DEF Min

\* The matches of the only search that completed.
LEMMA SearchOffers ==
  ASSUME NEW e \in Nat, SearchEnds = {e}
  PROVE  search_names(events) = events[e].matches
BY OneOf DEF search_names, completed_tool_calls, SearchEnds

\* A completion of a load has its start before it.
LEMMA LoadBegan ==
  ASSUME matching_call_ids(events, LoadStarts, LoadEnds), NEW j \in LoadEnds
  PROVE  \E i \in LoadStarts : events[i].id = events[j].id /\ i < j
BY DEF matching_call_ids

\* Where each event of a stream is that passes: the search first.
LEMMA SuccessPlaces ==
  ASSUME events \in Seq(Event), mode = "skillloader", tool_sequence_ok(mode, events)
  PROVE  /\ SearchStarts = {1} /\ SearchEnds = {2}
         /\ events[1].id = events[2].id
         /\ \A i \in LoadStarts \cup LoadEnds : i \in 3 .. Len(events)
         /\ \A i \in 3 .. Len(events) : i \in LoadStarts \cup LoadEnds
         /\ 2 <= Len(events)
<1> DEFINE n == Len(events)
<1>1. /\ \A i \in DOMAIN events : events[i].tool # "command"
      /\ Cardinality(SearchStarts) = 1 /\ Cardinality(SearchEnds) = 1
      /\ matching_call_ids(events, SearchStarts, SearchEnds)
      /\ matching_call_ids(events, LoadStarts, LoadEnds)
      /\ \A i \in LoadStarts : \E j \in SearchEnds : j < i
  BY SequenceIs
<1>0. /\ IsFiniteSet(SearchStarts) /\ SearchStarts \subseteq 1 .. n
      /\ IsFiniteSet(SearchEnds) /\ SearchEnds \subseteq 1 .. n
  BY EventsParted
<1>2. PICK s \in 1 .. n : SearchStarts = {s}
  BY <1>0, <1>1, FS_Singleton
<1>3. PICK e \in 1 .. n : SearchEnds = {e}
  BY <1>0, <1>1, FS_Singleton
<1>4. events[s].id = events[e].id /\ s < e
  <2>1. {events[i].id : i \in {s}} = {events[i].id : i \in {e}}
    BY <1>1, <1>2, <1>3 DEF matching_call_ids
  <2>2. events[s].id = events[e].id
    BY <2>1, Zenon
  <2> QED
    BY <1>1, <1>2, <1>3, <2>2 DEF matching_call_ids
<1>5. n \in Nat /\ DOMAIN events = 1 .. n
  BY EventsParted
<1>6. \A i \in LoadStarts : i \in 1 .. n /\ e < i
  BY <1>1, <1>3, EventsParted
<1>7. \A i \in LoadEnds : i \in 1 .. n /\ e < i
  <2> SUFFICES ASSUME NEW i \in LoadEnds PROVE i \in 1 .. n /\ e < i
    OBVIOUS
  <2>1. i \in 1 .. n
    BY EventsParted
  <2>2. PICK k \in LoadStarts : k < i
    BY <1>1, LoadBegan
  <2> QED
    BY <1>6, <2>1, <2>2
<1>8. \A i \in 1 .. n : i = s \/ i = e \/ i \in LoadStarts \cup LoadEnds
  BY <1>1, <1>2, <1>3, EventsParted
<1>9. s = 1
  <2>1. 1 \in 1 .. n
    BY <1>5
  <2> QED
    BY <1>4, <1>5, <1>6, <1>7, <1>8, <2>1
<1>10. e = 2
  <2>1. 2 \in 1 .. n /\ 2 <= e
    BY <1>4, <1>5, <1>9
  <2>2. 2 \notin LoadStarts \cup LoadEnds
    BY <1>6, <1>7, <2>1
  <2> QED
    BY <1>8, <1>9, <2>1, <2>2
<1>11. \A i \in LoadStarts \cup LoadEnds : i \in 3 .. n
  BY <1>5, <1>6, <1>7, <1>10
<1>12. \A i \in 3 .. n : i \in LoadStarts \cup LoadEnds
  BY <1>5, <1>8, <1>9, <1>10
<1> QED
  BY <1>2, <1>3, <1>4, <1>5, <1>9, <1>10, <1>11, <1>12

\* Two disjoint sets fill an interval.
LEMMA Filled ==
  ASSUME NEW n \in Nat, 2 <= n, NEW I, NEW J, IsFiniteSet(I), IsFiniteSet(J),
         I \cap J = {}, I \cup J \subseteq 3 .. n
  PROVE  /\ Cardinality(I) \in Nat /\ Cardinality(J) \in Nat
         /\ n = 2 + Cardinality(I) + Cardinality(J) <=> I \cup J = 3 .. n
<1>1. Cardinality(I) \in Nat /\ Cardinality(J) \in Nat
  BY FS_CardinalityType
<1>2. IsFiniteSet(I \cup J) /\ Cardinality(I \cup J) = Cardinality(I) + Cardinality(J)
  <2>1. Cardinality(I \cap J) = 0
    BY FS_EmptySet
  <2>2. /\ IsFiniteSet(I \cup J)
        /\ Cardinality(I \cup J) = Cardinality(I) + Cardinality(J) - Cardinality(I \cap J)
    BY FS_Union
  <2> QED
    BY <1>1, <2>1, <2>2
<1>3. IsFiniteSet(3 .. n) /\ Cardinality(3 .. n) = n - 2
  BY FS_Interval
<1>4. Cardinality(3 .. n) = Cardinality(I \cup J) => 3 .. n = I \cup J
  <2>1. I \cup J \in SUBSET (3 .. n)
    BY Zenon
  <2> QED
    BY <1>3, <2>1, FS_Subset, Zenon
<1>5. Cardinality(I) + Cardinality(J) = n - 2 <=> I \cup J = 3 .. n
  <2>1. I \cup J = 3 .. n => Cardinality(I) + Cardinality(J) = n - 2
    BY <1>2, <1>3
  <2>2. Cardinality(I) + Cardinality(J) = n - 2 => I \cup J = 3 .. n
    BY <1>2, <1>3, <1>4
  <2> QED
    BY <2>1, <2>2
<1>6. n = 2 + Cardinality(I) + Cardinality(J) <=> Cardinality(I) + Cardinality(J) = n - 2
  BY <1>1
<1> QED
  BY <1>1, <1>5, <1>6

\* What a stream that passes, with the right names loaded, comes to.
LEMMA SuccessRouted ==
  ASSUME events \in Seq(Event), StreamOk(events), task \in Task, mode = "skillloader",
         tool_sequence_ok(mode, events), LoadedRight(mode, task, loaded)
  PROVE  Routed
<1>1. /\ \A i \in SearchEnds \cup LoadEnds : events[i].outcome = "ok"
      /\ \A i \in LoadEnds : events[i].name \in NamesIn(search_names(events))
      /\ Cardinality(LoadStarts) = Cardinality(LoadEnds)
      /\ matching_call_ids(events, LoadStarts, LoadEnds)
  BY SequenceIs
<1>2. /\ SearchStarts = {1} /\ SearchEnds = {2} /\ events[1].id = events[2].id
      /\ \A i \in LoadStarts \cup LoadEnds : i \in 3 .. Len(events)
      /\ \A i \in 3 .. Len(events) : i \in LoadStarts \cup LoadEnds
      /\ 2 <= Len(events)
  BY SuccessPlaces
<1>3. /\ Len(events) \in Nat /\ DOMAIN events = 1 .. Len(events)
      /\ IsFiniteSet(LoadStarts) /\ IsFiniteSet(LoadEnds) /\ LoadStarts \cap LoadEnds = {}
  BY EventsParted
<1>4. NamesIn(loaded) = task.required_names /\ IsInjective(loaded)
  BY DEF LoadedRight
<1>5. loaded = [i \in LoadEnds |-> events[i].name]
  BY DEF loaded, loads, completed_tool_calls, LoadEnds
<1>6. Cardinality(LoadEnds) = task.load_count
  <2>1. loaded \in [LoadEnds -> {events[i].name : i \in LoadEnds}] /\ DOMAIN loaded = LoadEnds
    BY <1>5
  <2>2. AllDistinct(loaded)
    BY <1>3, <1>4, <2>1, DistinctIsInjective
  <2> QED
    BY <1>4, <2>1, <2>2, FixtureAssumption DEF AllDistinct
<1>7. Len(events) = 2 + 2 * task.load_count
  <2>1. LoadStarts \cup LoadEnds = 3 .. Len(events)
    BY <1>2
  <2>2. /\ Cardinality(LoadEnds) \in Nat
        /\ Len(events) = 2 + Cardinality(LoadStarts) + Cardinality(LoadEnds)
    BY <1>2, <1>3, <2>1, Filled
  <2> QED
    BY <1>1, <1>6, <2>2
<1>8. events[1].type = "item.started" /\ events[1].tool = "search_skills"
  BY <1>2 DEF SearchStarts, At
<1>9. events[2] \in [ type : {"item.completed"}, tool : {"search_skills"},
                      id : {events[1].id}, name : {NoName}, matches : Matches,
                      outcome : {"ok"} ]
  <2>1. 2 \in DOMAIN events /\ events[2].type = "item.completed" /\ events[2].tool = "search_skills"
    BY <1>2 DEF SearchEnds, At
  <2>2. events[2] \in Event /\ EventOk(events[2])
    BY <2>1 DEF StreamOk
  <2>3. events[2].outcome = "ok" /\ events[2].id = events[1].id
    BY <1>1, <1>2
  <2>4. events[2].name = NoName /\ events[2].matches \in Matches
    BY <2>1, <2>2 DEF EventOk
  <2> QED
    BY <2>1, <2>2, <2>3, <2>4 DEF Event
<1>10. task.required_names \subseteq NamesIn(events[2].matches)
  <2>1. search_names(events) = events[2].matches
    BY <1>2, SearchOffers
  <2>2. NamesIn(loaded) = {events[i].name : i \in LoadEnds}
    BY <1>5 DEF NamesIn
  <2> QED
    BY <1>1, <1>4, <2>1, <2>2
<1>11. ASSUME NEW n \in task.required_names
       PROVE  \E i, j \in 3 .. Len(events) :
                /\ i < j
                /\ events[i].type = "item.started" /\ events[i].tool = "load_skill"
                /\ events[j].type = "item.completed" /\ events[j].tool = "load_skill"
                /\ events[i].id = events[j].id
                /\ events[j].name = n
                /\ events[j].outcome = "ok"
                /\ \A k \in 3 .. Len(events) : events[k].id = events[i].id => k \in {i, j}
  <2>1. PICK j \in LoadEnds : events[j].name = n
    BY <1>4, <1>5 DEF NamesIn
  <2>2. PICK i \in LoadStarts : events[i].id = events[j].id /\ i < j
    BY <1>1, LoadBegan
  <2>3. i \in 3 .. Len(events) /\ j \in 3 .. Len(events)
    BY <1>2
  <2>4. \A k \in 3 .. Len(events) : events[k].id = events[i].id => k \in {i, j}
    BY <1>1, <1>2, <2>2 DEF matching_call_ids
  <2>5. /\ events[i].type = "item.started" /\ events[i].tool = "load_skill"
        /\ events[j].type = "item.completed" /\ events[j].tool = "load_skill"
        /\ events[j].outcome = "ok"
    BY <1>1 DEF At, LoadStarts, LoadEnds
  <2> QED
    BY <2>1, <2>2, <2>3, <2>4, <2>5
<1> QED
  BY <1>7, <1>8, <1>9, <1>10, <1>11 DEF Routed

-----------------------------------------------------------------------------
(* What passes *)

\* The load of n that Routed asks for: it starts at i and completes at j.
IsLoad(n, i, j) ==
  /\ i \in 3 .. Len(events) /\ j \in 3 .. Len(events) /\ i < j
  /\ events[i].type = "item.started" /\ events[i].tool = "load_skill"
  /\ events[j].type = "item.completed" /\ events[j].tool = "load_skill"
  /\ events[i].id = events[j].id
  /\ events[j].name = n
  /\ events[j].outcome = "ok"
  /\ \A k \in 3 .. Len(events) : events[k].id = events[i].id => k \in {i, j}

\* Of the start and the completion of a load, each determines the other and
\* the skill.
LEMMA LoadsApart ==
  ASSUME NEW n, NEW i, NEW j, IsLoad(n, i, j), NEW m, NEW k, NEW l, IsLoad(m, k, l),
         events[i].id = events[k].id
  PROVE  i = k /\ j = l /\ n = m
<1>1. k \in {i, j} /\ l \in {i, j}
  BY DEF IsLoad
<1>2. events[k].type # events[j].type /\ events[l].type # events[i].type
  BY DEF IsLoad
<1>3. k = i /\ l = j
  BY <1>1, <1>2
<1> QED
  BY <1>3 DEF IsLoad

LEMMA RoutedLoads ==
  ASSUME Routed
  PROVE  \E st, en \in [task.required_names -> 3 .. Len(events)] :
           \A n \in task.required_names : IsLoad(n, st[n], en[n])
<1> DEFINE req == task.required_names
<1> DEFINE st == [n \in req |-> CHOOSE i \in 3 .. Len(events) : \E j : IsLoad(n, i, j)]
<1> DEFINE en == [n \in req |-> CHOOSE j \in 3 .. Len(events) : IsLoad(n, st[n], j)]
<1>1. \A n \in req : \E i, j \in 3 .. Len(events) : IsLoad(n, i, j)
  BY DEF Routed, IsLoad
<1>2. ASSUME NEW n \in req
      PROVE  st[n] \in 3 .. Len(events) /\ \E j \in 3 .. Len(events) : IsLoad(n, st[n], j)
  <2>1. \E i \in 3 .. Len(events) : \E j : IsLoad(n, i, j)
    BY <1>1
  <2>2. st[n] \in 3 .. Len(events) /\ \E j : IsLoad(n, st[n], j)
    BY <2>1
  <2> QED
    BY <2>2 DEF IsLoad
<1>3. ASSUME NEW n \in req
      PROVE  en[n] \in 3 .. Len(events) /\ IsLoad(n, st[n], en[n])
  <2> HIDE DEF st
  <2> QED
    BY <1>2
<1>4. st \in [req -> 3 .. Len(events)] /\ en \in [req -> 3 .. Len(events)]
  BY <1>2, <1>3
<1> HIDE DEF st, en
<1> QED
  BY <1>3, <1>4

\* The events Routed asks for are all there are.
LEMMA RoutedCovers ==
  ASSUME events \in Seq(Event), task \in Task, Routed, IsFiniteSet(task.required_names),
         NEW st \in [task.required_names -> 3 .. Len(events)],
         NEW en \in [task.required_names -> 3 .. Len(events)],
         \A n \in task.required_names : IsLoad(n, st[n], en[n])
  PROVE  /\ 2 <= Len(events)
         /\ NamesIn(st) \cup NamesIn(en) = 3 .. Len(events)
         /\ SearchStarts = {1} /\ SearchEnds = {2}
         /\ LoadStarts = NamesIn(st) /\ LoadEnds = NamesIn(en)
         /\ Cardinality(LoadStarts) = Cardinality(LoadEnds)
<1> DEFINE req == task.required_names
<1>1. /\ task.load_count = Cardinality(req) /\ Cardinality(req) \in Nat
  BY FixtureAssumption, FS_CardinalityType
<1>2. Len(events) = 2 + Cardinality(req) + Cardinality(req) /\ Len(events) \in Nat
      /\ 2 <= Len(events)
  BY <1>1 DEF Routed
<1>3. IsInjective(st) /\ IsInjective(en)
  <2>1. \A n, m \in req : events[st[n]].id = events[st[m]].id => n = m
    BY LoadsApart
  <2>2. \A n, m \in req : st[n] = st[m] => n = m
    BY <2>1
  <2>3. \A n \in req : events[en[n]].name = n
    BY DEF IsLoad
  <2>4. \A n, m \in req : en[n] = en[m] => n = m
    BY <2>3
  <2>5. DOMAIN st = req /\ DOMAIN en = req
    OBVIOUS
  <2> QED
    BY <2>2, <2>4, <2>5, Zenon DEF IsInjective
<1>4. Cardinality(NamesIn(st)) = Cardinality(req) /\ Cardinality(NamesIn(en)) = Cardinality(req)
  <2>1. AllDistinct(st) /\ AllDistinct(en)
    BY <1>3, DistinctIsInjective
  <2> QED
    BY <2>1 DEF AllDistinct
<1>5. /\ NamesIn(st) \subseteq 3 .. Len(events) /\ NamesIn(en) \subseteq 3 .. Len(events)
      /\ \A i \in NamesIn(st) : events[i].type = "item.started" /\ events[i].tool = "load_skill"
      /\ \A i \in NamesIn(en) : events[i].type = "item.completed" /\ events[i].tool = "load_skill"
  BY DEF NamesIn, IsLoad
<1>6. IsFiniteSet(NamesIn(st)) /\ IsFiniteSet(NamesIn(en))
  <2>1. IsFiniteSet(3 .. Len(events))
    BY <1>2, FS_Interval
  <2>2. NamesIn(st) \in SUBSET (3 .. Len(events)) /\ NamesIn(en) \in SUBSET (3 .. Len(events))
    BY <1>5, Zenon
  <2> QED
    BY <2>1, <2>2, FS_Subset, Zenon
<1>7. NamesIn(st) \cup NamesIn(en) = 3 .. Len(events)
  <2> DEFINE I == NamesIn(st)
  <2> DEFINE J == NamesIn(en)
  <2>1. I \cap J = {} /\ I \cup J \subseteq 3 .. Len(events)
    BY <1>5
  <2>2. IsFiniteSet(I) /\ IsFiniteSet(J) /\ Len(events) = 2 + Cardinality(I) + Cardinality(J)
    BY <1>2, <1>4, <1>6
  <2> HIDE DEF I, J
  <2>3. I \cup J = 3 .. Len(events)
    BY <1>2, <2>1, <2>2, Filled
  <2> QED
    BY <2>3 DEF I, J
<1>8. DOMAIN events = 1 .. Len(events)
  OBVIOUS
<1>9. /\ \A i \in DOMAIN events : i = 1 \/ i = 2 \/ i \in NamesIn(st) \/ i \in NamesIn(en)
      /\ 1 \in DOMAIN events /\ 2 \in DOMAIN events
  BY <1>2, <1>7, <1>8
<1>10. /\ events[1].type = "item.started" /\ events[1].tool = "search_skills"
       /\ events[2].type = "item.completed" /\ events[2].tool = "search_skills"
  BY DEF Routed
<1>11. \A i \in NamesIn(st) \cup NamesIn(en) : i \in DOMAIN events
  BY <1>2, <1>5, <1>8
<1>12. /\ SearchStarts = {1} /\ SearchEnds = {2}
       /\ LoadStarts = NamesIn(st) /\ LoadEnds = NamesIn(en)
  BY <1>5, <1>9, <1>10, <1>11 DEF At, SearchStarts, SearchEnds, LoadStarts, LoadEnds
<1> QED
  BY <1>2, <1>4, <1>7, <1>12

LEMMA RoutedScored ==
  ASSUME events \in Seq(Event), task \in Task, mode = "skillloader", Routed,
         IsFiniteSet(task.required_names)
  PROVE  tool_sequence_ok(mode, events) /\ LoadedRight(mode, task, loaded)
<1> DEFINE req == task.required_names
<1>1. PICK st, en \in [req -> 3 .. Len(events)] : \A n \in req : IsLoad(n, st[n], en[n])
  BY RoutedLoads
<1>2. /\ NamesIn(st) \cup NamesIn(en) = 3 .. Len(events) /\ 2 <= Len(events)
      /\ SearchStarts = {1} /\ SearchEnds = {2}
      /\ LoadStarts = NamesIn(st) /\ LoadEnds = NamesIn(en)
      /\ Cardinality(LoadStarts) = Cardinality(LoadEnds)
  BY <1>1, RoutedCovers
<1>3. /\ \A i \in LoadStarts : \E n \in req : i = st[n]
      /\ \A i \in LoadEnds : \E n \in req : i = en[n]
      /\ \A n \in req : st[n] \in LoadStarts /\ en[n] \in LoadEnds
  BY <1>1, <1>2 DEF NamesIn
<1>4. matching_call_ids(events, LoadStarts, LoadEnds)
  <2>1. \A n, m \in req : events[st[n]].id = events[st[m]].id => st[n] = st[m] /\ en[n] = en[m]
    BY <1>1, LoadsApart
  <2>2. \A n \in req : events[st[n]].id = events[en[n]].id /\ st[n] < en[n]
    BY <1>1 DEF IsLoad
  <2>3. \A i, j \in LoadStarts : events[i].id = events[j].id => i = j
    BY <1>3, <2>1
  <2>4. \A i, j \in LoadEnds : events[i].id = events[j].id => i = j
    BY <1>3, <2>1, <2>2
  <2>5. {events[i].id : i \in LoadStarts} = {events[i].id : i \in LoadEnds}
    <3>1. ASSUME NEW i \in LoadStarts
          PROVE  \E j \in LoadEnds : events[i].id = events[j].id
      <4>1. PICK n \in req : i = st[n]
        BY <1>3, <3>1, Zenon
      <4> QED
        BY <1>3, <2>2, <4>1, Zenon
    <3>2. ASSUME NEW j \in LoadEnds
          PROVE  \E i \in LoadStarts : events[j].id = events[i].id
      <4>1. PICK n \in req : j = en[n]
        BY <1>3, <3>2, Zenon
      <4> QED
        BY <1>3, <2>2, <4>1, Zenon
    <3>3. {events[i].id : i \in LoadStarts} \subseteq {events[i].id : i \in LoadEnds}
      BY <3>1, Zenon
    <3>4. {events[i].id : i \in LoadEnds} \subseteq {events[i].id : i \in LoadStarts}
      BY <3>2, Zenon
    <3> QED
      BY <3>3, <3>4, Zenon
  <2>6. \A i \in LoadStarts, j \in LoadEnds : events[i].id = events[j].id => i < j
    BY <1>3, <2>1, <2>2
  <2> QED
    BY <2>3, <2>4, <2>5, <2>6 DEF matching_call_ids
<1>5. /\ events[2].outcome = "ok" /\ events[2].id = events[1].id
      /\ req \subseteq NamesIn(events[2].matches)
  BY DEF Routed
<1>6. matching_call_ids(events, SearchStarts, SearchEnds)
  BY <1>2, <1>5 DEF matching_call_ids
<1>7. \A i \in DOMAIN events : events[i].tool # "command"
  <2>1. \A i \in DOMAIN events : i = 1 \/ i = 2 \/ i \in NamesIn(st) \cup NamesIn(en)
    BY <1>2
  <2>2. \A i \in SearchStarts \cup SearchEnds \cup LoadStarts \cup LoadEnds :
          events[i].tool # "command"
    BY DEF At, SearchStarts, SearchEnds, LoadStarts, LoadEnds
  <2> QED
    BY <1>2, <2>1, <2>2
<1>8. \A i \in LoadEnds : events[i].outcome = "ok" /\ events[i].name \in req
  BY <1>1, <1>3 DEF IsLoad
<1>9. search_names(events) = events[2].matches
  BY <1>2, SearchOffers
<1>10. \A i \in LoadStarts : i \in 3 .. Len(events)
  BY <1>2
<1>11. tool_sequence_ok(mode, events)
  <2>1. Cardinality(SearchStarts) = 1 /\ Cardinality(SearchEnds) = 1
    BY <1>2, FS_Singleton
  <2>2. \A i \in LoadStarts : \E j \in SearchEnds : j < i /\ \A k \in SearchEnds : j <= k
    BY <1>2, <1>10
  <2>3. \A i \in LoadEnds : events[i].name \in NamesIn(search_names(events))
    BY <1>5, <1>8, <1>9
  <2>4. \A i \in SearchEnds \cup LoadEnds : events[i].outcome = "ok"
    BY <1>2, <1>5, <1>8
  <2> QED
    BY <1>2, <1>4, <1>6, <1>7, <2>1, <2>2, <2>3, <2>4, SequenceIs
<1>12. loaded = [i \in LoadEnds |-> events[i].name]
  BY DEF loaded, loads, completed_tool_calls, LoadEnds
<1>13. NamesIn(loaded) = req
  <2>1. NamesIn(loaded) = {events[i].name : i \in LoadEnds}
    BY <1>12 DEF NamesIn
  <2>2. \A n \in req : en[n] \in LoadEnds /\ events[en[n]].name = n
    BY <1>1, <1>3 DEF IsLoad
  <2>3. \A n \in req : \E i \in LoadEnds : events[i].name = n
    BY <2>2
  <2> QED
    BY <1>8, <2>1, <2>3
<1>14. IsInjective(loaded)
  <2>1. \A n \in req : events[en[n]].name = n
    BY <1>1 DEF IsLoad
  <2>2. \A i, j \in LoadEnds : events[i].name = events[j].name => i = j
    BY <1>3, <2>1
  <2> QED
    BY <1>12, <2>2 DEF IsInjective
<1> QED
  BY <1>11, <1>13, <1>14 DEF LoadedRight

-----------------------------------------------------------------------------
(* What is scored *)

Earned(r) == RightAnswer(task, r) /\ IF mode = "eager" THEN events = <<>> ELSE Routed

\* The right answer has as many names as the task requires: finitely many.
LEMMA RequiredIsFinite ==
  ASSUME NEW r \in Answer, RightAnswer(task, r)
  PROVE  IsFiniteSet(task.required_names)
<1>1. PICK n \in 0 .. 2 : r.selected_names \in [1 .. n -> Name]
  BY Messages
<1>2. r.selected_names \in Surjection(1 .. n, NamesIn(r.selected_names))
  BY <1>1 DEF Surjection, NamesIn
<1>3. IsFiniteSet(1 .. n)
  BY FS_Interval
<1>4. IsFiniteSet(NamesIn(r.selected_names))
  BY <1>2, <1>3, FS_Surjection
<1> QED
  BY <1>4 DEF RightAnswer

\* With the right answer, the checks of the stream come to what is earned.
LEMMA StreamScored ==
  ASSUME events \in Seq(Event), StreamOk(events), task \in Task, mode \in Mode,
         NEW r \in Answer, RightAnswer(task, r)
  PROVE  tool_sequence_ok(mode, events) /\ LoadedRight(mode, task, loaded)
           <=> IF mode = "eager" THEN events = <<>> ELSE Routed
<1>1. CASE mode = "eager"
  <2>1. tool_sequence_ok(mode, events) <=> DOMAIN events = {}
    BY <1>1 DEF tool_sequence_ok, unexpected_action_events
  <2>2. DOMAIN events = {} <=> events = <<>>
    <3>1. Len(events) \in Nat /\ DOMAIN events = 1 .. Len(events)
      OBVIOUS
    <3>2. DOMAIN events = {} => Len(events) = 0
      BY <3>1
    <3>3. events = <<>> => DOMAIN events = {}
      OBVIOUS
    <3> QED
      BY <3>2, <3>3
  <2> QED
    BY <1>1, <2>1, <2>2 DEF LoadedRight
<1>2. CASE mode = "skillloader"
  BY <1>2, RequiredIsFinite, SuccessRouted, RoutedScored
<1> QED
  BY <1>1, <1>2 DEF Mode

LEMMA ScoredIsEarned ==
  ASSUME events \in Seq(Event), StreamOk(events), task \in Task, mode \in Mode,
         NEW r \in Answer \cup {None}
  PROVE  score_run(mode, task, events, r).task_success <=> Earned(r)
<1> DEFINE answer == answer_score(mode, task, r, loaded)
<1> DEFINE sequence == tool_sequence_ok(mode, events)
<1> DEFINE tool_errors == \E i \in completed_tool_calls(events, "search_skills") \cup loads :
                            events[i].outcome \in {"error", "failed"}
<1>1. score_run(mode, task, events, r).task_success
        <=> task_success(answer, r = None \/ tool_errors \/ ~sequence)
  BY DEF score_run, loaded, loads
<1>2. task_success(answer, r = None \/ tool_errors \/ ~sequence)
        <=> task_success(answer, FALSE) /\ r # None /\ ~tool_errors /\ sequence
  BY DEF task_success
<1>3. IsFiniteSet(loads) /\ loads = LoadEnds
  BY EventsParted DEF loads, completed_tool_calls, LoadEnds
<1>4. mode = "eager" /\ sequence => loads = {}
  BY DEF tool_sequence_ok, unexpected_action_events, loads, completed_tool_calls, At
<1>5. sequence => ~tool_errors
  <2>1. CASE mode = "eager"
    BY <2>1 DEF tool_sequence_ok, unexpected_action_events, loads, completed_tool_calls, At
  <2>2. CASE mode = "skillloader"
    BY <1>3, <2>2, SequenceIs DEF completed_tool_calls, SearchEnds
  <2> QED
    BY <2>1, <2>2 DEF Mode
<1>6. loaded \in [loads -> Name]
  <2>1. \A i \in loads : i \in DOMAIN events /\ events[i].tool = "load_skill"
    BY DEF loads, completed_tool_calls, At
  <2>2. \A i \in loads : events[i].name \in Name
    BY <2>1 DEF StreamOk, EventOk
  <2> QED
    BY <2>2 DEF loaded
<1>7. ASSUME r # None, sequence
      PROVE  task_success(answer, FALSE) <=> RightAnswer(task, r) /\ LoadedRight(mode, task, loaded)
  BY <1>3, <1>4, <1>6, <1>7, AnswerScored
<1>8. RightAnswer(task, r) => r # None
  BY DEF RightAnswer
<1>9. RightAnswer(task, r) =>
        (sequence /\ LoadedRight(mode, task, loaded)
           <=> IF mode = "eager" THEN events = <<>> ELSE Routed)
  BY <1>8, StreamScored
<1> HIDE DEF answer, sequence, tool_errors
<1> QED
  BY <1>1, <1>2, <1>5, <1>7, <1>8, <1>9 DEF Earned

LEMMA ScoredRight == IInv => SuccessIsEarned /\ EarnedIsSuccess
<1> SUFFICES ASSUME IInv, score # None
             PROVE  score.task_success <=> Earned(response)
  BY DEF SuccessIsEarned, EarnedIsSuccess, Earned
<1> QED
  BY ScoredIsEarned DEF IInv

\* No stream of events earns a success, whatever it repeats, misses or has out
\* of order, but the one of a client that searched once, was offered every
\* skill the task requires and loaded each of them, each call complete.
THEOREM SuccessAlwaysEarned == Spec => []SuccessIsEarned
BY ScoredRight, Always, PTL

\* And each such stream does, in whatever order its loads overlap.
THEOREM EarnedAlwaysSuccess == Spec => []EarnedIsSuccess
BY ScoredRight, Always, PTL
=============================================================================
