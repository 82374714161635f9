---------------------------- MODULE MCClaudeRunner ----------------------------
(* A small fixture for TLC: tasks of one skill, of two, and of none.        *)
EXTENDS ClaudeRunner

CONSTANTS a, b

One == [ required_names |-> {a}, expected_top |-> a, alternatives |-> {b},
         load_count |-> 1, no_load |-> FALSE ]
Two == [ required_names |-> {a, b}, expected_top |-> a, alternatives |-> {},
         load_count |-> 2, no_load |-> FALSE ]
Zero == [ required_names |-> {}, expected_top |-> NoName, alternatives |-> {},
          load_count |-> 0, no_load |-> TRUE ]

MCTask == {One, Two, Zero}
MCSelections == {<<Two>>, <<One, Zero>>}
MCMatches == {<<b, a>>}

\* The right answers, and wrong ones.
Right(names) ==
  [selected_names |-> names, no_load |-> names = <<>>, exact |-> TRUE, shape |-> TRUE]
MCAnswer ==
  {Right(<<>>), Right(<<a>>), Right(<<a, b>>), [Right(<<a>>) EXCEPT !.exact = FALSE]}

\* A search and the loads of the task, or one load too many, each with its
\* result.
MCMaxEvents ==
  [m \in Mode |-> [t \in Task |-> IF m = "eager" THEN 1 ELSE IF t = Two THEN 6 ELSE 4]]
MCMaxOther ==
  [m \in Mode |-> [t \in Task |-> IF m = "eager" THEN 2 ELSE IF t = One THEN 5 ELSE 3]]
=============================================================================
