--------------------------- MODULE MCGate6Scoring ---------------------------
(* A small fixture for TLC: a task of one skill, one of two, one of none.   *)
EXTENDS Gate6Scoring, TLC

CONSTANTS a, b

MCTask ==
  { [ required_names |-> {a}, expected_top |-> a, alternatives |-> {b},
      load_count |-> 1, no_load |-> FALSE ],
    [ required_names |-> {a, b}, expected_top |-> a, alternatives |-> {},
      load_count |-> 2, no_load |-> FALSE ],
    [ required_names |-> {}, expected_top |-> NoName, alternatives |-> {},
      load_count |-> 0, no_load |-> TRUE ] }

MCMatches == {<<a>>, <<b, a>>}

\* The right answers, and wrong ones of each kind.
Right(names) ==
  [selected_names |-> names, no_load |-> names = <<>>, exact |-> TRUE, shape |-> TRUE]
MCAnswer ==
  {Right(<<>>), Right(<<a>>), Right(<<b>>), Right(<<a, b>>), Right(<<b, a>>), Right(<<a, a>>)}
  \cup {[Right(<<a>>) EXCEPT !.exact = FALSE], [Right(<<a>>) EXCEPT !.shape = FALSE],
        [Right(<<>>) EXCEPT !.no_load = FALSE]}

MCMaxEvents == [m \in {"eager", "skillloader"} |-> IF m = "eager" THEN 2 ELSE 6]

Ids == Permutations(CallId)
=============================================================================
