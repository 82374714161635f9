------------------------- MODULE Gate6Answer_proofs -------------------------
(***************************************************************************)
(* What the scores of an answer come to, for both Gate 6 runners: that the *)
(* code counts (as many names as loads, each as often as the other, none   *)
(* twice) says that the message is the right one and that each required    *)
(* skill, and no other, was loaded once.                                   *)
(***************************************************************************)
EXTENDS Gate6Answer, FiniteSetTheorems, TLAPS

\* A finite list of names has as many names as places when none is repeated.
LEMMA DistinctIsInjective ==
  ASSUME NEW D, IsFiniteSet(D), NEW T, NEW s \in [D -> T]
  PROVE  AllDistinct(s) <=> IsInjective(s)
<1>1. s \in Surjection(D, NamesIn(s))
  BY DEF Surjection, NamesIn
<1>2. Cardinality(NamesIn(s)) = Cardinality(D) <=> s \in Injection(D, NamesIn(s))
  BY <1>1, FS_Surjection
<1>3. s \in Injection(D, NamesIn(s)) <=> IsInjective(s)
  BY DEF Injection, NamesIn
<1> QED
  BY <1>2, <1>3 DEF AllDistinct

LEMMA TimesIs ==
  ASSUME NEW D, IsFiniteSet(D), NEW T, NEW s \in [D -> T], NEW n
  PROVE  /\ Times(s, n) = 0 <=> n \notin NamesIn(s)
         /\ IsInjective(s) /\ n \in NamesIn(s) => Times(s, n) = 1
<1> DEFINE places == {i \in DOMAIN s : s[i] = n}
<1>1. IsFiniteSet(places)
  BY FS_Subset, places \subseteq D
<1>2. Cardinality(places) = 0 <=> places = {}
  BY <1>1, FS_EmptySet
<1>3. places = {} <=> n \notin NamesIn(s)
  BY DEF NamesIn
<1>4. ASSUME IsInjective(s), n \in NamesIn(s) PROVE Cardinality(places) = 1
  <2>1. PICK i \in DOMAIN s : s[i] = n
    BY <1>4 DEF NamesIn
  <2>2. places = {i}
    BY <1>4, <2>1 DEF IsInjective
  <2> QED
    BY <2>2, FS_Singleton
<1> QED
  BY <1>2, <1>3, <1>4 DEF Times

\* What the loaded names have to be.
LoadedRight(m, t, loaded) ==
  m = "skillloader" => NamesIn(loaded) = t.required_names /\ IsInjective(loaded)

LEMMA Messages ==
  ASSUME NEW r \in Answer
  PROVE  /\ \E n \in 0 .. 2 : r.selected_names \in [1 .. n -> Name]
         /\ r.no_load \in BOOLEAN /\ r.exact \in BOOLEAN /\ r.shape \in BOOLEAN
BY FixtureAssumption DEF Response

LEMMA AnswerScored ==
  ASSUME NEW m \in Mode, NEW t \in Task, NEW r \in Answer, r # None,
         NEW D, IsFiniteSet(D), NEW loaded \in [D -> Name],
         m = "eager" => D = {}
  PROVE  task_success(answer_score(m, t, r, loaded), FALSE)
           <=> RightAnswer(t, r) /\ LoadedRight(m, t, loaded)
<1> DEFINE a == answer_score(m, t, r, loaded)
<1> DEFINE sel == r.selected_names
<1> DEFINE req == t.required_names
<1> DEFINE allowed == t.alternatives \cup req \cup ({t.expected_top} \ {NoName})
<1>1. PICK n \in 0 .. 2 : sel \in [1 .. n -> Name]
  BY Messages
<1>2. /\ sel \in Seq(Name) /\ DOMAIN sel = 1 .. n /\ Len(sel) = n /\ n \in Nat
      /\ IsFiniteSet(1 .. n) /\ Cardinality(1 .. n) = n
      /\ sel = <<>> <=> n = 0
  <2>1. sel \in Seq(Name) /\ DOMAIN sel = 1 .. n /\ Len(sel) = n /\ n \in Nat
    BY <1>1
  <2>2. IsFiniteSet(1 .. n) /\ Cardinality(1 .. n) = n
    BY <2>1, FS_Interval
  <2> QED
    BY <2>1, <2>2
<1>3. /\ t.load_count = Cardinality(req)
      /\ t.no_load <=> req = {}
      /\ t.no_load \in BOOLEAN
      /\ NoName \notin Name /\ req \subseteq Name
  BY FixtureAssumption
<1>4. /\ AllDistinct(sel) <=> IsInjective(sel)
      /\ AllDistinct(loaded) <=> IsInjective(loaded)
  BY <1>1, <1>2, DistinctIsInjective
<1>5. \A x : /\ Times(sel, x) = 0 <=> x \notin NamesIn(sel)
             /\ IsInjective(sel) /\ x \in NamesIn(sel) => Times(sel, x) = 1
             /\ Times(loaded, x) = 0 <=> x \notin NamesIn(loaded)
             /\ IsInjective(loaded) /\ x \in NamesIn(loaded) => Times(loaded, x) = 1
  BY <1>1, <1>2, TimesIs
<1>6. /\ NamesIn(sel) \subseteq Name /\ NamesIn(loaded) \subseteq Name
      /\ DOMAIN loaded = D /\ (NamesIn(loaded) = {} <=> D = {})
  BY <1>1 DEF NamesIn
<1>7. /\ a.response_shape_ok <=> r.shape /\ r.no_load = (sel = <<>>)
      /\ a.required_skill_set_correct <=> Len(sel) = Cardinality(req) /\ NamesIn(sel) = req
      /\ a.selection_top_one_correct <=>
           IF t.no_load THEN sel = <<>> ELSE sel # <<>> /\ sel[1] = t.expected_top
      /\ a.incorrect_load <=> ~ (NamesIn(sel) \cup NamesIn(loaded) \subseteq allowed)
      /\ a.load_count_correct <=> load_count_correct(m, t, sel, loaded)
      /\ a.applied <=> AllDistinct(sel) /\ r.exact
  BY DEF answer_score, instruction_score
<1>8. /\ a.no_load_correct <=>
           /\ a.response_shape_ok /\ (sel = <<>>) = t.no_load
           /\ m = "skillloader" => (D = {}) = t.no_load
      /\ a.reported_matches_calls <=>
           (m = "skillloader" => \A x \in Name \cup {NoName} : Times(sel, x) = Times(loaded, x))
  BY <1>6 DEF answer_score
<1> HIDE DEF a
<1>9. /\ m = "eager" => (a.load_count_correct <=> AllDistinct(sel) /\ n = Cardinality(req))
      /\ m = "skillloader" =>
           (a.load_count_correct <=> AllDistinct(loaded) /\ Cardinality(D) = Cardinality(req))
  BY <1>2, <1>3, <1>6, <1>7 DEF load_count_correct
<1>10. ASSUME task_success(a, FALSE)
       PROVE  RightAnswer(t, r) /\ LoadedRight(m, t, loaded)
  <2>1. RightAnswer(t, r)
    BY <1>2, <1>3, <1>7, <1>8, <1>10 DEF task_success, RightAnswer
  <2>2. ASSUME m = "skillloader" PROVE NamesIn(loaded) = req /\ IsInjective(loaded)
    <3>1. \A x \in Name : x \in NamesIn(loaded) <=> x \in NamesIn(sel)
      BY <1>5, <1>8, <1>10, <2>2 DEF task_success
    <3>2. NamesIn(loaded) = NamesIn(sel)
      BY <1>6, <3>1
    <3> QED
      BY <1>4, <1>9, <1>10, <2>1, <2>2, <3>2 DEF task_success, RightAnswer
  <2> QED
    BY <2>1, <2>2 DEF LoadedRight
<1>11. ASSUME RightAnswer(t, r), LoadedRight(m, t, loaded)
       PROVE  task_success(a, FALSE)
  <2>1. /\ r.shape /\ r.exact /\ NamesIn(sel) = req /\ n = Cardinality(req)
        /\ r.no_load = t.no_load
        /\ ~t.no_load => sel[1] = t.expected_top
    BY <1>2, <1>11 DEF RightAnswer
  <2>2. AllDistinct(sel)
    BY <1>2, <2>1 DEF AllDistinct
  <2>3. sel = <<>> <=> t.no_load
    <3>1. n = 0 <=> NamesIn(sel) = {}
      <4>1. n # 0 => sel[1] \in NamesIn(sel)
        BY <1>2 DEF NamesIn
      <4>2. n = 0 => 1 .. n = {}
        BY <1>2
      <4> QED
        BY <1>2, <4>1, <4>2 DEF NamesIn
    <3> QED
      BY <1>2, <1>3, <2>1, <3>1
  <2>4. a.response_shape_ok /\ a.required_skill_set_correct /\ a.selection_top_one_correct
    BY <1>2, <1>3, <1>7, <2>1, <2>3
  <2>5. ~a.incorrect_load
    <3>1. NamesIn(loaded) \subseteq req
      BY <1>6, <1>11 DEF LoadedRight, Mode
    <3> QED
      BY <1>7, <2>1, <3>1
  <2>6. a.no_load_correct
    <3>1. m = "skillloader" => (D = {} <=> t.no_load)
      BY <1>3, <1>6, <1>11 DEF LoadedRight
    <3> QED
      BY <1>3, <1>8, <2>3, <2>4, <3>1
  <2>7. a.load_count_correct
    <3>1. m = "skillloader" => AllDistinct(loaded) /\ Cardinality(D) = Cardinality(req)
      BY <1>4, <1>6, <1>11 DEF LoadedRight, AllDistinct
    <3> QED
      BY <1>9, <2>1, <2>2, <3>1 DEF Mode
  <2>8. a.reported_matches_calls
    <3> SUFFICES ASSUME m = "skillloader", NEW x \in Name \cup {NoName}
                 PROVE  Times(sel, x) = Times(loaded, x)
      BY <1>8
    <3>1. NamesIn(loaded) = NamesIn(sel) /\ IsInjective(loaded) /\ IsInjective(sel)
      BY <1>4, <1>11, <2>1, <2>2 DEF LoadedRight
    <3> QED
      BY <1>5, <3>1
  <2> QED
    BY <1>7, <2>1, <2>2, <2>4, <2>5, <2>6, <2>7, <2>8 DEF task_success
<1> QED
  BY <1>10, <1>11 DEF a, task_success
=============================================================================
