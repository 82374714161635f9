---------------------------- MODULE SearchEngine ----------------------------
(***************************************************************************)
(* The eight layers of SearchEngine.Search (search.go), as operators.  The *)
(* characters are abstracted to what the layers look at: a raw token of    *)
(* the query has a lower case, a length and, when it holds a hyphen, the   *)
(* parts between its hyphens; a text holds a token or does not.            *)
(* sort.Slice is not stable, so a sort is any permutation in order and a   *)
(* search is the set of the answers it can give.                           *)
(***************************************************************************)
EXTENDS Naturals, Sequences, FiniteSets, Functions

CONSTANTS
  Raw,      \* what the token pattern can find in a query
  Parts,    \* [Raw -> SUBSET Raw]: the parts of a hyphenated token
  Short,    \* the raw tokens shorter than two runes
  Token,    \* lower-case tokens
  Lower,    \* [Raw -> Token]
  Text,     \* names, tags and descriptions
  Holds,    \* the pairs <<token, text>> such that the text contains the token
  Is,       \* those whose token is the whole text
  Order     \* [Text -> Nat]: the order of strings, for the names

ASSUME SearchAssumption ==
  /\ Parts \in [Raw -> SUBSET Raw]
  /\ \A r \in Raw : IsFiniteSet(Parts[r])
  /\ Short \subseteq Raw
  /\ Lower \in [Raw -> Token]
  /\ Holds \subseteq Token \X Text
  /\ Is \subseteq Holds
  /\ Order \in [Text -> Nat]
  /\ \A a, b \in Text : Order[a] = Order[b] => a = b

tagMatchScore == 8
exactNameMatchScore == 100
partialNameMatchScore == 20
descriptionMatchScore == 5
tagOnlyBonus == 4

\* The elements of s at the positions in I, in their order.
Kept(s, I) ==
  [k \in 1 .. Cardinality(I) |-> s[CHOOSE i \in I : Cardinality(I \cap 1 .. i) = k]]

\* Layer 1.
tokenize(query) ==
  {Lower[t] : t \in UNION {{r} \cup Parts[r] : r \in query} \ Short}

\* Layers 2 to 4, for one entry.
layerTagMatch(tokens, e) ==
  tagMatchScore *
    Cardinality({m \in tokens \X DOMAIN e.tags : <<m[1], e.tags[m[2]]>> \in Holds})

layerNameMatch(tokens, e) ==
  IF \E t \in tokens : <<t, e.name>> \in Is THEN exactNameMatchScore
  ELSE IF \E t \in tokens : <<t, e.name>> \in Holds THEN partialNameMatchScore
  ELSE 0

layerDescriptionMatch(tokens, e) ==
  descriptionMatchScore * Cardinality({t \in tokens : <<t, e.description>> \in Holds})

Strong(tokens, e) == layerTagMatch(tokens, e) + layerNameMatch(tokens, e) > 0

scoredEntry(e, score) == [entry |-> e, score |-> score]

\* Layer 5 and the fallback rule: when an entry matches by name or tag, those
\* that do not are dropped, and the scores are taken anew.
layerAggregate(tokens, e) ==
  scoredEntry(e, layerTagMatch(tokens, e) + layerNameMatch(tokens, e)
                 + layerDescriptionMatch(tokens, e)
                 + IF layerTagMatch(tokens, e) > 0 /\ layerNameMatch(tokens, e) = 0
                     THEN tagOnlyBonus ELSE 0)

\* Mutant: description matches stay beside the strong ones.
Scored_NoFallback(tokens, index) ==
  [i \in DOMAIN index |-> layerAggregate(tokens, index[i])]

Scored(tokens, index) ==
  IF \E i \in DOMAIN index : Strong(tokens, index[i])
    THEN LET strong == Kept(index, {i \in DOMAIN index : Strong(tokens, index[i])})
         IN  [i \in DOMAIN strong |->
                scoredEntry(strong[i], layerTagMatch(tokens, strong[i])
                                       + layerNameMatch(tokens, strong[i])
                                       + layerDescriptionMatch(tokens, strong[i]))]
    ELSE [i \in DOMAIN index |-> layerAggregate(tokens, index[i])]

Precedes(s, t) ==
  \/ s.score > t.score
  \/ s.score = t.score /\ Order[s.entry.name] <= Order[t.entry.name]

\* Whatever sort.Slice may return.
Sorts(scored) ==
  LET n == Len(scored)
      arranged == {[i \in 1 .. n |-> scored[p[i]]] : p \in Bijection(1 .. n, 1 .. n)}
  IN  {s \in arranged : \A i, j \in 1 .. n : i < j => Precedes(s[i], s[j])}

\* Mutant: the first of several entries of a name is kept.
layerRejectAmbiguous_First(scored) ==
  Kept(scored, {i \in DOMAIN scored :
                 \A j \in 1 .. i - 1 : scored[j].entry.name # scored[i].entry.name})

\* Layer 6.
layerRejectAmbiguous(scored) ==
  Kept(scored, {i \in DOMAIN scored :
                 \A j \in DOMAIN scored \ {i} : scored[j].entry.name # scored[i].entry.name})

\* Layer 7.  No entry of an index has an empty name or path (catalog.go:105).
layerSafetyFilter(scored) == Kept(scored, {i \in DOMAIN scored : scored[i].score > 0})

\* Mutant: the match tells where the skill lies.
SearchMatch_Path(s) ==
  [ name |-> s.entry.name, description |-> s.entry.description,
    tags |-> s.entry.tags, source |-> s.entry.path, score |-> s.score ]

SearchMatch(s) ==
  [ name |-> s.entry.name, description |-> s.entry.description,
    tags |-> s.entry.tags, source |-> s.entry.source, score |-> s.score ]

\* Mutant: the answer is cut before the filters run.
Answer_CutFirst(sorted, limit) ==
  LET cut == IF Len(sorted) > limit THEN SubSeq(sorted, 1, limit) ELSE sorted
      kept == layerSafetyFilter(layerRejectAmbiguous(cut))
  IN  [i \in DOMAIN kept |-> SearchMatch(kept[i])]

\* Layers 6 to 8.
Answer(sorted, limit) ==
  LET kept == layerSafetyFilter(layerRejectAmbiguous(sorted))
      cut == IF Len(kept) > limit THEN SubSeq(kept, 1, limit) ELSE kept
  IN  [i \in DOMAIN cut |-> SearchMatch(cut[i])]

\* The answers Search(query, limit) can give over index.
Search(index, query, limit) ==
  LET atMost == IF limit = 0 THEN 5 ELSE limit
  IN  {Answer(s, atMost) : s \in Sorts(Scored(tokenize(query), index))}
=============================================================================
