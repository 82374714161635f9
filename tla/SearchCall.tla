----------------------------- MODULE SearchCall -----------------------------
(***************************************************************************)
(* Calls of SearchEngine.Search over every small index, to compare the     *)
(* answers of the eight layers with what the ranking promises.             *)
(***************************************************************************)
EXTENDS SearchEngine

CONSTANTS
  Entry,     \* the entries an index is made of
  MaxIndex,  \* bound on the length of an index
  Limit      \* the limits asked for

ASSUME CallAssumption ==
  /\ MaxIndex \in Nat
  /\ Limit \subseteq Nat
  /\ \A e \in Entry : e.name \in Text /\ e.description \in Text /\ e.tags \in Seq(Text)

VARIABLES
  catalog,  \* the index
  asked,    \* the raw tokens of the query
  upTo,     \* the limit
  found,    \* the matches
  answered  \* Search has returned

callVars == <<catalog, asked, upTo, found, answered>>

\* BuildIndex sorts the entries by name, and has one for each path.
IsIndex(s) ==
  \A i, j \in DOMAIN s : i < j =>
    s[i].path # s[j].path /\ Order[s[i].name] <= Order[s[j].name]

\* A query has finitely many tokens.
Queries == {q \in SUBSET Raw : IsFiniteSet(q)}

Indexes == {s \in UNION {[1 .. n -> Entry] : n \in 0 .. MaxIndex} : IsIndex(s)}

CallInit ==
  /\ catalog \in Indexes
  /\ asked \in Queries
  /\ upTo \in Limit
  /\ found = <<>>
  /\ answered = FALSE

\* search_skills over one query.
Ask ==
  /\ ~answered
  /\ answered' = TRUE
  /\ found' \in Search(catalog, asked, upTo)
  /\ UNCHANGED <<catalog, asked, upTo>>

\* Another call of the same server: the engine keeps no state.
Again ==
  /\ answered
  /\ answered' = FALSE
  /\ found' = <<>>
  /\ asked' \in Queries
  /\ upTo' \in Limit
  /\ UNCHANGED catalog

CallNext == Ask \/ Again

CallSpec == CallInit /\ [][CallNext]_callVars
-----------------------------------------------------------------------------
(* Properties *)

words == tokenize(asked)

\* What a match is worth, counted without the layers: eight for each tag that
\* holds a token, five for a token in the description, and once for the name.
Worth(e) ==
  8 * Cardinality({m \in words \X DOMAIN e.tags : <<m[1], e.tags[m[2]]>> \in Holds})
  + 5 * Cardinality({t \in words : <<t, e.description>> \in Holds})
  + (IF \E t \in words : <<t, e.name>> \in Is THEN 100
     ELSE IF \E t \in words : <<t, e.name>> \in Holds THEN 20 ELSE 0)

ByDescriptionOnly(e) ==
  Worth(e) = 5 * Cardinality({t \in words : <<t, e.description>> \in Holds})

CallTypeOK ==
  /\ catalog \in Indexes
  /\ asked \in Queries
  /\ upTo \in Limit
  /\ answered \in BOOLEAN
  /\ \A i \in DOMAIN found : \E j \in DOMAIN catalog :
       /\ found[i].name = catalog[j].name
       /\ found[i].source = catalog[j].source

\* "Equal inputs and equal catalog state must produce equal ordering"
\* (docs/ARCHITECTURE.md): although sort.Slice is not stable and the ties it
\* may leave in any order do occur, only one answer is possible.
OneAnswer == answered => Search(catalog, asked, upTo) = {found}

\* The entries that compete: description matches only when nothing matches
\* by its name or a tag.
Competing ==
  {i \in DOMAIN catalog :
     ByDescriptionOnly(catalog[i]) => \A j \in DOMAIN catalog : ByDescriptionOnly(catalog[j])}

Eligible ==
  {i \in Competing :
     /\ Worth(catalog[i]) > 0
     /\ \A j \in Competing : catalog[j].name = catalog[i].name => j = i}

\* A description match is a fallback (search.go:59): it is never listed when
\* some entry of the catalog matches by its name or a tag.
DescriptionIsFallback ==
  \A m \in DOMAIN found : \E i \in Competing :
    catalog[i].name = found[m].name /\ catalog[i].source = found[m].source

\* An answer holds the best of the eligible entries and nothing else, best
\* first, each with the score its own tags, name and description earn, and is
\* short only when there are no more.
BestFirst ==
  answered =>
    LET rank == [m \in DOMAIN found |->
                   CHOOSE i \in Eligible : catalog[i].name = found[m].name]
        Before(i, j) ==
          \/ Worth(catalog[i]) > Worth(catalog[j])
          \/ /\ Worth(catalog[i]) = Worth(catalog[j])
             /\ Order[catalog[i].name] < Order[catalog[j].name]
    IN  /\ LET most == IF upTo = 0 THEN 5 ELSE upTo
           IN  Len(found) = IF Cardinality(Eligible) > most THEN most
                              ELSE Cardinality(Eligible)
        /\ \A m \in DOMAIN found :
             /\ \E i \in Eligible : catalog[i].name = found[m].name
             /\ found[m].source = catalog[rank[m]].source
             /\ found[m].score = Worth(catalog[rank[m]])
             /\ \A n \in m + 1 .. Len(found) : Before(rank[m], rank[n])
             /\ \A j \in Eligible \ {rank[n] : n \in DOMAIN found} : Before(rank[m], j)

\* "Reject ambiguous logical names instead of selecting a source"
\* (search.go:87): no answer names a skill the index has twice.
AmbiguousNamesRejected ==
  \A m \in DOMAIN found :
    Cardinality({i \in DOMAIN catalog : catalog[i].name = found[m].name}) = 1
=============================================================================
