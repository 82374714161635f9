------------------------ MODULE SkillServer_proofs ------------------------
(***************************************************************************)
(* What a client of the MCP server may rely on, in three parts.            *)
(*                                                                         *)
(* The layers of a search: a finite set has one listing in a strict order, *)
(* the place of an element being the number of those before it, and one    *)
(* (Rank).  What the last layers let through is strictly ordered by score  *)
(* and name, since they leave one entry of a name, so an answer is the     *)
(* listing of it (AnswerIs), whatever order sort.Slice leaves ties in.     *)
(*                                                                         *)
(* A call of Search (SearchCall), for every catalog and query: its one     *)
(* answer compared with the ranking as a reader of the contract would      *)
(* state it.                                                               *)
(*                                                                         *)
(* The server (SkillServer), for every catalog, edit and restart.          *)
(* BuildIndex is the listing of the entries by name and path, so there is  *)
(* one.  The client holds an answer of some index and the hash of it       *)
(* (Fits): a server that recognises the hash has an index of the same      *)
(* names and checksums, hence of the same metadata, and AlikeAnswers says  *)
(* that its own answer differs in the sources alone.                       *)
(***************************************************************************)
EXTENDS SkillServer, SearchCall, FiniteSetTheorems, TLAPS

(* The layers of a search *)

StrictOrder(R, S) ==
  /\ \A a \in S : <<a, a>> \notin R
  /\ \A a, b, c \in S : <<a, b>> \in R /\ <<b, c>> \in R => <<a, c>> \in R
  /\ \A a, b \in S : a = b \/ <<a, b>> \in R \/ <<b, a>> \in R

Below(R, S, a) == {b \in S : <<b, a>> \in R}

Rank(R, S, a) == Cardinality(Below(R, S, a)) + 1

Listings(R, S) ==
  {s \in [1 .. Cardinality(S) -> S] :
     \A i, j \in 1 .. Cardinality(S) : i < j => <<s[i], s[j]>> \in R}

-----------------------------------------------------------------------------
(* Listings of a finite set *)

LEMMA Interval == \A n \in Nat : IsFiniteSet(1 .. n) /\ Cardinality(1 .. n) = n
BY FS_Interval

LEMMA FinitePart ==
  ASSUME NEW n \in Nat, NEW I \in SUBSET (1 .. n)
  PROVE  IsFiniteSet(I) /\ Cardinality(I) \in Nat
<1>1. IsFiniteSet(I)
  BY Interval, FS_Subset
<1> QED
  BY <1>1, FS_CardinalityType

\* What is before another has a smaller rank, and no rank exceeds the size.
LEMMA RankOrder ==
  ASSUME NEW S, NEW R, IsFiniteSet(S), StrictOrder(R, S), NEW a \in S
  PROVE  /\ Rank(R, S, a) \in 1 .. Cardinality(S)
         /\ \A b \in S : <<b, a>> \in R => Rank(R, S, b) < Rank(R, S, a)
<1>1. Cardinality(S) \in Nat
  BY FS_CardinalityType
<1>2. ASSUME NEW b \in S
      PROVE  /\ IsFiniteSet(Below(R, S, b)) /\ Cardinality(Below(R, S, b)) \in Nat
             /\ Cardinality(Below(R, S, b)) < Cardinality(S)
  <2>1. Below(R, S, b) \in SUBSET S /\ b \notin Below(R, S, b)
    BY DEF Below, StrictOrder
  <2>2. Below(R, S, b) # S
    BY <2>1
  <2>3. /\ IsFiniteSet(Below(R, S, b))
        /\ Cardinality(Below(R, S, b)) <= Cardinality(S)
        /\ Cardinality(Below(R, S, b)) # Cardinality(S)
    BY <2>1, <2>2, FS_Subset
  <2>4. Cardinality(Below(R, S, b)) \in Nat
    BY <2>3, FS_CardinalityType
  <2> QED
    BY <1>1, <2>3, <2>4
<1>3. ASSUME NEW b \in S, <<b, a>> \in R
      PROVE  Rank(R, S, b) < Rank(R, S, a)
  <2>1. Below(R, S, b) \in SUBSET Below(R, S, a)
    BY <1>3 DEF Below, StrictOrder
  <2>2. b \in Below(R, S, a) /\ b \notin Below(R, S, b)
    BY <1>3 DEF Below, StrictOrder
  <2>3. /\ Cardinality(Below(R, S, b)) <= Cardinality(Below(R, S, a))
        /\ Cardinality(Below(R, S, b)) # Cardinality(Below(R, S, a))
    BY <1>2, <2>1, <2>2, FS_Subset
  <2> QED
    BY <1>2, <2>3 DEF Rank
<1> QED
  BY <1>1, <1>2, <1>3 DEF Rank

LEMMA RankInjective ==
  ASSUME NEW S, NEW R, IsFiniteSet(S), StrictOrder(R, S), NEW a \in S, NEW b \in S,
         Rank(R, S, a) = Rank(R, S, b)
  PROVE  a = b
<1>1. Rank(R, S, a) \in Nat /\ Rank(R, S, b) \in Nat
  BY RankOrder, FS_CardinalityType
<1>2. <<a, b>> \notin R /\ <<b, a>> \notin R
  BY <1>1, RankOrder
<1> QED
  BY <1>2 DEF StrictOrder

\* Every place has an element.
LEMMA RankSurjective ==
  ASSUME NEW S, NEW R, IsFiniteSet(S), StrictOrder(R, S), NEW i \in 1 .. Cardinality(S)
  PROVE  \E a \in S : Rank(R, S, a) = i
<1> DEFINE n == Cardinality(S)
           f == [a \in S |-> Rank(R, S, a)]
<1>1. n \in Nat
  BY FS_CardinalityType
<1>2. f \in [S -> 1 .. n]
  BY RankOrder
<1>3. f \in Injection(S, 1 .. n)
  BY <1>2, RankInjective DEF Injection, IsInjective
<1>4. IsFiniteSet(1 .. n) /\ Cardinality(1 .. n) = n
  BY <1>1, Interval
<1>5. f \in Surjection(S, 1 .. n)
  BY <1>3, <1>4, FS_Injection
<1> QED
  BY <1>5 DEF Surjection

\* There is a listing.
LEMMA ListingExists ==
  ASSUME NEW S, NEW R, IsFiniteSet(S), StrictOrder(R, S)
  PROVE  Listings(R, S) # {}
<1> DEFINE n == Cardinality(S)
           s == [i \in 1 .. n |-> CHOOSE a \in S : Rank(R, S, a) = i]
<1>1. \A i \in 1 .. n : s[i] \in S /\ Rank(R, S, s[i]) = i
  BY RankSurjective
<1>2. ASSUME NEW i \in 1 .. n, NEW j \in 1 .. n, i < j
      PROVE  <<s[i], s[j]>> \in R
  <2>1. s[i] # s[j]
    BY <1>1, <1>2
  <2>2. <<s[j], s[i]>> \notin R
    BY <1>1, <1>2, RankOrder
  <2> QED
    BY <1>1, <2>1, <2>2 DEF StrictOrder
<1>3. s \in [1 .. n -> S]
  BY <1>1
<1> HIDE DEF s
<1> QED
  BY <1>2, <1>3 DEF Listings

\* It lists every element, each at the place its rank says.
LEMMA ListingRank ==
  ASSUME NEW S, NEW R, IsFiniteSet(S), StrictOrder(R, S), NEW s \in Listings(R, S)
  PROVE  /\ \A a \in S : \E i \in 1 .. Cardinality(S) : s[i] = a
         /\ \A i \in 1 .. Cardinality(S) : s[i] \in S /\ Rank(R, S, s[i]) = i
<1> DEFINE n == Cardinality(S)
<1>1. n \in Nat /\ IsFiniteSet(1 .. n) /\ Cardinality(1 .. n) = n
  BY FS_CardinalityType, Interval
<1>2. s \in [1 .. n -> S] /\ \A i, j \in 1 .. n : i < j => <<s[i], s[j]>> \in R
  BY DEF Listings
<1>3. \A i, j \in 1 .. n : s[i] = s[j] => i = j
  <2> SUFFICES ASSUME NEW i \in 1 .. n, NEW j \in 1 .. n, i < j PROVE s[i] # s[j]
    BY <1>1
  <2>1. s[i] \in S /\ <<s[i], s[j]>> \in R
    BY <1>2
  <2>2. <<s[i], s[i]>> \notin R
    BY <2>1 DEF StrictOrder
  <2> QED
    BY <2>1, <2>2
<1>4. s \in Injection(1 .. n, S)
  BY <1>2, <1>3 DEF Injection, IsInjective
<1>5. s \in Surjection(1 .. n, S)
  BY <1>1, <1>4, FS_Injection
<1>6. \A a \in S : \E i \in 1 .. n : s[i] = a
  BY <1>5 DEF Surjection
<1>7. ASSUME NEW i \in 1 .. n
      PROVE  Rank(R, S, s[i]) = i
  <2> DEFINE g == [j \in 1 .. i - 1 |-> s[j]]
  <2>1. \A j \in 1 .. i - 1 : j \in 1 .. n /\ j < i
    BY <1>1
  <2>2. g \in [1 .. i - 1 -> Below(R, S, s[i])]
    BY <1>2, <2>1 DEF Below
  <2>3. ASSUME NEW a \in Below(R, S, s[i])
        PROVE  \E j \in 1 .. i - 1 : g[j] = a
    <3>1. a \in S /\ <<a, s[i]>> \in R
      BY DEF Below
    <3>2. PICK j \in 1 .. n : s[j] = a
      BY <1>6, <3>1
    <3>3. s[i] \in S
      BY <1>2
    <3>4. ~(j = i) /\ ~(i < j)
      BY <1>2, <3>1, <3>2, <3>3 DEF StrictOrder
    <3>5. j \in 1 .. i - 1
      BY <1>1, <3>4
    <3> QED
      BY <3>2, <3>5
  <2>4. g \in Bijection(1 .. i - 1, Below(R, S, s[i]))
    <3>1. \A j, k \in 1 .. i - 1 : g[j] = g[k] => j = k
      BY <1>3, <2>1
    <3> HIDE DEF g
    <3>2. g \in Injection(1 .. i - 1, Below(R, S, s[i]))
      BY <2>2, <3>1 DEF Injection, IsInjective
    <3>3. g \in Surjection(1 .. i - 1, Below(R, S, s[i]))
      BY <2>2, <2>3 DEF Surjection
    <3> QED
      BY <3>2, <3>3 DEF Bijection
  <2>5. i - 1 \in Nat /\ IsFiniteSet(1 .. i - 1) /\ Cardinality(1 .. i - 1) = i - 1
    <3>1. i - 1 \in Nat
      BY <1>1
    <3> QED
      BY <3>1, Interval
  <2>6. Cardinality(Below(R, S, s[i])) = i - 1
    BY <2>4, <2>5, FS_Bijection DEF ExistsBijection
  <2> QED
    BY <1>1, <2>6 DEF Rank
<1> QED
  BY <1>2, <1>6, <1>7

LEMMA ListingUnique ==
  ASSUME NEW S, NEW R, IsFiniteSet(S), StrictOrder(R, S),
         NEW s \in Listings(R, S), NEW t \in Listings(R, S)
  PROVE  s = t
<1> DEFINE places == 1 .. Cardinality(S)
<1>1. s \in [places -> S] /\ t \in [places -> S]
  BY DEF Listings
<1>2. ASSUME NEW i \in places PROVE s[i] = t[i]
  <2>1. Rank(R, S, s[i]) = i /\ Rank(R, S, t[i]) = i /\ s[i] \in S /\ t[i] \in S
    BY ListingRank
  <2> QED
    BY <2>1, RankInjective
<1> HIDE DEF places
<1> QED
  BY <1>1, <1>2

-----------------------------------------------------------------------------
(* The positions a layer keeps *)

Earlier(I) == {r \in I \X I : r[1] < r[2]}

\* The place of a position among those kept.
LEMMA PlaceOf ==
  ASSUME NEW n \in Nat, NEW I \in SUBSET (1 .. n)
  PROVE  /\ IsFiniteSet(I) /\ Cardinality(I) \in Nat
         /\ StrictOrder(Earlier(I), I)
         /\ \A a \in I : Cardinality(I \cap 1 .. a) = Rank(Earlier(I), I, a)
<1>1. IsFiniteSet(I) /\ Cardinality(I) \in Nat
  BY FinitePart
<1>2. \A a, b \in I : <<a, b>> \in Earlier(I) <=> a < b
  BY DEF Earlier
<1>3. StrictOrder(Earlier(I), I)
  <2>1. \A a \in I : a \in Nat
    OBVIOUS
  <2> QED
    BY <1>2, <2>1 DEF StrictOrder
<1>4. ASSUME NEW a \in I
      PROVE  Cardinality(I \cap 1 .. a) = Rank(Earlier(I), I, a)
  <2> DEFINE below == Below(Earlier(I), I, a)
  <2>1. \A b : b \in below <=> b \in I /\ b < a
    BY <1>2 DEF Below
  <2>2. a \notin below /\ below \in SUBSET I
    BY <2>1
  <2>3. I \cap 1 .. a = below \cup {a}
    <3> HIDE DEF below
    <3>1. ASSUME NEW b \in I \cap 1 .. a PROVE b \in below \cup {a}
      <4>1. b \in Nat /\ a \in Nat /\ b <= a
        OBVIOUS
      <4> QED
        BY <2>1, <4>1
    <3>2. ASSUME NEW b \in below \cup {a} PROVE b \in I \cap 1 .. a
      <4>1. b \in I /\ (b < a \/ b = a)
        BY <2>1
      <4>2. b \in 1 .. n /\ a \in 1 .. n
        BY <4>1
      <4>3. b \in 1 .. a
        BY <4>1, <4>2
      <4> QED
        BY <4>1, <4>3
    <3> QED
      BY <3>1, <3>2
  <2>4. IsFiniteSet(below)
    BY <1>1, <2>2, FS_Subset
  <2> HIDE DEF below
  <2>5. Cardinality(below \cup {a}) = Cardinality(below) + 1
    BY <2>2, <2>4, FS_AddElement
  <2> QED
    BY <2>3, <2>5 DEF Rank, below
<1> QED
  BY <1>1, <1>3, <1>4

\* Kept gives the elements at those positions, in their order and no others.
KeptBy(p, s, I) ==
  /\ p \in [1 .. Cardinality(I) -> I]
  /\ Kept(s, I) = [k \in 1 .. Cardinality(I) |-> s[p[k]]]
  /\ \A j, k \in 1 .. Cardinality(I) : j < k => p[j] < p[k]
  /\ \A i \in I : \E k \in 1 .. Cardinality(I) : p[k] = i

Place(I) == [k \in 1 .. Cardinality(I) |-> CHOOSE i \in I : Cardinality(I \cap 1 .. i) = k]

LEMMA KeptIs ==
  ASSUME NEW n \in Nat, NEW s, NEW I \in SUBSET (1 .. n)
  PROVE  KeptBy(Place(I), s, I)
<1>1. /\ IsFiniteSet(I) /\ StrictOrder(Earlier(I), I)
      /\ \A a \in I : Cardinality(I \cap 1 .. a) = Rank(Earlier(I), I, a)
  BY PlaceOf
<1>2. PICK p \in Listings(Earlier(I), I) : TRUE
  BY <1>1, ListingExists
<1>3. p \in [1 .. Cardinality(I) -> I]
  BY DEF Listings
<1>4. \A j, k \in 1 .. Cardinality(I) : j < k => p[j] < p[k]
  BY DEF Listings, Earlier
<1>5. /\ \A i \in I : \E k \in 1 .. Cardinality(I) : p[k] = i
      /\ \A k \in 1 .. Cardinality(I) : p[k] \in I /\ Rank(Earlier(I), I, p[k]) = k
  BY <1>1, ListingRank
<1> DEFINE nth(k) == CHOOSE i \in I : Cardinality(I \cap 1 .. i) = k
<1>6. ASSUME NEW k \in 1 .. Cardinality(I)
      PROVE  nth(k) = p[k]
  <2>1. p[k] \in I /\ Cardinality(I \cap 1 .. p[k]) = k
    BY <1>1, <1>5
  <2>2. ASSUME NEW i \in I, Cardinality(I \cap 1 .. i) = k PROVE i = p[k]
    BY <1>1, <2>1, <2>2, RankInjective
  <2> QED
    BY <2>1, <2>2
<1>7. /\ Kept(s, I) = [k \in 1 .. Cardinality(I) |-> s[nth(k)]]
      /\ Place(I) = [k \in 1 .. Cardinality(I) |-> nth(k)]
  BY DEF Kept, Place
<1> HIDE DEF nth
<1>8. Place(I) = p
  BY <1>3, <1>6, <1>7
<1>9. Kept(s, I) = [k \in 1 .. Cardinality(I) |-> s[p[k]]]
  BY <1>6, <1>7
<1> QED
  BY <1>3, <1>4, <1>5, <1>8, <1>9 DEF KeptBy

\* Who keeps every position moves none.
LEMMA PlaceOfAll ==
  ASSUME NEW n \in Nat
  PROVE  Cardinality(1 .. n) = n /\ Place(1 .. n) = [k \in 1 .. n |-> k]
<1>1. Cardinality(1 .. n) = n
  BY Interval
<1>2. ASSUME NEW k \in 1 .. n
      PROVE  (CHOOSE i \in 1 .. n : Cardinality(1 .. n \cap 1 .. i) = k) = k
  <2>1. ASSUME NEW i \in 1 .. n PROVE Cardinality(1 .. n \cap 1 .. i) = i
    <3>1. 1 .. n \cap 1 .. i = 1 .. i /\ i \in Nat
      OBVIOUS
    <3> QED
      BY <3>1, Interval
  <2> QED
    BY <2>1
<1> DEFINE nth(k) == CHOOSE i \in 1 .. n : Cardinality(1 .. n \cap 1 .. i) = k
<1>3. Place(1 .. n) = [k \in 1 .. n |-> nth(k)]
  BY <1>1 DEF Place
<1> HIDE DEF nth
<1>4. \A k \in 1 .. n : nth(k) = k
  BY <1>2 DEF nth
<1> QED
  BY <1>1, <1>3, <1>4

-----------------------------------------------------------------------------
(* What the last layers let through *)

ScoredEntries(E) == Seq([entry : E, score : Nat])

Named(E) == \A e \in E : e.name \in Text

\* The positions with a score and a name of their own.
Survivors(scored) ==
  {i \in DOMAIN scored :
     /\ scored[i].score > 0
     /\ \A j \in DOMAIN scored \ {i} : scored[j].entry.name # scored[i].entry.name}

IsAhead(scored, i, j) ==
  \/ scored[i].score > scored[j].score
  \/ /\ scored[i].score = scored[j].score
     /\ Order[scored[i].entry.name] < Order[scored[j].entry.name]

Ahead(scored) ==
  {r \in (DOMAIN scored) \X (DOMAIN scored) : IsAhead(scored, r[1], r[2])}

Best(scored) == CHOOSE s \in Listings(Ahead(scored), Survivors(scored)) : TRUE

LEMMA ScoredFacts ==
  ASSUME NEW E, Named(E), NEW scored \in ScoredEntries(E)
  PROVE  /\ Len(scored) \in Nat /\ DOMAIN scored = 1 .. Len(scored)
         /\ \A i \in 1 .. Len(scored) :
              /\ scored[i].entry \in E /\ scored[i].score \in Nat
              /\ scored[i].entry.name \in Text /\ Order[scored[i].entry.name] \in Nat
<1> DEFINE X == [entry : E, score : Nat]
<1>1. Len(scored) \in Nat /\ DOMAIN scored = 1 .. Len(scored)
      /\ \A i \in 1 .. Len(scored) : scored[i] \in X
  <2>1. scored \in Seq(X)
    BY DEF ScoredEntries
  <2> HIDE DEF X
  <2> QED
    BY <2>1
<1>2. \A t \in Text : Order[t] \in Nat
  BY SearchAssumption
<1>3. \A i \in 1 .. Len(scored) : scored[i].entry \in E /\ scored[i].score \in Nat
  BY <1>1
<1> QED
  BY <1>1, <1>2, <1>3 DEF Named

LEMMA AheadMeans ==
  ASSUME NEW scored, NEW i \in DOMAIN scored, NEW j \in DOMAIN scored
  PROVE  <<i, j>> \in Ahead(scored) <=> IsAhead(scored, i, j)
BY DEF Ahead

\* No two survivors are level.
LEMMA SurvivorsOrdered ==
  ASSUME NEW E, Named(E), NEW scored \in ScoredEntries(E)
  PROVE  /\ IsFiniteSet(Survivors(scored)) /\ Cardinality(Survivors(scored)) \in Nat
         /\ Survivors(scored) \in SUBSET (1 .. Len(scored))
         /\ StrictOrder(Ahead(scored), Survivors(scored))
         /\ Best(scored) \in Listings(Ahead(scored), Survivors(scored))
<1> DEFINE n == Len(scored)
           U == Survivors(scored)
<1>1. /\ n \in Nat /\ DOMAIN scored = 1 .. n
      /\ \A i \in 1 .. n : /\ scored[i].score \in Nat
                           /\ scored[i].entry.name \in Text
                           /\ Order[scored[i].entry.name] \in Nat
  BY ScoredFacts
<1>2. U \in SUBSET (1 .. n)
  BY <1>1 DEF Survivors
<1>3. IsFiniteSet(U) /\ Cardinality(U) \in Nat
  BY <1>1, <1>2, FinitePart
<1> DEFINE score(i) == scored[i].score
           place(i) == Order[scored[i].entry.name]
<1>4. \A i, j \in 1 .. n : <<i, j>> \in Ahead(scored) <=>
        score(i) > score(j) \/ (score(i) = score(j) /\ place(i) < place(j))
  BY <1>1, AheadMeans DEF IsAhead
<1>5. \A i, j \in U : i = j \/ place(i) # place(j)
  <2>1. \A i, j \in U : i = j \/ scored[i].entry.name # scored[j].entry.name
    BY DEF Survivors
  <2> QED
    BY <1>1, <1>2, <2>1, SearchAssumption
<1>6. StrictOrder(Ahead(scored), U)
  <2>1. \A i \in U : score(i) \in Nat /\ place(i) \in Nat
    BY <1>1, <1>2
  <2>2. \A i, j \in U : <<i, j>> \in Ahead(scored) <=>
          score(i) > score(j) \/ (score(i) = score(j) /\ place(i) < place(j))
    BY <1>2, <1>4
  <2> HIDE DEF score, place, U
  <2> QED
    BY <1>5, <2>1, <2>2 DEF StrictOrder
<1>7. Best(scored) \in Listings(Ahead(scored), U)
  BY <1>3, <1>6, ListingExists DEF Best
<1> QED
  BY <1>2, <1>3, <1>6, <1>7

LEMMA SortsAre ==
  ASSUME NEW E, Named(E), NEW scored \in ScoredEntries(E), NEW sorted \in Sorts(scored)
  PROVE  \E p \in Bijection(1 .. Len(scored), 1 .. Len(scored)) :
           /\ sorted = [i \in 1 .. Len(scored) |-> scored[p[i]]]
           /\ \A i, j \in 1 .. Len(scored) : i < j => Precedes(sorted[i], sorted[j])
BY DEF Sorts

\* The composition of what the two layers leave, from any sort.
LEMMA KeptOfSort ==
  ASSUME NEW E, Named(E), NEW scored \in ScoredEntries(E), NEW sorted \in Sorts(scored)
  PROVE  layerSafetyFilter(layerRejectAmbiguous(sorted)) =
           [k \in 1 .. Cardinality(Survivors(scored)) |-> scored[Best(scored)[k]]]
<1> DEFINE n == Len(scored)
           U == Survivors(scored)
<1>1. /\ n \in Nat /\ DOMAIN scored = 1 .. n
      /\ \A i \in 1 .. n : /\ scored[i].score \in Nat
                           /\ scored[i].entry.name \in Text
                           /\ Order[scored[i].entry.name] \in Nat
  BY ScoredFacts
<1>2. PICK p \in Bijection(1 .. n, 1 .. n) :
        /\ sorted = [i \in 1 .. n |-> scored[p[i]]]
        /\ \A i, j \in 1 .. n : i < j => Precedes(sorted[i], sorted[j])
  BY SortsAre
<1>3. /\ \A i \in 1 .. n : p[i] \in 1 .. n /\ sorted[i] = scored[p[i]]
      /\ \A i, j \in 1 .. n : p[i] = p[j] => i = j
      /\ \A u \in 1 .. n : \E i \in 1 .. n : p[i] = u
      /\ DOMAIN sorted = 1 .. n
  BY <1>2 DEF Bijection, Injection, Surjection, IsInjective
<1> DEFINE I1 == {i \in 1 .. n :
                    \A j \in 1 .. n \ {i} : sorted[j].entry.name # sorted[i].entry.name}
           A == Kept(sorted, I1)
           c1 == Cardinality(I1)
<1>4. I1 \in SUBSET (1 .. n) /\ c1 \in Nat /\ layerRejectAmbiguous(sorted) = A
  <2>1. I1 \in SUBSET (1 .. n)
    OBVIOUS
  <2>2. layerRejectAmbiguous(sorted) = A
    BY <1>3 DEF layerRejectAmbiguous
  <2> QED
    BY <1>1, <2>1, <2>2, FinitePart
<1>first. PICK p1 : KeptBy(p1, sorted, I1)
  <2> HIDE DEF I1
  <2> QED
    BY <1>1, <1>4, KeptIs
<1>5. /\ p1 \in [1 .. c1 -> I1]
      /\ A = [k \in 1 .. c1 |-> sorted[p1[k]]]
      /\ \A j, k \in 1 .. c1 : j < k => p1[j] < p1[k]
      /\ \A i \in I1 : \E k \in 1 .. c1 : p1[k] = i
  BY <1>first DEF KeptBy
<1> DEFINE I2 == {k \in 1 .. c1 : A[k].score > 0}
           c2 == Cardinality(I2)
<1>6. I2 \in SUBSET (1 .. c1) /\ c2 \in Nat /\ layerSafetyFilter(A) = Kept(A, I2)
  <2>1. I2 \in SUBSET (1 .. c1)
    OBVIOUS
  <2>2. DOMAIN A = 1 .. c1
    BY <1>5
  <2>3. layerSafetyFilter(A) = Kept(A, I2)
    BY <2>2 DEF layerSafetyFilter
  <2> QED
    BY <1>4, <2>1, <2>3, FinitePart
<1>second. PICK p2 : KeptBy(p2, A, I2)
  <2> HIDE DEF A, I2, c1
  <2> QED
    BY <1>4, <1>6, KeptIs
<1>7. /\ p2 \in [1 .. c2 -> I2]
      /\ Kept(A, I2) = [k \in 1 .. c2 |-> A[p2[k]]]
      /\ \A j, k \in 1 .. c2 : j < k => p2[j] < p2[k]
      /\ \A i \in I2 : \E k \in 1 .. c2 : p2[k] = i
  BY <1>second DEF KeptBy
<1> DEFINE at(k) == p1[p2[k]]
           w == [k \in 1 .. c2 |-> p[at(k)]]
<1>8. \A k \in 1 .. c2 : /\ p2[k] \in I2 /\ p2[k] \in 1 .. c1
                         /\ at(k) \in I1 /\ at(k) \in 1 .. n
                         /\ A[p2[k]] = sorted[at(k)] /\ sorted[at(k)].score > 0
  <2> SUFFICES ASSUME NEW k \in 1 .. c2
               PROVE  /\ p2[k] \in I2 /\ p2[k] \in 1 .. c1
                      /\ at(k) \in I1 /\ at(k) \in 1 .. n
                      /\ A[p2[k]] = sorted[at(k)] /\ sorted[at(k)].score > 0
    OBVIOUS
  <2>1. p2[k] \in I2
    BY <1>7
  <2>2. p2[k] \in 1 .. c1 /\ A[p2[k]].score > 0
    BY <2>1
  <2>3. A[p2[k]] = sorted[p1[p2[k]]] /\ p1[p2[k]] \in I1
    BY <1>5, <2>2
  <2> QED
    BY <2>1, <2>2, <2>3
<1>9. Kept(A, I2) = [k \in 1 .. c2 |-> scored[w[k]]]
  <2>1. \A k \in 1 .. c2 : A[p2[k]] = scored[w[k]]
    BY <1>3, <1>8
  <2> HIDE DEF A, w
  <2> QED
    BY <1>7, <2>1
<1> HIDE DEF A, I2
<1>10. ASSUME NEW k \in 1 .. c2 PROVE w[k] \in U
  <2>1. w[k] = p[at(k)] /\ w[k] \in 1 .. n /\ scored[w[k]] = sorted[at(k)]
    BY <1>3, <1>8
  <2>2. ASSUME NEW j \in 1 .. n \ {w[k]}
        PROVE  scored[j].entry.name # scored[w[k]].entry.name
    <3>1. PICK i \in 1 .. n : p[i] = j
      BY <1>3
    <3>2. i # at(k) /\ scored[j] = sorted[i]
      BY <1>3, <2>1, <3>1
    <3> QED
      BY <1>8, <2>1, <3>2
  <2> QED
    BY <1>1, <1>8, <2>1, <2>2 DEF Survivors
<1>11. ASSUME NEW u \in U PROVE \E k \in 1 .. c2 : w[k] = u
  <2>1. /\ u \in 1 .. n /\ scored[u].score > 0
        /\ \A j \in 1 .. n \ {u} : scored[j].entry.name # scored[u].entry.name
    BY <1>1 DEF Survivors
  <2>2. PICK i \in 1 .. n : p[i] = u
    BY <1>3, <2>1
  <2>3. ASSUME NEW j \in 1 .. n \ {i}
        PROVE  sorted[j].entry.name # sorted[i].entry.name
    <3>1. p[j] # u /\ p[j] \in 1 .. n /\ sorted[j] = scored[p[j]] /\ sorted[i] = scored[u]
      BY <1>3, <2>2
    <3> QED
      BY <2>1, <3>1
  <2>4. i \in I1
    BY <2>3
  <2>5. PICK k1 \in 1 .. c1 : p1[k1] = i
    BY <1>5, <2>4
  <2>6. A[k1] = scored[u]
    BY <1>3, <1>5, <2>2, <2>5
  <2>7. k1 \in I2
    BY <2>1, <2>6 DEF I2
  <2>8. PICK k \in 1 .. c2 : p2[k] = k1
    BY <1>7, <2>7
  <2> QED
    BY <2>2, <2>5, <2>8
<1>12. ASSUME NEW j \in 1 .. c2, NEW k \in 1 .. c2, j < k
       PROVE  <<w[j], w[k]>> \in Ahead(scored)
  <2>1. /\ at(j) \in 1 .. n /\ at(k) \in 1 .. n /\ at(j) \in I1
        /\ scored[w[j]] = sorted[at(j)] /\ scored[w[k]] = sorted[at(k)]
        /\ w[j] \in 1 .. n /\ w[k] \in 1 .. n
    BY <1>3, <1>8
  <2>2. at(j) < at(k)
    BY <1>5, <1>7, <1>8, <1>12
  <2>3. Precedes(sorted[at(j)], sorted[at(k)])
    BY <1>2, <2>1, <2>2
  <2>4. sorted[at(j)].entry.name # sorted[at(k)].entry.name
    BY <2>1, <2>2
  <2>5. Order[sorted[at(j)].entry.name] # Order[sorted[at(k)].entry.name]
    BY <1>1, <2>1, <2>4, SearchAssumption
  <2>6. IsAhead(scored, w[j], w[k])
    <3> HIDE DEF w, at
    <3> QED
      BY <1>1, <2>1, <2>3, <2>5 DEF Precedes, IsAhead
  <2> QED
    BY <1>1, <2>1, <2>6, AheadMeans
<1>13. w \in Listings(Ahead(scored), U) /\ Cardinality(U) = c2
  <2>1. /\ IsFiniteSet(U) /\ StrictOrder(Ahead(scored), U)
    BY SurvivorsOrdered
  <2>2. w \in [1 .. c2 -> U]
    BY <1>10
  <2>3. ASSUME NEW j \in 1 .. c2, NEW k \in 1 .. c2, j < k PROVE w[j] # w[k]
    <3>1. <<w[j], w[k]>> \in Ahead(scored) /\ w[j] \in U
      BY <1>10, <1>12, <2>3
    <3> HIDE DEF w, U
    <3>2. <<w[j], w[j]>> \notin Ahead(scored)
      BY <2>1, <3>1 DEF StrictOrder
    <3> QED
      BY <3>1, <3>2
  <2> HIDE DEF w, U
  <2>4. \A j, k \in 1 .. c2 : w[j] = w[k] => j = k
    BY <1>6, <2>3
  <2>5. w \in Bijection(1 .. c2, U)
    BY <1>11, <2>2, <2>4 DEF Bijection, Injection, Surjection, IsInjective
  <2>6. Cardinality(U) = c2
    <3>1. ExistsBijection(1 .. c2, U)
      BY <2>5 DEF ExistsBijection
    <3> QED
      BY <1>6, <3>1, FS_CountingElements
  <2> QED
    BY <1>12, <2>2, <2>6 DEF Listings
<1>14. w = Best(scored)
  BY <1>13, SurvivorsOrdered, ListingUnique
<1> QED
  BY <1>4, <1>6, <1>9, <1>13, <1>14

\* An answer is determined by the scores and the names.
LEMMA AnswerIs ==
  ASSUME NEW E, Named(E), NEW scored \in ScoredEntries(E), NEW sorted \in Sorts(scored),
         NEW limit \in Nat
  PROVE  LET n == Cardinality(Survivors(scored))
         IN  Answer(sorted, limit) =
               [k \in 1 .. (IF n > limit THEN limit ELSE n) |->
                  SearchMatch(scored[Best(scored)[k]])]
<1> DEFINE n == Cardinality(Survivors(scored))
           top(k) == scored[Best(scored)[k]]
           kept == [k \in 1 .. n |-> top(k)]
           cut == IF Len(kept) > limit THEN SubSeq(kept, 1, limit) ELSE kept
           most == IF n > limit THEN limit ELSE n
<1>1. layerSafetyFilter(layerRejectAmbiguous(sorted)) = kept
  BY KeptOfSort
<1>2. n \in Nat
  BY SurvivorsOrdered
<1>3. Answer(sorted, limit) = [i \in DOMAIN cut |-> SearchMatch(cut[i])]
  BY <1>1 DEF Answer
<1> HIDE DEF top, n
<1>4. Len(kept) = n
  BY <1>2
<1>5. cut = [k \in 1 .. most |-> top(k)]
  <2>1. CASE n > limit
    <3>1. SubSeq(kept, 1, limit) = [k \in 1 .. limit |-> kept[k]]
      BY <1>2, <1>4, <2>1
    <3>2. \A k \in 1 .. limit : k \in 1 .. n
      BY <1>2, <2>1
    <3>3. SubSeq(kept, 1, limit) = [k \in 1 .. limit |-> top(k)]
      BY <3>1, <3>2
    <3> QED
      BY <1>4, <2>1, <3>3
  <2>2. CASE ~(n > limit)
    BY <1>4, <2>2
  <2> QED
    BY <2>1, <2>2
<1>6. Answer(sorted, limit) = [k \in 1 .. most |-> SearchMatch(top(k))]
  <2> DEFINE places == 1 .. most
  <2>1. cut = [k \in places |-> top(k)]
    BY <1>5
  <2> HIDE DEF cut, places
  <2>2. DOMAIN cut = places /\ \A k \in places : cut[k] = top(k)
    BY <2>1
  <2>3. Answer(sorted, limit) = [k \in places |-> SearchMatch(top(k))]
    BY <1>3, <2>2
  <2> QED
    BY <2>3 DEF places
<1> QED
  BY <1>6 DEF top, n

-----------------------------------------------------------------------------
(* The scores *)

Described(E) ==
  \A e \in E : e.name \in Text /\ e.description \in Text /\ e.tags \in Seq(Text)

\* A finite query has finitely many tokens.
LEMMA TokensFinite ==
  ASSUME NEW query \in SUBSET Raw, IsFiniteSet(query)
  PROVE  IsFiniteSet(tokenize(query))
<1> DEFINE group(r) == {r} \cup Parts[r]
           groups == {group(r) : r \in query}
           g == [r \in query |-> group(r)]
           kept == UNION groups \ Short
           h == [t \in kept |-> Lower[t]]
<1>1. \A r \in query : IsFiniteSet(group(r))
  BY FS_AddElement, SearchAssumption, FS_EmptySet, FS_Union, FS_Singleton
<1>2. IsFiniteSet(groups)
  <2> HIDE DEF group
  <2>1. g \in Surjection(query, groups)
    BY DEF Surjection
  <2> HIDE DEF g, groups
  <2> QED
    BY <2>1, FS_Surjection
<1>3. IsFiniteSet(UNION groups)
  <2>1. \A T \in groups : IsFiniteSet(T)
    BY <1>1
  <2> HIDE DEF groups
  <2> QED
    BY <1>2, <2>1, FS_UNION
<1>4. IsFiniteSet(kept)
  <2> HIDE DEF groups
  <2>1. kept \in SUBSET (UNION groups)
    OBVIOUS
  <2> QED
    BY <1>3, <2>1, FS_Subset
<1>5. tokenize(query) = {Lower[t] : t \in kept}
  BY DEF tokenize
<1> HIDE DEF kept
<1>6. h \in Surjection(kept, {Lower[t] : t \in kept})
  BY DEF Surjection
<1> HIDE DEF h
<1> QED
  BY <1>4, <1>5, <1>6, FS_Surjection

\* The layers give natural numbers.
LEMMA LayersNatural ==
  ASSUME NEW tokens, IsFiniteSet(tokens), NEW E, Described(E), NEW e \in E
  PROVE  /\ layerTagMatch(tokens, e) \in Nat
         /\ layerNameMatch(tokens, e) \in Nat
         /\ layerDescriptionMatch(tokens, e) \in Nat
<1>1. Len(e.tags) \in Nat /\ DOMAIN e.tags = 1 .. Len(e.tags)
  BY DEF Described
<1>2. IsFiniteSet(DOMAIN e.tags)
  BY <1>1, Interval
<1>3. layerTagMatch(tokens, e) \in Nat
  <2> DEFINE all == tokens \X DOMAIN e.tags
             some == {m \in all : <<m[1], e.tags[m[2]]>> \in Holds}
  <2>1. IsFiniteSet(all)
    BY <1>2, FS_Product
  <2>2. some \in SUBSET all
    OBVIOUS
  <2>3. layerTagMatch(tokens, e) = 8 * Cardinality(some)
    BY DEF layerTagMatch, tagMatchScore
  <2> HIDE DEF all, some
  <2>4. Cardinality(some) \in Nat
    BY <2>1, <2>2, FS_Subset, FS_CardinalityType
  <2> QED
    BY <2>3, <2>4
<1>4. layerDescriptionMatch(tokens, e) \in Nat
  <2> DEFINE some == {t \in tokens : <<t, e.description>> \in Holds}
  <2>1. some \in SUBSET tokens
    OBVIOUS
  <2>2. layerDescriptionMatch(tokens, e) = 5 * Cardinality(some)
    BY DEF layerDescriptionMatch, descriptionMatchScore
  <2> HIDE DEF some
  <2>3. Cardinality(some) \in Nat
    BY <2>1, FS_Subset, FS_CardinalityType
  <2> QED
    BY <2>2, <2>3
<1>5. layerNameMatch(tokens, e) \in Nat
  BY DEF layerNameMatch, exactNameMatchScore, partialNameMatchScore
<1> QED
  BY <1>3, <1>4, <1>5

\* Those that stay when some entry matches by its name or a tag.
Contenders(tokens, entries) ==
  {i \in DOMAIN entries :
     (\E j \in DOMAIN entries : Strong(tokens, entries[j])) => Strong(tokens, entries[i])}

Score(tokens, e) ==
  layerTagMatch(tokens, e) + layerNameMatch(tokens, e) + layerDescriptionMatch(tokens, e)

\* The bonus for a tag without a name never reaches an answer: it is given
\* only where nothing is strong, and an entry that earns it is.
LEMMA ScoredIs ==
  ASSUME NEW E, Described(E), NEW entries \in Seq(E), NEW tokens, IsFiniteSet(tokens)
  PROVE  LET J == Contenders(tokens, entries)
         IN  /\ J \in SUBSET (1 .. Len(entries)) /\ Cardinality(J) \in Nat
             /\ Scored(tokens, entries) =
                  [k \in 1 .. Cardinality(J) |->
                     scoredEntry(entries[Place(J)[k]], Score(tokens, entries[Place(J)[k]]))]
             /\ Scored(tokens, entries) \in ScoredEntries(E)
<1> DEFINE n == Len(entries)
           J == Contenders(tokens, entries)
           at(k) == entries[Place(J)[k]]
<1>1. n \in Nat /\ DOMAIN entries = 1 .. n /\ \A i \in 1 .. n : entries[i] \in E
  OBVIOUS
<1>2. J \in SUBSET (1 .. n) /\ Cardinality(J) \in Nat
  BY <1>1, FinitePart DEF Contenders
<1>3. KeptBy(Place(J), entries, J)
  BY <1>1, <1>2, KeptIs
<1>4. /\ Kept(entries, J) = [k \in 1 .. Cardinality(J) |-> at(k)]
      /\ \A k \in 1 .. Cardinality(J) : at(k) \in E
  BY <1>1, <1>2, <1>3 DEF KeptBy
<1>5. \A e \in E : /\ layerTagMatch(tokens, e) \in Nat
                   /\ layerNameMatch(tokens, e) \in Nat
                   /\ layerDescriptionMatch(tokens, e) \in Nat
  BY LayersNatural
<1>6. Scored(tokens, entries) =
        [k \in 1 .. Cardinality(J) |-> scoredEntry(at(k), Score(tokens, at(k)))]
  <2>1. CASE \E j \in DOMAIN entries : Strong(tokens, entries[j])
    <3>1. J = {i \in DOMAIN entries : Strong(tokens, entries[i])}
      BY <2>1 DEF Contenders
    <3> DEFINE strong == Kept(entries, J)
    <3>2. Scored(tokens, entries) =
            [i \in DOMAIN strong |-> scoredEntry(strong[i], Score(tokens, strong[i]))]
      BY <2>1, <3>1 DEF Scored, Score
    <3> HIDE DEF J, at
    <3> QED
      BY <1>4, <3>2
  <2>2. CASE ~ \E j \in DOMAIN entries : Strong(tokens, entries[j])
    <3>1. J = 1 .. n
      BY <1>1, <2>2 DEF Contenders
    <3>2. Cardinality(J) = n /\ \A k \in 1 .. n : at(k) = entries[k]
      BY <1>1, <3>1, PlaceOfAll
    <3>3. ASSUME NEW i \in 1 .. n
          PROVE  layerAggregate(tokens, entries[i])
                   = scoredEntry(entries[i], Score(tokens, entries[i]))
      <4>1. ~Strong(tokens, entries[i]) /\ entries[i] \in E
        BY <1>1, <2>2
      <4>2. ~(layerTagMatch(tokens, entries[i]) > 0)
        BY <1>5, <4>1 DEF Strong
      <4>3. layerAggregate(tokens, entries[i]) = scoredEntry(entries[i], Score(tokens, entries[i]) + 0)
        BY <4>2 DEF layerAggregate, Score
      <4>4. Score(tokens, entries[i]) \in Nat
        BY <1>5, <4>1 DEF Score
      <4> QED
        BY <4>3, <4>4
    <3>4. Scored(tokens, entries) = [i \in 1 .. n |-> layerAggregate(tokens, entries[i])]
      BY <1>1, <2>2 DEF Scored
    <3> HIDE DEF J, at, n
    <3> QED
      BY <3>2, <3>3, <3>4
  <2> QED
    BY <2>1, <2>2
<1>7. \A k \in 1 .. Cardinality(J) :
        scoredEntry(at(k), Score(tokens, at(k))) \in [entry : E, score : Nat]
  <2> HIDE DEF at, J
  <2> QED
    BY <1>4, <1>5 DEF scoredEntry, Score
<1>8. Scored(tokens, entries) \in ScoredEntries(E)
  <2> DEFINE X == [entry : E, score : Nat]
             f(k) == scoredEntry(at(k), Score(tokens, at(k)))
  <2>1. \A k \in 1 .. Cardinality(J) : f(k) \in X
    BY <1>7
  <2>2. Scored(tokens, entries) = [k \in 1 .. Cardinality(J) |-> f(k)]
    BY <1>6
  <2> HIDE DEF X, f, J, at
  <2>3. Scored(tokens, entries) \in Seq(X)
    BY <1>2, <2>1, <2>2
  <2> QED
    BY <2>3 DEF ScoredEntries, X
<1> QED
  BY <1>2, <1>6, <1>8

-----------------------------------------------------------------------------
(* The answer *)

AtMost(n, limit) == IF n > limit THEN limit ELSE n

\* The best of the survivors, best first.
TheAnswer(scored, limit) ==
  [k \in 1 .. AtMost(Cardinality(Survivors(scored)), limit) |->
     SearchMatch(scored[Best(scored)[k]])]

\* A search has one answer.
LEMMA SearchIs ==
  ASSUME NEW E, Described(E), NEW entries \in Seq(E),
         NEW q \in SUBSET Raw, IsFiniteSet(q), NEW most \in Nat,
         NEW m \in Search(entries, q, most)
  PROVE  m = TheAnswer(Scored(tokenize(q), entries), IF most = 0 THEN 5 ELSE most)
<1> DEFINE scored == Scored(tokenize(q), entries)
           cut == IF most = 0 THEN 5 ELSE most
<1>1. cut \in Nat /\ Named(E)
  BY DEF Described, Named
<1>2. scored \in ScoredEntries(E)
  BY TokensFinite, ScoredIs
<1>3. PICK s \in Sorts(scored) : m = Answer(s, cut)
  BY DEF Search
<1> HIDE DEF scored, cut
<1> QED
  BY <1>1, <1>2, <1>3, AnswerIs DEF TheAnswer, AtMost, scored, cut

\* No sources are looked at: indexes with the same names, descriptions and
\* tags in the same order have answers that differ in the sources alone.
Alike(entries, others) ==
  /\ DOMAIN entries = DOMAIN others
  /\ \A i \in DOMAIN entries :
       /\ entries[i].name = others[i].name
       /\ entries[i].description = others[i].description
       /\ entries[i].tags = others[i].tags

LEMMA AlikeScored ==
  ASSUME NEW E, Described(E), NEW entries \in Seq(E), NEW others \in Seq(E),
         Alike(entries, others), NEW tokens, IsFiniteSet(tokens)
  PROVE  LET a == Scored(tokens, entries)
             b == Scored(tokens, others)
         IN  /\ DOMAIN a = DOMAIN b
             /\ \A k \in DOMAIN a :
                  /\ a[k].score = b[k].score
                  /\ a[k].entry.name = b[k].entry.name
                  /\ a[k].entry.description = b[k].entry.description
                  /\ a[k].entry.tags = b[k].entry.tags
<1> DEFINE J == Contenders(tokens, entries)
           p == Place(J)
           places == 1 .. Cardinality(J)
<1>1. \A i \in DOMAIN entries :
        /\ layerTagMatch(tokens, entries[i]) = layerTagMatch(tokens, others[i])
        /\ layerNameMatch(tokens, entries[i]) = layerNameMatch(tokens, others[i])
        /\ layerDescriptionMatch(tokens, entries[i]) = layerDescriptionMatch(tokens, others[i])
  BY DEF Alike, layerTagMatch, layerNameMatch, layerDescriptionMatch
<1>2. \A i \in DOMAIN entries :
        /\ Strong(tokens, entries[i]) <=> Strong(tokens, others[i])
        /\ Score(tokens, entries[i]) = Score(tokens, others[i])
  BY <1>1 DEF Strong, Score
<1>3. J = Contenders(tokens, others)
  BY <1>2 DEF Contenders, Alike
<1>4. /\ J \in SUBSET (1 .. Len(entries))
      /\ Scored(tokens, entries) =
           [k \in places |-> scoredEntry(entries[p[k]], Score(tokens, entries[p[k]]))]
  BY ScoredIs
<1>5. Scored(tokens, others) =
        [k \in places |-> scoredEntry(others[p[k]], Score(tokens, others[p[k]]))]
  BY <1>3, ScoredIs
<1>6. \A k \in places : p[k] \in DOMAIN entries
  <2>1. Len(entries) \in Nat /\ DOMAIN entries = 1 .. Len(entries)
    OBVIOUS
  <2> HIDE DEF J
  <2>2. KeptBy(p, entries, J)
    BY <1>4, <2>1, KeptIs
  <2> QED
    BY <1>4, <2>1, <2>2 DEF KeptBy
<1> HIDE DEF places, p, J
<1>7. ASSUME NEW k \in places
      PROVE  /\ Scored(tokens, entries)[k].score = Score(tokens, entries[p[k]])
             /\ Scored(tokens, entries)[k].entry = entries[p[k]]
             /\ Scored(tokens, others)[k].score = Score(tokens, others[p[k]])
             /\ Scored(tokens, others)[k].entry = others[p[k]]
  BY <1>4, <1>5 DEF scoredEntry
<1>8. DOMAIN Scored(tokens, entries) = places /\ DOMAIN Scored(tokens, others) = places
  BY <1>4, <1>5
<1> QED
  BY <1>2, <1>6, <1>7, <1>8 DEF Alike

LEMMA AlikeAnswers ==
  ASSUME NEW E, Described(E), NEW entries \in Seq(E), NEW others \in Seq(E),
         Alike(entries, others), NEW q \in SUBSET Raw, IsFiniteSet(q), NEW most \in Nat,
         NEW m \in Search(entries, q, most), NEW o \in Search(others, q, most)
  PROVE  /\ Len(m) = Len(o)
         /\ \A i \in DOMAIN m :
              /\ i \in DOMAIN o
              /\ m[i].name = o[i].name /\ m[i].description = o[i].description
              /\ m[i].tags = o[i].tags /\ m[i].score = o[i].score
<1> DEFINE a == Scored(tokenize(q), entries)
           b == Scored(tokenize(q), others)
           cut == IF most = 0 THEN 5 ELSE most
<1>1. IsFiniteSet(tokenize(q))
  BY TokensFinite
<1>2. /\ DOMAIN a = DOMAIN b
      /\ \A k \in DOMAIN a :
           /\ a[k].score = b[k].score
           /\ a[k].entry.name = b[k].entry.name
           /\ a[k].entry.description = b[k].entry.description
           /\ a[k].entry.tags = b[k].entry.tags
  BY <1>1, AlikeScored
<1>3. a \in ScoredEntries(E)
  BY <1>1, ScoredIs
<1>4. m = TheAnswer(a, cut) /\ o = TheAnswer(b, cut) /\ cut \in Nat
  BY SearchIs
<1> HIDE DEF a, b, cut
<1>5. Survivors(a) = Survivors(b)
  BY <1>2 DEF Survivors
<1>6. Ahead(a) = Ahead(b)
  BY <1>2 DEF Ahead, IsAhead
<1>7. Best(a) = Best(b)
  BY <1>5, <1>6 DEF Best
<1> DEFINE n == AtMost(Cardinality(Survivors(a)), cut)
<1>8. /\ Cardinality(Survivors(a)) \in Nat /\ n \in Nat
      /\ \A k \in 1 .. n : Best(a)[k] \in DOMAIN a
  <2>1. /\ Survivors(a) \in SUBSET (1 .. Len(a))
        /\ Cardinality(Survivors(a)) \in Nat
        /\ Best(a) \in Listings(Ahead(a), Survivors(a))
    BY <1>3, SurvivorsOrdered DEF Described, Named
  <2>2. Best(a) \in [1 .. Cardinality(Survivors(a)) -> Survivors(a)]
    BY <2>1 DEF Listings
  <2>3. Survivors(a) \in SUBSET DOMAIN a
    BY DEF Survivors
  <2> QED
    BY <1>4, <2>1, <2>2, <2>3 DEF AtMost
<1>9. /\ m = [k \in 1 .. n |-> SearchMatch(a[Best(a)[k]])]
      /\ o = [k \in 1 .. n |-> SearchMatch(b[Best(a)[k]])]
  BY <1>4, <1>5, <1>7 DEF TheAnswer
<1> HIDE DEF n
<1>10. Len(m) = n /\ Len(o) = n /\ DOMAIN m = 1 .. n /\ DOMAIN o = 1 .. n
  BY <1>8, <1>9
<1> QED
  BY <1>2, <1>8, <1>9, <1>10 DEF SearchMatch

-----------------------------------------------------------------------------
(* A call of Search *)

\* An answer is always one that Search gives.
CallInv ==
  /\ catalog \in Indexes
  /\ asked \in Queries
  /\ upTo \in Limit
  /\ answered \in BOOLEAN
  /\ answered => found \in Search(catalog, asked, upTo)
  /\ ~answered => found = <<>>

THEOREM CallAlways == CallSpec => []CallInv
<1>1. CallInit => CallInv
  BY DEF CallInit, CallInv
<1>2. CallInv /\ [CallNext]_callVars => CallInv'
  <2> SUFFICES ASSUME CallInv, [CallNext]_callVars PROVE CallInv'
    OBVIOUS
  <2>1. CASE Ask
    BY <2>1 DEF Ask, CallInv
  <2>2. CASE Again
    BY <2>2 DEF Again, CallInv
  <2>3. CASE UNCHANGED callVars
    BY <2>3 DEF callVars, CallInv
  <2> QED
    BY <2>1, <2>2, <2>3 DEF CallNext
<1> QED
  BY <1>1, <1>2, PTL DEF CallSpec

-----------------------------------------------------------------------------
allowed == IF upTo = 0 THEN 5 ELSE upTo

competitors == Scored(words, catalog)

LEMMA EntriesDescribed == Described(Entry)
BY CallAssumption DEF Described

LEMMA IndexTyped ==
  ASSUME CallInv
  PROVE  /\ catalog \in Seq(Entry)
         /\ IsFiniteSet(asked) /\ asked \in SUBSET Raw /\ IsFiniteSet(words)
         /\ upTo \in Nat /\ allowed \in Nat
<1>1. PICK n \in 0 .. MaxIndex : catalog \in [1 .. n -> Entry]
  BY DEF CallInv, Indexes
<1>2. catalog \in Seq(Entry)
  BY <1>1, CallAssumption
<1>3. IsFiniteSet(asked) /\ asked \in SUBSET Raw
  BY DEF CallInv, Queries
<1> QED
  BY <1>2, <1>3, TokensFinite, CallAssumption DEF CallInv, words, allowed

LEMMA Answered ==
  ASSUME CallInv, answered
  PROVE  found = TheAnswer(competitors, allowed)
BY IndexTyped, EntriesDescribed, SearchIs DEF CallInv, competitors, allowed, words

\* No two answers: whatever order the sort leaves ties in.
THEOREM AlwaysOneAnswer == CallSpec => []OneAnswer
<1>1. CallInv => OneAnswer
  <2> SUFFICES ASSUME CallInv, answered PROVE Search(catalog, asked, upTo) = {found}
    BY DEF OneAnswer
  <2>1. found \in Search(catalog, asked, upTo)
    BY DEF CallInv
  <2>2. ASSUME NEW m \in Search(catalog, asked, upTo) PROVE m = found
    <3>1. m = TheAnswer(competitors, allowed)
      BY <2>2, IndexTyped, EntriesDescribed, SearchIs DEF competitors, allowed, words
    <3> QED
      BY <3>1, Answered
  <2> QED
    BY <2>1, <2>2
<1> QED
  BY <1>1, CallAlways, PTL

-----------------------------------------------------------------------------
(* The ranking *)

place == Place(Competing)

\* The entry a position of the ranking stands for.
ranked(k) == catalog[place[k]]

Ranked == 1 .. Cardinality(Competing)

\* What the layers add up is what a match is worth.
LEMMA WorthIs ==
  ASSUME CallInv, NEW e \in Entry
  PROVE  /\ Worth(e) = Score(words, e) /\ Worth(e) \in Nat
         /\ ByDescriptionOnly(e) <=> ~Strong(words, e)
<1> DEFINE t == layerTagMatch(words, e)
           n == layerNameMatch(words, e)
           d == layerDescriptionMatch(words, e)
<1>1. t \in Nat /\ n \in Nat /\ d \in Nat
  BY IndexTyped, EntriesDescribed, LayersNatural
<1>2. Worth(e) = t + d + n
  BY DEF Worth, layerTagMatch, layerNameMatch, layerDescriptionMatch, tagMatchScore,
         exactNameMatchScore, partialNameMatchScore, descriptionMatchScore
<1>3. ByDescriptionOnly(e) <=> Worth(e) = d
  BY DEF ByDescriptionOnly, layerDescriptionMatch, descriptionMatchScore
<1>4. Score(words, e) = t + n + d /\ (Strong(words, e) <=> t + n > 0)
  BY DEF Score, Strong
<1> HIDE DEF t, n, d
<1> QED
  BY <1>1, <1>2, <1>3, <1>4

LEMMA CompetingIs ==
  ASSUME CallInv
  PROVE  /\ Competing = Contenders(words, catalog)
         /\ Competing \in SUBSET (1 .. Len(catalog)) /\ DOMAIN catalog = 1 .. Len(catalog)
         /\ Cardinality(Competing) \in Nat
         /\ competitors \in ScoredEntries(Entry)
         /\ DOMAIN competitors = Ranked
         /\ \A k \in Ranked : /\ place[k] \in Competing
                              /\ competitors[k].entry = ranked(k)
                              /\ competitors[k].score = Worth(ranked(k))
                              /\ ranked(k) \in Entry
         /\ \A j, k \in Ranked : place[j] = place[k] => j = k
         /\ \A i \in Competing : \E k \in Ranked : place[k] = i
<1>1. \A i \in DOMAIN catalog : catalog[i] \in Entry
  BY IndexTyped
<1>2. Competing = Contenders(words, catalog)
  BY <1>1, WorthIs DEF Competing, Contenders
<1>3. /\ Competing \in SUBSET (1 .. Len(catalog)) /\ DOMAIN catalog = 1 .. Len(catalog)
      /\ Cardinality(Competing) \in Nat /\ Len(catalog) \in Nat
      /\ competitors = [k \in Ranked |-> scoredEntry(ranked(k), Score(words, ranked(k)))]
      /\ competitors \in ScoredEntries(Entry)
  <2>1. Len(catalog) \in Nat /\ DOMAIN catalog = 1 .. Len(catalog)
    BY IndexTyped
  <2>2. Described(Entry) /\ catalog \in Seq(Entry) /\ IsFiniteSet(words)
    BY IndexTyped, EntriesDescribed
  <2>3. LET J == Contenders(words, catalog)
        IN  /\ J \in SUBSET (1 .. Len(catalog)) /\ Cardinality(J) \in Nat
            /\ Scored(words, catalog) =
                 [k \in 1 .. Cardinality(J) |->
                    scoredEntry(catalog[Place(J)[k]], Score(words, catalog[Place(J)[k]]))]
            /\ Scored(words, catalog) \in ScoredEntries(Entry)
    BY <2>2, ScoredIs, Zenon
  <2>4. /\ Competing \in SUBSET (1 .. Len(catalog)) /\ Cardinality(Competing) \in Nat
        /\ competitors = [k \in Ranked |-> scoredEntry(ranked(k), Score(words, ranked(k)))]
        /\ competitors \in ScoredEntries(Entry)
    BY <1>2, <2>3, Zenon DEF competitors, Ranked, ranked, place
  <2> QED
    BY <2>1, <2>4
<1>4. KeptBy(place, catalog, Competing)
  BY <1>3, KeptIs DEF place
<1>5. /\ place \in [Ranked -> Competing]
      /\ \A j, k \in Ranked : j < k => place[j] < place[k]
      /\ \A i \in Competing : \E k \in Ranked : place[k] = i
  BY <1>4 DEF KeptBy, Ranked
<1>6. \A j, k \in Ranked : place[j] = place[k] => j = k
  <2>1. \A k \in Ranked : place[k] \in Nat /\ k \in Nat
    <3>1. \A i \in Competing : i \in Nat
      BY <1>3
    <3>2. \A k \in Ranked : k \in Nat
      BY <1>3 DEF Ranked
    <3> QED
      BY <1>5, <3>1, <3>2
  <2>2. \A j, k \in Ranked : j < k => place[j] # place[k]
    BY <1>5, <2>1
  <2> QED
    BY <2>1, <2>2
<1>7. \A k \in Ranked : place[k] \in Competing /\ ranked(k) \in Entry
  BY <1>1, <1>3, <1>5 DEF ranked
<1>8. \A k \in Ranked : /\ competitors[k].entry = ranked(k)
                        /\ competitors[k].score = Worth(ranked(k))
  BY <1>3, <1>7, WorthIs DEF scoredEntry
<1> QED
  BY <1>2, <1>3, <1>5, <1>6, <1>7, <1>8

\* The eligible entries are those the survivors stand for.
LEMMA EligibleIs ==
  ASSUME CallInv
  PROVE  /\ \A k \in Survivors(competitors) : k \in Ranked /\ place[k] \in Eligible
         /\ \A i \in Eligible : \E k \in Survivors(competitors) : place[k] = i
         /\ Cardinality(Eligible) = Cardinality(Survivors(competitors))
<1>1. ASSUME NEW k \in Survivors(competitors) PROVE k \in Ranked /\ place[k] \in Eligible
  <2>1. /\ k \in Ranked /\ competitors[k].score > 0
        /\ \A j \in Ranked \ {k} : competitors[j].entry.name # competitors[k].entry.name
    BY CompetingIs DEF Survivors
  <2>2. /\ place[k] \in Competing /\ Worth(catalog[place[k]]) > 0
        /\ competitors[k].entry.name = catalog[place[k]].name
    BY <2>1, CompetingIs DEF ranked
  <2>3. ASSUME NEW j \in Competing, catalog[j].name = catalog[place[k]].name PROVE j = place[k]
    <3>1. PICK l \in Ranked : place[l] = j
      BY CompetingIs
    <3>2. competitors[l].entry.name = competitors[k].entry.name
      BY <2>2, <2>3, <3>1, CompetingIs DEF ranked
    <3> QED
      BY <2>1, <3>1, <3>2
  <2> QED
    BY <2>1, <2>2, <2>3 DEF Eligible
<1>2. ASSUME NEW i \in Eligible PROVE \E k \in Survivors(competitors) : place[k] = i
  <2>1. /\ i \in Competing /\ Worth(catalog[i]) > 0
        /\ \A j \in Competing : catalog[j].name = catalog[i].name => j = i
    BY DEF Eligible
  <2>2. PICK k \in Ranked : place[k] = i
    BY <2>1, CompetingIs
  <2>3. competitors[k].score > 0
    BY <2>1, <2>2, CompetingIs DEF ranked
  <2>4. ASSUME NEW j \in Ranked \ {k} PROVE competitors[j].entry.name # competitors[k].entry.name
    <3>1. place[j] # i /\ place[j] \in Competing
      BY <2>2, CompetingIs
    <3>2. catalog[place[j]].name # catalog[i].name
      BY <2>1, <3>1
    <3> QED
      BY <2>2, <3>2, CompetingIs DEF ranked
  <2> QED
    BY <2>2, <2>3, <2>4, CompetingIs DEF Survivors
<1> DEFINE f == [k \in Survivors(competitors) |-> place[k]]
<1>3. f \in Bijection(Survivors(competitors), Eligible)
  <2>1. \A j, k \in Survivors(competitors) : f[j] = f[k] => j = k
    BY <1>1, CompetingIs
  <2>2. f \in [Survivors(competitors) -> Eligible]
    BY <1>1
  <2>3. \A i \in Eligible : \E k \in Survivors(competitors) : f[k] = i
    BY <1>2
  <2> HIDE DEF f
  <2> QED
    BY <2>1, <2>2, <2>3 DEF Bijection, Injection, Surjection, IsInjective
<1>4. IsFiniteSet(Survivors(competitors))
  BY CompetingIs, EntriesDescribed, SurvivorsOrdered DEF Described, Named
<1>5. Cardinality(Survivors(competitors)) = Cardinality(Eligible)
  BY <1>3, <1>4, FS_Bijection DEF ExistsBijection
<1> QED
  BY <1>1, <1>2, <1>5

Length == AtMost(Cardinality(Eligible), allowed)

Listed == 1 .. Cardinality(Eligible)

top(m) == place[Best(competitors)[m]]

LEMMA TopIs ==
  ASSUME CallInv
  PROVE  /\ Cardinality(Eligible) \in Nat
         /\ \A m \in Listed : /\ top(m) \in Eligible /\ top(m) \in Competing
                              /\ Best(competitors)[m] \in Ranked
                              /\ catalog[top(m)] \in Entry
         /\ \A i \in Eligible : \E m \in Listed : top(m) = i
         /\ \A m, n \in Listed : m < n =>
              \/ Worth(catalog[top(m)]) > Worth(catalog[top(n)])
              \/ /\ Worth(catalog[top(m)]) = Worth(catalog[top(n)])
                 /\ Order[catalog[top(m)].name] < Order[catalog[top(n)].name]
<1> DEFINE U == Survivors(competitors)
           best == Best(competitors)
<1>1. /\ IsFiniteSet(U) /\ Cardinality(U) \in Nat
      /\ StrictOrder(Ahead(competitors), U)
      /\ best \in Listings(Ahead(competitors), U)
  BY CompetingIs, EntriesDescribed, SurvivorsOrdered DEF Described, Named
<1>2. Cardinality(Eligible) = Cardinality(U)
  BY EligibleIs
<1>3. /\ \A m \in Listed : best[m] \in U
      /\ \A m, n \in Listed : m < n => <<best[m], best[n]>> \in Ahead(competitors)
  BY <1>1, <1>2 DEF Listings, Listed
<1>4. \A u \in U : \E m \in Listed : best[m] = u
  BY <1>1, <1>2, ListingRank DEF Listed
<1> HIDE DEF U, best
<1>5. \A m \in Listed : /\ best[m] \in Ranked /\ top(m) \in Eligible /\ top(m) \in Competing
                        /\ competitors[best[m]].entry = catalog[top(m)]
                        /\ competitors[best[m]].score = Worth(catalog[top(m)])
                        /\ catalog[top(m)] \in Entry
  BY <1>3, CompetingIs, EligibleIs DEF U, best, top, ranked
<1>6. ASSUME NEW i \in Eligible PROVE \E m \in Listed : top(m) = i
  BY <1>4, EligibleIs DEF U, best, top
<1>7. ASSUME NEW m \in Listed, NEW n \in Listed, m < n
      PROVE  \/ Worth(catalog[top(m)]) > Worth(catalog[top(n)])
             \/ /\ Worth(catalog[top(m)]) = Worth(catalog[top(n)])
                /\ Order[catalog[top(m)].name] < Order[catalog[top(n)].name]
  <2>1. best[m] \in DOMAIN competitors /\ best[n] \in DOMAIN competitors
    BY <1>5, CompetingIs
  <2>2. IsAhead(competitors, best[m], best[n])
    BY <1>3, <1>7, <2>1, AheadMeans
  <2> QED
    BY <1>5, <2>2 DEF IsAhead
<1> QED
  BY <1>1, <1>2, <1>5, <1>6, <1>7 DEF best

LEMMA MatchesAre ==
  ASSUME CallInv, answered
  PROVE  /\ Length \in Nat /\ Length <= Cardinality(Eligible)
         /\ Len(found) = Length /\ DOMAIN found = 1 .. Length
         /\ \A m \in 1 .. Length : /\ m \in Listed
                                   /\ found[m].name = catalog[top(m)].name
                                   /\ found[m].source = catalog[top(m)].source
                                   /\ found[m].score = Worth(catalog[top(m)])
<1>1. Length \in Nat /\ Length <= Cardinality(Eligible) /\ Cardinality(Eligible) \in Nat
  BY IndexTyped, TopIs DEF Length, AtMost
<1>2. found = [k \in 1 .. Length |-> SearchMatch(competitors[Best(competitors)[k]])]
  BY Answered, EligibleIs DEF TheAnswer, Length
<1>3. Len(found) = Length /\ DOMAIN found = 1 .. Length
  BY <1>1, <1>2
<1>4. ASSUME NEW m \in 1 .. Length
      PROVE  /\ m \in Listed
             /\ found[m].name = catalog[top(m)].name
             /\ found[m].source = catalog[top(m)].source
             /\ found[m].score = Worth(catalog[top(m)])
  <2>1. m \in Listed
    BY <1>1 DEF Listed
  <2>2. /\ competitors[Best(competitors)[m]].entry = catalog[top(m)]
        /\ competitors[Best(competitors)[m]].score = Worth(catalog[top(m)])
    BY <2>1, TopIs, CompetingIs DEF top, ranked
  <2>3. found[m] = SearchMatch(competitors[Best(competitors)[m]])
    BY <1>2
  <2> QED
    BY <2>1, <2>2, <2>3 DEF SearchMatch
<1> QED
  BY <1>1, <1>3, <1>4

-----------------------------------------------------------------------------
(* The properties *)

\* Every match is an entry of the index.
THEOREM CallTypeCorrect == CallSpec => []CallTypeOK
<1>1. CallInv => CallTypeOK
  <2> SUFFICES ASSUME CallInv, NEW i \in DOMAIN found
               PROVE  \E j \in DOMAIN catalog : /\ found[i].name = catalog[j].name
                                              /\ found[i].source = catalog[j].source
    BY DEF CallTypeOK, CallInv
  <2>1. answered
    BY DEF CallInv
  <2>2. i \in 1 .. Length
    BY <2>1, MatchesAre
  <2>3. top(i) \in DOMAIN catalog
    BY <2>1, <2>2, MatchesAre, TopIs DEF Competing
  <2> QED
    BY <2>1, <2>2, <2>3, MatchesAre
<1> QED
  BY <1>1, CallAlways, PTL

\* A description match is never listed beside a match by name or tag.
THEOREM DescriptionAlwaysFallback == CallSpec => []DescriptionIsFallback
<1>1. CallInv => DescriptionIsFallback
  <2> SUFFICES ASSUME CallInv, NEW m \in DOMAIN found
               PROVE  \E i \in Competing : /\ catalog[i].name = found[m].name
                                           /\ catalog[i].source = found[m].source
    BY DEF DescriptionIsFallback
  <2>1. answered
    BY DEF CallInv
  <2>2. m \in 1 .. Length
    BY <2>1, MatchesAre
  <2> QED
    BY <2>1, <2>2, MatchesAre, TopIs
<1> QED
  BY <1>1, CallAlways, PTL

\* An answer is the best of the eligible entries, best first.
THEOREM AlwaysBestFirst == CallSpec => []BestFirst
<1>1. ASSUME CallInv, answered PROVE BestFirst
  <2> DEFINE rank == [m \in DOMAIN found |->
                        CHOOSE i \in Eligible : catalog[i].name = found[m].name]
             Before(i, j) ==
               \/ Worth(catalog[i]) > Worth(catalog[j])
               \/ /\ Worth(catalog[i]) = Worth(catalog[j])
                  /\ Order[catalog[i].name] < Order[catalog[j].name]
  <2>1. /\ Cardinality(Eligible) \in Nat /\ Length \in Nat /\ Length <= Cardinality(Eligible)
        /\ Len(found) = Length /\ DOMAIN found = 1 .. Length
    BY <1>1, MatchesAre, TopIs
  <2>2. \A m, n \in Listed : m < n => Before(top(m), top(n))
    BY <1>1, TopIs
  <2>3. ASSUME NEW m \in 1 .. Length
        PROVE  rank[m] = top(m) /\ top(m) \in Eligible /\ m \in Listed
    <3>1. /\ m \in Listed /\ top(m) \in Eligible /\ top(m) \in Competing
          /\ found[m].name = catalog[top(m)].name
      BY <1>1, MatchesAre, TopIs
    <3>2. ASSUME NEW i \in Eligible, catalog[i].name = found[m].name PROVE i = top(m)
      BY <3>1, <3>2 DEF Eligible
    <3>3. (CHOOSE i \in Eligible : catalog[i].name = found[m].name) = top(m)
      BY <3>1, <3>2
    <3> QED
      BY <2>1, <3>1, <3>3
  <2>4. Len(found) = IF Cardinality(Eligible) > allowed THEN allowed ELSE Cardinality(Eligible)
    BY <2>1 DEF Length, AtMost
  <2> HIDE DEF rank, Before
  <2>5. ASSUME NEW m \in DOMAIN found
        PROVE  /\ \E i \in Eligible : catalog[i].name = found[m].name
               /\ found[m].source = catalog[rank[m]].source
               /\ found[m].score = Worth(catalog[rank[m]])
               /\ \A n \in m + 1 .. Len(found) : Before(rank[m], rank[n])
               /\ \A j \in Eligible \ {rank[n] : n \in DOMAIN found} : Before(rank[m], j)
    <3>1. /\ m \in 1 .. Length /\ rank[m] = top(m) /\ top(m) \in Eligible /\ m \in Listed
          /\ found[m].name = catalog[top(m)].name
          /\ found[m].source = catalog[top(m)].source
          /\ found[m].score = Worth(catalog[top(m)])
      BY <1>1, <2>1, <2>3, MatchesAre
    <3>2. ASSUME NEW n \in m + 1 .. Len(found) PROVE Before(rank[m], rank[n])
      <4>1. n \in 1 .. Length /\ m < n
        BY <2>1, <3>1
      <4> QED
        BY <2>2, <2>3, <3>1, <4>1
    <3>3. ASSUME NEW j \in Eligible \ {rank[n] : n \in DOMAIN found}
          PROVE  Before(rank[m], j)
      <4>1. PICK k \in Listed : top(k) = j
        BY <1>1, TopIs
      <4>2. k \notin 1 .. Length
        BY <2>1, <2>3, <4>1
      <4>3. m < k
        BY <2>1, <3>1, <4>2 DEF Listed
      <4> QED
        BY <2>2, <3>1, <4>1, <4>3
    <3> QED
      BY <3>1, <3>2, <3>3
  <2> QED
    BY <2>4, <2>5 DEF BestFirst, rank, Before, allowed
<1>2. CallInv => BestFirst
  BY <1>1 DEF BestFirst
<1> QED
  BY <1>2, CallAlways, PTL

-----------------------------------------------------------------------------
(* The server *)

IndexEntries == {IndexEntry(f, c) : f \in Path, c \in Content}

Distinct(entries) ==
  \A i, j \in DOMAIN entries : entries[i].path = entries[j].path => i = j

LEMMA EntryIs ==
  /\ Described(IndexEntries)
  /\ \A f \in Path, c \in Content :
       /\ IndexEntry(f, c) \in IndexEntries
       /\ IndexEntry(f, c).path = f
       /\ IndexEntry(f, c).name = NameOf[c]
       /\ IndexEntry(f, c).checksum = hexSHA256(c)
  /\ \A e \in IndexEntries : \E f \in Path, c \in Content : e = IndexEntry(f, c)
BY ServerAssumption DEF IndexEntries, IndexEntry, Described

-----------------------------------------------------------------------------
(* The index *)

Present(files) == {f \in Path : files[f] # Missing}

Entries(files) == {IndexEntry(f, files[f]) : f \in Present(files)}

NamePrecedes(d, e) ==
  \/ Order[d.name] < Order[e.name]
  \/ d.name = e.name /\ PathOrder[d.path] < PathOrder[e.path]

ByName(files) ==
  {r \in Entries(files) \X Entries(files) : NamePrecedes(r[1], r[2])}

LEMMA EntriesOrdered ==
  ASSUME NEW files \in [Path -> Content \cup {Missing}]
  PROVE  /\ IsFiniteSet(Entries(files))
         /\ StrictOrder(ByName(files), Entries(files))
<1> DEFINE S == Entries(files)
<1>1. \A e \in S : /\ e.path \in Present(files) /\ e = IndexEntry(e.path, files[e.path])
                   /\ e.name \in Text /\ Order[e.name] \in Nat /\ PathOrder[e.path] \in Nat
  <2> SUFFICES ASSUME NEW f \in Present(files)
               PROVE  LET e == IndexEntry(f, files[f])
                      IN  /\ e.path = f /\ e.name \in Text
                          /\ Order[e.name] \in Nat /\ PathOrder[f] \in Nat
    BY DEF Entries
  <2>1. f \in Path /\ files[f] \in Content
    BY DEF Present
  <2>2. /\ IndexEntry(f, files[f]).path = f
        /\ IndexEntry(f, files[f]).name = NameOf[files[f]]
    BY <2>1, EntryIs
  <2>3. NameOf[files[f]] \in Text /\ PathOrder[f] \in Nat
    BY <2>1, ServerAssumption
  <2>4. Order[NameOf[files[f]]] \in Nat
    BY <2>3, SearchAssumption
  <2> QED
    BY <2>2, <2>3, <2>4
<1>2. IsFiniteSet(S)
  <2> DEFINE g == [f \in Present(files) |-> IndexEntry(f, files[f])]
  <2>1. IsFiniteSet(Present(files))
    BY ServerAssumption, FS_Subset DEF Present
  <2>2. g \in Surjection(Present(files), S)
    BY DEF Surjection, Entries
  <2> HIDE DEF g, S
  <2> QED
    BY <2>1, <2>2, FS_Surjection
<1>3. \A d, e \in S : <<d, e>> \in ByName(files) <=> NamePrecedes(d, e)
  BY DEF ByName
<1>4. \A d, e \in S : d = e \/ NamePrecedes(d, e) \/ NamePrecedes(e, d)
  <2> SUFFICES ASSUME NEW d \in S, NEW e \in S, d # e
               PROVE  NamePrecedes(d, e) \/ NamePrecedes(e, d)
    OBVIOUS
  <2>1. CASE d.name = e.name
    <3>1. d.path # e.path /\ d.path \in Path /\ e.path \in Path
      BY <1>1 DEF Present
    <3>2. PathOrder[d.path] # PathOrder[e.path]
      BY <3>1, ServerAssumption
    <3> HIDE DEF S
    <3> QED
      BY <1>1, <2>1, <3>2 DEF NamePrecedes
  <2>2. CASE d.name # e.name
    <3>1. Order[d.name] # Order[e.name]
      BY <1>1, <2>2, SearchAssumption
    <3> HIDE DEF S
    <3> QED
      BY <1>1, <3>1 DEF NamePrecedes
  <2> QED
    BY <2>1, <2>2
<1> HIDE DEF S
<1>5. \A d \in S : ~NamePrecedes(d, d)
  BY <1>1 DEF NamePrecedes
<1>6. ASSUME NEW c \in S, NEW d \in S, NEW e \in S, NamePrecedes(c, d), NamePrecedes(d, e)
      PROVE  NamePrecedes(c, e)
  BY <1>1, <1>6 DEF NamePrecedes
<1>7. StrictOrder(ByName(files), S)
  BY <1>3, <1>4, <1>5, <1>6 DEF StrictOrder
<1> QED
  BY <1>2, <1>7 DEF S

\* BuildIndex has an entry for each file that is there, and no other.
LEMMA BuildIndexIs ==
  ASSUME NEW files \in [Path -> Content \cup {Missing}]
  PROVE  /\ BuildIndex(files) \in Seq(IndexEntries)
         /\ Distinct(BuildIndex(files))
<1> DEFINE S == Entries(files)
           n == Cardinality(S)
           s == BuildIndex(files)
<1>1. IsFiniteSet(S) /\ StrictOrder(ByName(files), S) /\ n \in Nat
  BY EntriesOrdered, FS_CardinalityType
<1>2. PICK l \in Listings(ByName(files), S) : TRUE
  BY <1>1, ListingExists
<1>3. /\ l \in [1 .. n -> S]
      /\ \A i, j \in DOMAIN l : i < j => NamePrecedes(l[i], l[j])
  BY <1>2 DEF Listings, ByName
<1>4. s = CHOOSE t \in [1 .. n -> S] :
            \A i, j \in DOMAIN t : i < j => NamePrecedes(t[i], t[j])
  BY DEF BuildIndex, Entries, Present, NamePrecedes
<1> HIDE DEF S, n, s
<1>5. s \in [1 .. n -> S] /\ \A i, j \in DOMAIN s : i < j => NamePrecedes(s[i], s[j])
  BY <1>3, <1>4
<1>6. \A e \in S : e \in IndexEntries
  <2>1. \A f \in Present(files) : f \in Path /\ files[f] \in Content
    BY DEF Present
  <2> QED
    BY <2>1, EntryIs DEF S, Entries
<1>7. s \in Seq(IndexEntries)
  BY <1>1, <1>5, <1>6 DEF n
<1>8. Distinct(s)
  <2> SUFFICES ASSUME NEW i \in 1 .. n, NEW j \in 1 .. n, i < j PROVE s[i].path # s[j].path
    BY <1>1, <1>5 DEF Distinct
  <2>1. NamePrecedes(s[i], s[j]) /\ s[i] \in S /\ s[j] \in S
    BY <1>5
  <2>2. <<s[i], s[j]>> \in ByName(files)
    BY <2>1 DEF ByName, S
  <2>3. s[i] # s[j]
    BY <1>1, <2>1, <2>2 DEF StrictOrder
  <2>4. \A e \in S : e.path \in Present(files) /\ e = IndexEntry(e.path, files[e.path])
    <3>1. \A f \in Present(files) : IndexEntry(f, files[f]).path = f
      BY DEF IndexEntry
    <3> QED
      BY <3>1 DEF S, Entries
  <2> QED
    BY <2>1, <2>3, <2>4
<1> QED
  BY <1>7, <1>8 DEF s

-----------------------------------------------------------------------------
(* What the client holds *)

\* An answer of some index, with the hash of the query and of that index.
Fits(m) ==
  /\ DOMAIN m = {"matches", "hash"}
  /\ \E q \in Query, l \in 1 .. 10, entries \in Seq(IndexEntries) :
       /\ m.hash = searchQueryHash(q, l, StoreIndex(entries))
       /\ m.matches \in Search(entries, q, l)

LEMMA SameRevision ==
  ASSUME NEW entries \in Seq(IndexEntries), NEW others \in Seq(IndexEntries),
         StoreIndex(entries) = StoreIndex(others)
  PROVE  Alike(entries, others)
<1>1. DOMAIN entries = DOMAIN others
  BY DEF StoreIndex
<1>2. ASSUME NEW i \in DOMAIN entries
      PROVE  /\ entries[i].name = others[i].name
             /\ entries[i].description = others[i].description
             /\ entries[i].tags = others[i].tags
  <2>1. entries[i].checksum = others[i].checksum
    <3>1. StoreIndex(entries)[i] = <<entries[i].name, entries[i].checksum>>
      BY DEF StoreIndex
    <3>2. StoreIndex(others)[i] = <<others[i].name, others[i].checksum>>
      BY <1>1 DEF StoreIndex
    <3> QED
      BY <3>1, <3>2
  <2>2. entries[i] \in IndexEntries /\ others[i] \in IndexEntries
    BY <1>1
  <2>3. PICK f \in Path, c \in Content : entries[i] = IndexEntry(f, c)
    BY <2>2, EntryIs
  <2>4. PICK g \in Path, d \in Content : others[i] = IndexEntry(g, d)
    BY <2>2, EntryIs
  <2>5. c = d
    BY <2>1, <2>3, <2>4 DEF IndexEntry, hexSHA256
  <2> QED
    BY <2>3, <2>4, <2>5 DEF IndexEntry
<1> QED
  BY <1>1, <1>2 DEF Alike

LEMMA QueryTyped ==
  ASSUME NEW q \in Query
  PROVE  q \in SUBSET Raw /\ IsFiniteSet(q)
BY ServerAssumption

\* No answer is longer than its limit.
LEMMA AnswerLength ==
  ASSUME NEW q \in Query, NEW l \in 1 .. 10, NEW entries \in Seq(IndexEntries),
         NEW m \in Search(entries, q, l)
  PROVE  Len(m) <= l
<1> DEFINE scored == Scored(tokenize(q), entries)
           n == Cardinality(Survivors(scored))
<1>1. m = TheAnswer(scored, l)
  BY QueryTyped, EntryIs, SearchIs
<1>2. n \in Nat
  <2>1. scored \in ScoredEntries(IndexEntries)
    <3>1. IsFiniteSet(tokenize(q))
      BY QueryTyped, TokensFinite
    <3>2. Described(IndexEntries)
      BY EntryIs
    <3> QED
      BY <3>1, <3>2, ScoredIs
  <2> HIDE DEF scored
  <2> QED
    BY <2>1, EntryIs, SurvivorsOrdered DEF Described, Named
<1> HIDE DEF scored
<1>3. m = [k \in 1 .. AtMost(n, l) |-> SearchMatch(scored[Best(scored)[k]])]
  BY <1>1 DEF TheAnswer
<1> HIDE DEF n
<1>4. AtMost(n, l) \in Nat /\ AtMost(n, l) <= l
  BY <1>2 DEF AtMost
<1> QED
  BY <1>3, <1>4

\* What a server that recognises the hash would answer.
LEMMA RecognisedIsCurrent ==
  ASSUME NEW entries \in Seq(IndexEntries), NEW q \in Query, NEW l \in 1 .. 10,
         NEW m, Fits(m), m.hash = searchQueryHash(q, l, StoreIndex(entries))
  PROVE  /\ Len(m.matches) <= l
         /\ \A o \in Search(entries, q, l) :
              /\ Len(o) = Len(m.matches)
              /\ \A i \in DOMAIN o : WithoutSource(o[i]) = WithoutSource(m.matches[i])
<1>1. PICK p \in Query, k \in 1 .. 10, others \in Seq(IndexEntries) :
        /\ m.hash = searchQueryHash(p, k, StoreIndex(others))
        /\ m.matches \in Search(others, p, k)
  BY DEF Fits
<1>2. p = q /\ k = l /\ StoreIndex(others) = StoreIndex(entries)
  BY <1>1 DEF searchQueryHash
<1>3. Alike(entries, others)
  BY <1>2, SameRevision
<1>4. Len(m.matches) <= l
  BY <1>1, <1>2, AnswerLength
<1>5. ASSUME NEW o \in Search(entries, q, l)
      PROVE  /\ Len(o) = Len(m.matches)
             /\ \A i \in DOMAIN o : WithoutSource(o[i]) = WithoutSource(m.matches[i])
  <2>1. /\ Len(o) = Len(m.matches)
        /\ \A i \in DOMAIN o :
             /\ o[i].name = m.matches[i].name /\ o[i].description = m.matches[i].description
             /\ o[i].tags = m.matches[i].tags /\ o[i].score = m.matches[i].score
    <3>1. /\ Described(IndexEntries) /\ l \in Nat
          /\ q \in SUBSET Raw /\ IsFiniteSet(q)
      BY QueryTyped, EntryIs
    <3>2. m.matches \in Search(others, q, l)
      BY <1>1, <1>2
    <3> QED
      BY <1>3, <3>1, <3>2, AlikeAnswers
  <2>2. ASSUME NEW i \in DOMAIN o PROVE WithoutSource(o[i]) = WithoutSource(m.matches[i])
    BY <2>1, Zenon DEF WithoutSource
  <2> QED
    BY <2>1, <2>2
<1> QED
  BY <1>4, <1>5

-----------------------------------------------------------------------------
(* The server *)

ReplyFits ==
  /\ reply # Nothing => reply.kind \in {"error", "search", "load", "doctor"}
  /\ Searched =>
       /\ reply.query \in Query /\ reply.limit \in 1 .. 10
       /\ Fits(memo)
       /\ memo.hash = searchQueryHash(reply.query, reply.limit, StoreIndex(index))
  /\ reply # Nothing /\ reply.kind = "load" =>
       /\ \E i \in DOMAIN index :
            /\ index[i].name = reply.entry
            /\ disk[index[i].path] = document.content
            /\ document.sha = hexSHA256(disk[index[i].path])
       /\ (\E i \in DOMAIN index : index[i].name = reply.name) => reply.entry = reply.name
  /\ reply # Nothing /\ reply.kind = "doctor" =>
       reply.duplicates = {n \in Text : Duplicated(BuildIndex(disk), n)}

ServerInv ==
  /\ disk \in [Path -> Content \cup {Missing}]
  /\ index \in Seq(IndexEntries)
  /\ Distinct(index)
  /\ indexHash = StoreIndex(index)
  /\ memo # Nothing => Fits(memo)
  /\ document # Nothing =>
       document.content \in Content /\ document.sha = hexSHA256(document.content)
  /\ ReplyFits

\* The hash of a search is never Nothing.
LEMMA HashIsSomething ==
  ASSUME NEW q \in Query, NEW l \in 1 .. 10, NEW entries \in Seq(IndexEntries)
  PROVE  searchQueryHash(q, l, StoreIndex(entries)) # Nothing
<1> DEFINE hashes == {hexSHA256(c) : c \in Content}
<1>1. \A i \in DOMAIN entries : entries[i].name \in Text /\ entries[i].checksum \in hashes
  <2>1. \A e \in IndexEntries : e.name \in Text /\ e.checksum \in hashes
    BY EntryIs, ServerAssumption
  <2> QED
    BY <2>1
<1>2. StoreIndex(entries) \in Seq(Text \X hashes)
  <2> DEFINE f(i) == <<entries[i].name, entries[i].checksum>>
             X == Text \X hashes
  <2>1. \A i \in DOMAIN entries : f(i) \in X
    BY <1>1
  <2>2. StoreIndex(entries) = [i \in 1 .. Len(entries) |-> f(i)]
    BY DEF StoreIndex
  <2>3. Len(entries) \in Nat /\ DOMAIN entries = 1 .. Len(entries)
    OBVIOUS
  <2> HIDE DEF f, X
  <2> QED
    BY <2>1, <2>2, <2>3 DEF X
<1>3. <<q, l, StoreIndex(entries)>> \in Query \X Nat \X Seq(Text \X hashes)
  BY <1>2
<1> QED
  BY <1>3, NoHashAssumption DEF searchQueryHash

\* One search: what the client holds afterwards is an answer of this index.
LEMMA SearchKeeps ==
  ASSUME ServerInv, NEW query \in Query, NEW argument \in LimitArgument,
         search_skills(query, argument)
  PROVE  ServerInv'
<1> DEFINE limit == EffectiveLimit(argument)
           hash == searchQueryHash(query, limit, indexHash)
<1>1. limit \in 1 .. 10
  BY DEF EffectiveLimit
<1>2. /\ index \in Seq(IndexEntries) /\ indexHash = StoreIndex(index)
      /\ memo # Nothing => Fits(memo)
  BY DEF ServerInv
<1>3. hash # Nothing
  BY <1>1, <1>2, HashIsSomething
<1>4. PICK known \in IF memo = Nothing THEN {Nothing} ELSE {Nothing, memo.hash},
           answer \in Search(index, query, limit) :
        /\ reply' = [ kind |-> "search", query |-> query, limit |-> limit,
                      cached |-> known = hash, revision |-> indexHash ]
        /\ memo' = IF known = hash THEN memo ELSE [matches |-> answer, hash |-> hash]
        /\ UNCHANGED <<disk, index, indexHash, document>>
  BY DEF search_skills
<1>5. Fits(memo') /\ memo'.hash = hash
  <2>1. CASE known = hash
    <3>1. memo # Nothing /\ memo.hash = hash
      BY <1>3, <2>1
    <3> QED
      BY <1>2, <1>4, <2>1, <3>1
  <2>2. CASE known # hash
    <3> DEFINE m == [matches |-> answer, hash |-> hash]
    <3>1. DOMAIN m = {"matches", "hash"} /\ m.matches = answer /\ m.hash = hash
      OBVIOUS
    <3>2. memo' = m
      BY <1>4, <2>2
    <3> HIDE DEF m
    <3>3. Fits(m)
      BY <1>1, <1>2, <3>1 DEF Fits
    <3> QED
      BY <3>1, <3>2, <3>3
  <2> QED
    BY <2>1, <2>2
<1> HIDE DEF limit
<1>6. ReplyFits'
  <2>1. reply'.kind = "search" /\ reply'.query = query /\ reply'.limit = limit
    BY <1>4
  <2>2. hash = searchQueryHash(reply'.query, reply'.limit, StoreIndex(index'))
    BY <1>2, <1>4, <2>1
  <2> HIDE DEF hash
  <2> QED
    BY <1>1, <1>5, <2>1, <2>2 DEF ReplyFits, Searched
<1> QED
  BY <1>4, <1>5, <1>6 DEF ServerInv

LEMMA RejectedKeeps ==
  ASSUME ServerInv, NEW code, Rejected(code)
  PROVE  ServerInv'
<1>1. reply'.kind = "error" /\ UNCHANGED <<disk, index, indexHash, memo, document>>
  BY DEF Rejected
<1>2. ReplyFits'
  BY <1>1 DEF ReplyFits, Searched
<1> QED
  BY <1>1, <1>2 DEF ServerInv

LEMMA EntryAtIs ==
  ASSUME ServerInv
  PROVE  /\ \A f \in IndexedPath : /\ EntryAt[f] \in DOMAIN index
                                   /\ index[EntryAt[f]].path = f
                                   /\ f \in Path
         /\ \A i \in DOMAIN index : /\ index[i].path \in IndexedPath
                                   /\ EntryAt[index[i].path] = i
<1>1. \A i \in DOMAIN index : index[i].path \in IndexedPath
  BY DEF IndexedPath
<1>2. ASSUME NEW f \in IndexedPath
      PROVE  EntryAt[f] \in DOMAIN index /\ index[EntryAt[f]].path = f
  <2>1. \E i \in DOMAIN index : index[i].path = f
    BY DEF IndexedPath
  <2> QED
    BY <2>1 DEF EntryAt
<1>3. ASSUME NEW i \in DOMAIN index
      PROVE  EntryAt[index[i].path] = i /\ index[i].path \in Path
  <2>1. EntryAt[index[i].path] = i
    BY <1>1, <1>2 DEF ServerInv, Distinct
  <2>2. index[i] \in IndexEntries
    BY DEF ServerInv
  <2> QED
    BY <2>1, <2>2, EntryIs
<1> QED
  BY <1>1, <1>2, <1>3

\* What a load gives is the document of the file, under its indexed name.
LEMMA OutcomeIs ==
  ASSUME ServerInv, NEW f \in IndexedPath
  PROVE  \/ "code" \in DOMAIN Loader!Outcome(f, disk[f])
         \/ /\ disk[f] \in Content
            /\ Loader!Outcome(f, disk[f]) =
                 [ name |-> index[EntryAt[f]].name, content |-> disk[f],
                   sha |-> hexSHA256(disk[f]) ]
<1> DEFINE doc == disk[f]
           error(code) == [code |-> code]
<1>1. doc \in Content \/ doc = Missing
  BY EntryAtIs DEF ServerInv
<1>2. CASE doc = Missing
  <2>1. Loader!Outcome(f, doc) = error("INVALID_SKILL")
    BY <1>2, ServerAssumption DEF Loader!Outcome, Loader!skillError
  <2> QED
    BY <2>1
<1>3. CASE doc \in Content /\ ~Loader!ValidFor(f, doc)
  <2>1. Loader!Outcome(f, doc) = error("INVALID_SKILL")
    BY <1>3, ServerAssumption DEF Loader!Outcome, Loader!skillError
  <2> QED
    BY <2>1
<1>4. CASE doc \in Content /\ Loader!ValidFor(f, doc)
  <2>1. Loader!Outcome(f, doc) = Loader!Loaded(f, doc)
    BY <1>4, ServerAssumption DEF Loader!Outcome
  <2>2. Loader!Loaded(f, doc) =
          [ name |-> index[EntryAt[f]].name, content |-> doc, sha |-> hexSHA256(doc) ]
    BY <1>4 DEF Loader!Loaded
  <2> QED
    BY <1>4, <2>1, <2>2
<1> QED
  BY <1>1, <1>2, <1>3, <1>4

\* Where a name resolves, an entry of that very name is what it resolves to.
LEMMA ResolvedIs ==
  ASSUME ServerInv, NEW name, Loader!ResolutionErrors(name) = {},
         NEW f \in Loader!lookup(name)
  PROVE  /\ f \in IndexedPath
         /\ \A i \in DOMAIN index : index[i].name = name => index[EntryAt[f]].name = name
<1>1. f \in IndexedPath
  BY DEF Loader!lookup
<1>2. \A g \in Loader!lookup(name) : g = f
  <2>1. ASSUME \E g, h \in Loader!lookup(name) : g # h
        PROVE  FALSE
    <3> DEFINE several == \E g, h \in Loader!lookup(name) : g # h
               none == Loader!lookup(name) = {}
    <3>1. several /\ ~none
      BY <2>1
    <3> HIDE DEF several, none
    <3>2. Loader!ResolutionErrors(name) \in
            {{Loader!skillError("INVALID_ARGUMENT")}, {Loader!skillError("AMBIGUOUS_SKILL")}}
      BY <3>1 DEF Loader!ResolutionErrors, several, none
    <3> QED
      BY <3>2
  <2> QED
    BY <2>1
<1>3. ASSUME NEW i \in DOMAIN index, index[i].name = name
      PROVE  index[EntryAt[f]].name = name
  <2>1. index[i].path \in IndexedPath /\ EntryAt[index[i].path] = i
    BY EntryAtIs
  <2>2. index[i].path \in Loader!lookup(name)
    BY <1>3, <2>1 DEF Loader!lookup
  <2> QED
    BY <1>2, <1>3, <2>1, <2>2
<1> QED
  BY <1>1, <1>3

LEMMA LoadKeeps ==
  ASSUME ServerInv, NEW name \in Text \cup {Blank}, load_skill(name)
  PROVE  ServerInv'
<1> DEFINE failures == Loader!ResolutionErrors(name)
           all == IF document = Nothing THEN {Nothing} ELSE {Nothing, document.sha}
           Given(f, known) ==
             LET result == Loader!Outcome(f, disk[f])
                 cached == LoadedCached(result, f, known)
             IN  IF "code" \in DOMAIN result THEN Rejected(result.code)
                 ELSE /\ reply' = [ kind |-> "load", name |-> name, entry |-> result.name,
                                    cached |-> cached, revision |-> indexHash ]
                      /\ document' = IF cached THEN document
                                     ELSE [content |-> result.content, sha |-> result.sha]
                      /\ UNCHANGED <<disk, index, indexHash, memo>>
<1>1. CASE \E e \in failures : Rejected(e.code)
  BY <1>1, RejectedKeeps
<1>2. ASSUME failures = {}, NEW f \in Loader!lookup(name), NEW known \in all, Given(f, known)
      PROVE  ServerInv'
  <2> DEFINE result == Loader!Outcome(f, disk[f])
             cached == LoadedCached(result, f, known)
  <2>1. f \in IndexedPath
    BY <1>2, ResolvedIs
  <2>2. CASE "code" \in DOMAIN result
    <3>1. Rejected(result.code)
      BY <1>2, <2>2
    <3> QED
      BY <3>1, RejectedKeeps
  <2>3. CASE "code" \notin DOMAIN result
    <3>1. /\ disk[f] \in Content
          /\ result.name = index[EntryAt[f]].name
          /\ result.content = disk[f] /\ result.sha = hexSHA256(disk[f])
      <4> DEFINE loaded == [ name |-> index[EntryAt[f]].name, content |-> disk[f],
                             sha |-> hexSHA256(disk[f]) ]
      <4>1. disk[f] \in Content /\ result = loaded
        BY <2>1, <2>3, OutcomeIs
      <4>2. /\ loaded.name = index[EntryAt[f]].name
            /\ loaded.content = disk[f] /\ loaded.sha = hexSHA256(disk[f])
        OBVIOUS
      <4> HIDE DEF loaded, result
      <4> QED
        BY <4>1, <4>2
    <3>2. /\ reply' = [ kind |-> "load", name |-> name, entry |-> result.name,
                        cached |-> cached, revision |-> indexHash ]
          /\ document' = IF cached THEN document
                         ELSE [content |-> result.content, sha |-> result.sha]
          /\ UNCHANGED <<disk, index, indexHash, memo>>
      BY <1>2, <2>3
    <3> HIDE DEF result
    <3>3. document'.content = disk[f] /\ document'.sha = hexSHA256(disk[f])
      <4>1. CASE cached
        <5>1. known = hexSHA256(disk[f])
          BY <3>1, <4>1 DEF LoadedCached
        <5>2. known # Nothing
          BY <3>1, <5>1, NoHashAssumption
        <5>3. document # Nothing /\ document.sha = known
          BY <1>2, <5>2
        <5>4. document.sha = hexSHA256(document.content)
          BY <5>3 DEF ServerInv
        <5>5. document.content = disk[f]
          BY <5>1, <5>3, <5>4 DEF hexSHA256
        <5> QED
          BY <3>2, <4>1, <5>1, <5>3, <5>5
      <4>2. CASE ~cached
        <5>1. document' = [content |-> result.content, sha |-> result.sha]
          BY <3>2, <4>2
        <5> QED
          BY <3>1, <5>1
      <4> QED
        BY <4>1, <4>2
    <3>4. EntryAt[f] \in DOMAIN index /\ index[EntryAt[f]].path = f
      BY <2>1, EntryAtIs
    <3>5. /\ reply'.kind = "load" /\ reply'.name = name
          /\ reply'.entry = index[EntryAt[f]].name
      BY <3>1, <3>2
    <3>6. \E i \in DOMAIN index' : /\ index'[i].name = reply'.entry
                                  /\ disk'[index'[i].path] = document'.content
                                  /\ document'.sha = hexSHA256(disk'[index'[i].path])
      BY <3>2, <3>3, <3>4, <3>5
    <3>7. (\E i \in DOMAIN index' : index'[i].name = reply'.name) => reply'.entry = reply'.name
      BY <1>2, <3>2, <3>5, ResolvedIs
    <3>8. ReplyFits'
      BY <3>5, <3>6, <3>7 DEF ReplyFits, Searched
    <3> QED
      BY <3>1, <3>2, <3>3, <3>8 DEF ServerInv
  <2> QED
    BY <2>2, <2>3
<1>3. \/ \E e \in failures : Rejected(e.code)
      \/ failures = {} /\ \E f \in Loader!lookup(name), known \in all : Given(f, known)
  BY DEF load_skill
<1> QED
  BY <1>1, <1>2, <1>3

THEOREM ServerAlways == Spec => []ServerInv
<1>1. Init => ServerInv
  <2> SUFFICES ASSUME Init PROVE ServerInv
    OBVIOUS
  <2>1. ReplyFits
    BY DEF Init, ReplyFits, Searched
  <2> QED
    BY <2>1, BuildIndexIs DEF Init, ServerInv
<1>2. ServerInv /\ [Next]_vars => ServerInv'
  <2> SUFFICES ASSUME ServerInv, [Next]_vars PROVE ServerInv'
    OBVIOUS
  <2>1. CASE Restart
    <3>1. /\ index' = BuildIndex(disk) /\ indexHash' = StoreIndex(index') /\ reply' = Nothing
          /\ UNCHANGED <<disk, memo, document>>
      BY <2>1 DEF Restart
    <3>2. ReplyFits'
      BY <3>1 DEF ReplyFits, Searched
    <3> QED
      BY <3>1, <3>2, BuildIndexIs DEF ServerInv
  <2>2. ASSUME NEW f \in Path, Write(f) PROVE ServerInv'
    <3>1. /\ disk' \in [Path -> Content \cup {Missing}] /\ reply' = Nothing
          /\ UNCHANGED <<index, indexHash, memo, document>>
      BY <2>2 DEF Write, ServerInv
    <3>2. ReplyFits'
      BY <3>1 DEF ReplyFits, Searched
    <3> QED
      BY <3>1, <3>2 DEF ServerInv
  <2>3. ASSUME NEW f \in Path, NEW g \in Path, Move(f, g) PROVE ServerInv'
    <3>1. /\ disk' \in [Path -> Content \cup {Missing}] /\ reply' = Nothing
          /\ UNCHANGED <<index, indexHash, memo, document>>
      BY <2>3 DEF Move, ServerInv
    <3>2. ReplyFits'
      BY <3>1 DEF ReplyFits, Searched
    <3> QED
      BY <3>1, <3>2 DEF ServerInv
  <2>4. CASE search_skills_Invalid
    BY <2>4, RejectedKeeps DEF search_skills_Invalid
  <2>5. ASSUME NEW query \in Query, NEW argument \in LimitArgument,
               search_skills(query, argument)
        PROVE  ServerInv'
    BY <2>5, SearchKeeps
  <2>6. ASSUME NEW name \in Text \cup {Blank}, load_skill(name) PROVE ServerInv'
    BY <2>6, LoadKeeps
  <2>7. CASE Doctor
    <3>1. /\ reply'.kind = "doctor"
          /\ reply'.duplicates = {n \in Text : Duplicated(BuildIndex(disk), n)}
          /\ UNCHANGED <<disk, index, indexHash, memo, document>>
      BY <2>7 DEF Doctor
    <3>2. ReplyFits'
      BY <3>1 DEF ReplyFits, Searched
    <3> QED
      BY <3>1, <3>2 DEF ServerInv
  <2>8. CASE UNCHANGED vars
    <3>1. ReplyFits'
      BY <2>8 DEF vars, ReplyFits, Searched, ServerInv
    <3> QED
      BY <2>8, <3>1 DEF vars, ServerInv
  <2> QED
    BY <2>1, <2>2, <2>3, <2>4, <2>5, <2>6, <2>7, <2>8 DEF Next
<1> QED
  BY <1>1, <1>2, PTL DEF Spec

-----------------------------------------------------------------------------
(* The properties *)

\* The types, and that no answer is longer than its limit.
THEOREM TypeCorrect == Spec => []TypeOK
<1>1. ServerInv => TypeOK
  <2> SUFFICES ASSUME ServerInv PROVE TypeOK
    OBVIOUS
  <2>1. \A i \in DOMAIN index : index[i] \in {IndexEntry(f, c) : f \in Path, c \in Content}
    BY DEF ServerInv, IndexEntries
  <2>2. Searched => reply.limit \in 1 .. 10 /\ Len(memo.matches) <= reply.limit
    BY RecognisedIsCurrent DEF ServerInv, ReplyFits
  <2>3. memo # Nothing => DOMAIN memo = {"matches", "hash"}
    BY DEF ServerInv, Fits
  <2> QED
    BY <2>1, <2>2, <2>3 DEF ServerInv, ReplyFits, TypeOK
<1> QED
  BY <1>1, ServerAlways, PTL

\* A search the server calls cached is the one it would answer now.
THEOREM CachedSearchAlwaysCurrent == Spec => []CachedSearchCurrent
<1>1. ServerInv => CachedSearchCurrent
  <2> SUFFICES ASSUME ServerInv, Searched
               PROVE  \A o \in Search(index, reply.query, reply.limit) :
                        /\ Len(o) = Len(memo.matches)
                        /\ \A i \in DOMAIN o :
                             WithoutSource(o[i]) = WithoutSource(memo.matches[i])
    BY DEF CachedSearchCurrent
  <2> QED
    BY RecognisedIsCurrent DEF ServerInv, ReplyFits
<1> QED
  BY <1>1, ServerAlways, PTL

\* A document the server calls cached is what its file holds now.
THEOREM CachedLoadAlwaysCurrent == Spec => []CachedLoadCurrent
<1>1. ServerInv => CachedLoadCurrent
  BY DEF ServerInv, ReplyFits, CachedLoadCurrent
<1> QED
  BY <1>1, ServerAlways, PTL

\* A name of the index loads the skill of that name or none.
THEOREM OfferedNamesAlwaysLoadThemselves == Spec => []OfferedNamesLoadThemselves
<1>1. ServerInv => OfferedNamesLoadThemselves
  BY DEF ServerInv, ReplyFits, OfferedNamesLoadThemselves
<1> QED
  BY <1>1, ServerAlways, PTL

\* More than one is two different ones.
LEMMA MoreThanOne ==
  ASSUME NEW S, IsFiniteSet(S)
  PROVE  Cardinality(S) > 1 <=> \E a, b \in S : a # b
<1>1. Cardinality(S) \in Nat
  BY FS_CardinalityType
<1>2. Cardinality(S) = 0 <=> S = {}
  BY FS_EmptySet
<1>3. Cardinality(S) = 1 <=> \E x : S = {x}
  BY FS_Singleton
<1>4. (\A a, b \in S : a = b) <=> S = {} \/ \E x : S = {x}
  OBVIOUS
<1> QED
  BY <1>1, <1>2, <1>3, <1>4

\* The names doctor calls duplicates are those that are ambiguous.
THEOREM DoctorAlwaysExplains == Spec => []DoctorExplainsAmbiguity
<1>1. ServerInv => DoctorExplainsAmbiguity
  <2> DEFINE ambiguous == {Loader!skillError("AMBIGUOUS_SKILL")}
  <2> SUFFICES ASSUME ServerInv, reply # Nothing, reply.kind = "doctor",
                      index = BuildIndex(disk), NEW n \in Text
               PROVE  /\ n \in reply.duplicates => Loader!ResolutionErrors(n) = ambiguous
                      /\ /\ Loader!ResolutionErrors(n) = ambiguous
                         /\ \A i \in DOMAIN index : <<n, index[i].name>> \notin SuffixOf
                         => n \in reply.duplicates
    BY DEF DoctorExplainsAmbiguity
  <2>1. n \in reply.duplicates <=>
          \E i, j \in DOMAIN index : i # j /\ index[i].name = n /\ index[j].name = n
    <3> DEFINE named == {i \in DOMAIN index : index[i].name = n}
    <3>1. n \in reply.duplicates <=> Cardinality(named) > 1
      BY DEF ServerInv, ReplyFits, Duplicated, Occurrences
    <3>2. IsFiniteSet(named)
      <4>1. Len(index) \in Nat /\ named \in SUBSET (1 .. Len(index))
        BY DEF ServerInv
      <4> HIDE DEF named
      <4> QED
        BY <4>1, FinitePart
    <3> QED
      BY <3>1, <3>2, MoreThanOne
  <2> DEFINE several == \E f, g \in Loader!lookup(n) : f # g
             none == Loader!lookup(n) = {}
  <2>2. Loader!ResolutionErrors(n) = ambiguous <=> several
    <3>1. n # Blank /\ (several => ~none)
      BY ServerAssumption
    <3> HIDE DEF several, none
    <3>2. CASE several
      BY <3>1, <3>2 DEF Loader!ResolutionErrors, several, none
    <3>3. CASE ~several /\ none
      <4>1. Loader!ResolutionErrors(n) = {Loader!skillError("SKILL_NOT_FOUND")}
        BY <3>1, <3>3 DEF Loader!ResolutionErrors, several, none
      <4>2. Loader!skillError("SKILL_NOT_FOUND").code # Loader!skillError("AMBIGUOUS_SKILL").code
        BY DEF Loader!skillError
      <4> QED
        BY <3>3, <4>1, <4>2
    <3>4. CASE ~several /\ ~none
      BY <3>1, <3>4 DEF Loader!ResolutionErrors, Loader!skillError, several, none
    <3> QED
      BY <3>2, <3>3, <3>4
  <2>3. \A i \in DOMAIN index : index[i].name = n => index[i].path \in Loader!lookup(n)
    BY EntryAtIs DEF Loader!lookup
  <2>4. ASSUME n \in reply.duplicates PROVE several
    <3>1. PICK i, j \in DOMAIN index : i # j /\ index[i].name = n /\ index[j].name = n
      BY <2>1, <2>4
    <3>2. index[i].path # index[j].path
      BY <3>1 DEF ServerInv, Distinct
    <3> QED
      BY <2>3, <3>1, <3>2
  <2>5. ASSUME several, \A i \in DOMAIN index : <<n, index[i].name>> \notin SuffixOf
        PROVE  n \in reply.duplicates
    <3>1. PICK f, g \in Loader!lookup(n) : f # g
      BY <2>5
    <3>2. \A h \in Loader!lookup(n) : h \in IndexedPath /\ index[EntryAt[h]].name = n
      BY <2>5, EntryAtIs DEF Loader!lookup
    <3>3. EntryAt[f] # EntryAt[g]
      BY <3>1, <3>2, EntryAtIs
    <3> QED
      BY <2>1, <3>1, <3>2, <3>3, EntryAtIs
  <2> QED
    BY <2>2, <2>4, <2>5
<1> QED
  BY <1>1, ServerAlways, PTL
=============================================================================
