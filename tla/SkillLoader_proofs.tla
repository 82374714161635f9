------------------------- MODULE SkillLoader_proofs -------------------------
(***************************************************************************)
(* Proofs about SkillLoader: type correctness, validity of the cached      *)
(* documents, the eviction property, that no call takes a step again, and  *)
(* that a server with a shared cache implements AtomicLoad.                *)
(***************************************************************************)
EXTENDS SkillLoader, Naturals, TLAPS

Reading == {"get", "evict", "parse", "set"}

\* What a call knows at each of its steps.
CallOK(c) ==
  /\ pc[c] = "idle" <=> request[c] = NoRequest
  /\ pc[c] # "done" => result[c] = NoResult
  /\ pc[c] = "done" => result[c] \in LoadResult \cup SkillError
  /\ pc[c] \in Reading \cup {"read"} =>
       /\ ResolutionErrors(request[c]) = {}
       /\ entry[c] \in lookup(request[c])
  /\ pc[c] \in Reading => data[c] \in Content
  /\ pc[c] = "evict" => /\ doc[c] \in cachedDoc
                        /\ doc[c].checksum = SHA256[doc[c].content]
  /\ pc[c] = "set" => ValidFor(entry[c], data[c])

\* The inductive invariant: the cache is valid only as long as every call that
\* is about to store a document has validated it for the entry it resolved.
LoaderInv ==
  /\ TypeOK
  /\ CachedDocumentsValid
  /\ \A c \in Call : CallOK(c)

-----------------------------------------------------------------------------
\* lookup only returns entries of the index.
LEMMA LookupInPath == \A n : lookup(n) \subseteq Path
BY DEF lookup

\* A name that does not resolve is answered with an error code of Load.
LEMMA ResolutionErrorsType == \A n : ResolutionErrors(n) \subseteq SkillError
BY DEF ResolutionErrors, skillError, SkillError, ErrorCode

\* The answers of Load are results or errors with one of the stable codes.
LEMMA OutcomeType ==
  ASSUME NEW f \in Path, NEW d \in Document
  PROVE  Outcome(f, d) \in LoadResult \cup SkillError
<1>1. CASE d \notin Content
  BY <1>1, LoadAssumption DEF Outcome, Document, skillError, SkillError, ErrorCode
<1>2. CASE d \in Content /\ ~ValidFor(f, d)
  BY <1>2, LoadAssumption DEF Outcome, skillError, SkillError, ErrorCode
<1>3. CASE d \in Content /\ ValidFor(f, d)
  <2>1. Outcome(f, d) = Loaded(f, d)
    BY <1>3, LoadAssumption DEF Outcome
  <2> QED
    BY <2>1, <1>3, LoadAssumption DEF Loaded, LoadResult
<1> QED
  BY <1>1, <1>2, <1>3

\* Two cached documents of one checksum are one document.
LEMMA SameChecksumSameDoc ==
  ASSUME NEW x \in cachedDoc, NEW y \in cachedDoc,
         x.checksum = SHA256[x.content], y.checksum = SHA256[y.content],
         x.checksum = y.checksum
  PROVE  x = y
<1>1. x = [content |-> x.content, checksum |-> x.checksum]
  BY DEF cachedDoc
<1>2. y = [content |-> y.content, checksum |-> y.checksum]
  BY DEF cachedDoc
<1>3. x.content = y.content
  BY LoadAssumption DEF cachedDoc
<1> QED
  BY <1>1, <1>2, <1>3

-----------------------------------------------------------------------------
\* A server starts with an empty cache and no call.
LEMMA InitInv == Init => LoaderInv
BY CallAssumption
   DEF Init, LoaderInv, TypeOK, CachedDocumentsValid, CallOK, Reading, Step, Document

\* No step of a call, an edit or an invalidation breaks the invariant.
LEMMA NextInv == LoaderInv /\ [Next]_vars => LoaderInv'
<1> SUFFICES ASSUME LoaderInv, [Next]_vars PROVE LoaderInv'
  OBVIOUS
<1> USE DEF LoaderInv
<1>1. CASE Edit
  BY <1>1 DEF Edit, TypeOK, CachedDocumentsValid, CallOK, ValidFor
<1>2. CASE InvalidateDocument
  BY <1>2 DEF InvalidateDocument, TypeOK, CachedDocumentsValid, CallOK, ValidFor
<1>3. CASE InvalidateAll
  BY <1>3 DEF InvalidateAll, TypeOK, CachedDocumentsValid, CallOK, ValidFor
<1>4. ASSUME NEW c \in Call, Begin(c) PROVE LoaderInv'
  BY <1>4, CallAssumption
     DEF Begin, Goto, TypeOK, CachedDocumentsValid, CallOK, Reading, Step, ValidFor
<1>5. ASSUME NEW c \in Call, Unresolved(c) PROVE LoaderInv'
  BY <1>5, ResolutionErrorsType
     DEF Unresolved, Goto, Finish, TypeOK, CachedDocumentsValid, CallOK, Reading, Step,
         ValidFor
<1>6. ASSUME NEW c \in Call, Resolved(c) PROVE LoaderInv'
  BY <1>6, LookupInPath
     DEF Resolved, Goto, TypeOK, CachedDocumentsValid, CallOK, Reading, Step, ValidFor
<1>7. ASSUME NEW c \in Call, ReadFails(c) PROVE LoaderInv'
  BY <1>7
     DEF ReadFails, Goto, Finish, TypeOK, CachedDocumentsValid, CallOK, Reading, Step,
         ValidFor, skillError, SkillError, ErrorCode
<1>8. ASSUME NEW c \in Call, ReadFile(c) PROVE LoaderInv'
  BY <1>8
     DEF ReadFile, Goto, TypeOK, CachedDocumentsValid, CallOK, Reading, Step, ValidFor
<1>9. ASSUME NEW c \in Call, ParseFails(c) PROVE LoaderInv'
  BY <1>9
     DEF ParseFails, Goto, Finish, TypeOK, CachedDocumentsValid, CallOK, Reading, Step,
         ValidFor, skillError, SkillError, ErrorCode
<1>10. ASSUME NEW c \in Call, Parse(c) PROVE LoaderInv'
  BY <1>10
     DEF Parse, Goto, TypeOK, CachedDocumentsValid, CallOK, Reading, Step, ValidFor
<1>11. ASSUME NEW c \in Call, Reply(c) PROVE LoaderInv'
  BY <1>11, CallAssumption
     DEF Reply, Goto, TypeOK, CachedDocumentsValid, CallOK, Reading, Step, ValidFor
<1>12. ASSUME NEW c \in Call, GetMiss(c) PROVE LoaderInv'
  BY <1>12
     DEF GetMiss, Goto, TypeOK, CachedDocumentsValid, CallOK, Reading, Step, ValidFor
<1>13. ASSUME NEW c \in Call, GetHit(c) PROVE LoaderInv'
  <2>1. entry[c] \in Path /\ data[c] \in Content
    BY <1>13, LookupInPath DEF GetHit, CallOK, Reading
  <2>2. docs[entry[c]] \in cachedDoc
    BY <2>1, <1>13 DEF GetHit, TypeOK
  <2>3. [name |-> EntryName[entry[c]], content |-> docs[entry[c]].content,
         sha |-> SHA256[data[c]]] \in LoadResult
    BY <2>1, <2>2, LoadAssumption DEF LoadResult, cachedDoc
  <2> QED
    BY <1>13, <2>3
       DEF GetHit, Goto, Finish, TypeOK, CachedDocumentsValid, CallOK, Reading, Step, ValidFor
<1>14. ASSUME NEW c \in Call, GetStale(c) PROVE LoaderInv'
  <2>1. entry[c] \in Path
    BY <1>14, LookupInPath DEF GetStale, CallOK, Reading
  <2>2. /\ docs[entry[c]] \in cachedDoc
        /\ docs[entry[c]].checksum = SHA256[docs[entry[c]].content]
    BY <2>1, <1>14 DEF GetStale, TypeOK, CachedDocumentsValid
  <2> QED
    BY <1>14, <2>2
       DEF GetStale, Goto, TypeOK, CachedDocumentsValid, CallOK, Reading, Step, ValidFor
<1>15. ASSUME NEW c \in Call, Evict(c) PROVE LoaderInv'
  BY <1>15
     DEF Evict, Goto, TypeOK, CachedDocumentsValid, CallOK, Reading, Step, ValidFor
<1>16. ASSUME NEW c \in Call, SetDocument(c) PROVE LoaderInv'
  <2>1. /\ entry[c] \in Path
        /\ data[c] \in Content
        /\ ValidFor(entry[c], data[c])
    BY <1>16, LookupInPath DEF SetDocument, CallOK, Reading
  <2>2. [content |-> data[c], checksum |-> SHA256[data[c]]] \in cachedDoc
    BY <2>1, LoadAssumption DEF cachedDoc
  <2>3. Loaded(entry[c], data[c]) \in LoadResult
    BY <2>1, LoadAssumption DEF Loaded, LoadResult
  <2> QED
    BY <1>16, <2>1, <2>2, <2>3
       DEF SetDocument, Goto, Finish, TypeOK, CachedDocumentsValid, CallOK, Reading, Step,
           ValidFor
<1>17. CASE UNCHANGED vars
  BY <1>17 DEF vars, TypeOK, CachedDocumentsValid, CallOK, ValidFor
<1> QED
  BY <1>1, <1>2, <1>3, <1>4, <1>5, <1>6, <1>7, <1>8, <1>9, <1>10, <1>11, <1>12, <1>13,
     <1>14, <1>15, <1>16, <1>17
     DEF Next, Load, GetDocument

\* The variables of SkillLoader stay in their types, so every error a call
\* answers has one of the stable codes.
THEOREM TypeCorrect == Spec => []TypeOK
<1>1. LoaderInv => TypeOK
  BY DEF LoaderInv
<1> QED
  BY <1>1, InitInv, NextInv, PTL DEF Spec

\* Every reachable state satisfies the inductive invariant.
THEOREM LoaderInvariance == Spec => []LoaderInv
BY InitInv, NextInv, PTL DEF Spec

\* However the calls interleave, no invalid document is ever in the cache.
THEOREM CacheValid == Spec => []CachedDocumentsValid
<1>1. LoaderInv => CachedDocumentsValid
  BY DEF LoaderInv
<1> QED
  BY <1>1, LoaderInvariance, PTL

LEMMA MovesItself ==
  ASSUME LoaderInv, Next, NEW c \in Call, pc'[c] # pc[c]
  PROVE  Begin(c) \/ Load(c)
<1>1. pc' # pc
  OBVIOUS
<1>2. PICK d \in Call : Begin(d) \/ Load(d)
  BY <1>1 DEF Next, Edit, InvalidateDocument, InvalidateAll
<1>3. \E step \in Step : pc' = [pc EXCEPT ![d] = step]
  BY <1>2 DEF Step, Begin, Load, Unresolved, Resolved, ReadFails, ReadFile, ParseFails, Parse,
         Reply, GetDocument, GetMiss, GetHit, GetStale, Evict, SetDocument, Goto, Finish
<1>4. c = d
  BY <1>3 DEF LoaderInv, TypeOK
<1> QED
  BY <1>2, <1>4

\* An eviction deletes the document its call found stale and no other: a cached
\* document of that checksum is that document.
THEOREM EvictionExact == Spec => EvictsOnlyWhatItSaw
<1>1. LoaderInv /\ [Next]_vars =>
        [\A c \in Call : pc[c] = "evict" /\ pc'[c] = "parse" =>
           \A f \in Path : docs'[f] # docs[f] => f = entry[c] /\ docs[f] = doc[c]]_vars
  <2> SUFFICES ASSUME LoaderInv, Next,
                      NEW c \in Call, pc[c] = "evict", pc'[c] = "parse",
                      NEW f \in Path, docs'[f] # docs[f]
               PROVE  f = entry[c] /\ docs[f] = doc[c]
    BY DEF vars
  <2>1. Evict(c)
    <3>1. Begin(c) \/ Load(c)
      BY MovesItself
    <3> QED
      BY <3>1 DEF Begin, Load, Unresolved, Resolved, ReadFails, ReadFile, ParseFails, Parse,
             Reply, GetDocument, GetMiss, GetHit, GetStale, SetDocument
  <2>2. entry[c] \in Path
    BY LookupInPath DEF LoaderInv, CallOK, Reading
  <2>3. /\ f = entry[c]
        /\ docs[f] # NoDoc
        /\ docs[f].checksum = doc[c].checksum
    BY <2>1, <2>2 DEF Evict, LoaderInv, TypeOK
  <2>4. /\ docs[f] \in cachedDoc
        /\ docs[f].checksum = SHA256[docs[f].content]
    BY <2>3 DEF LoaderInv, TypeOK, CachedDocumentsValid
  <2>5. /\ doc[c] \in cachedDoc
        /\ doc[c].checksum = SHA256[doc[c].content]
    BY DEF LoaderInv, CallOK
  <2> QED
    BY <2>3, <2>4, <2>5, SameChecksumSameDoc
<1> QED
  BY <1>1, LoaderInvariance, PTL DEF Spec, EvictsOnlyWhatItSaw

\* The order in which Load comes through its steps.
Place == [ lookup |-> 1, read |-> 2, get |-> 3, evict |-> 4, parse |-> 5, set |-> 6,
           done |-> 7, idle |-> 8 ]

\* A call is wait-free: each of its steps is a later one than the last, also
\* when the document it found was replaced or evicted meanwhile (cache.go:74),
\* and no other call moves it, so it replies after at most seven.
CallsOnlyAdvance ==
  [][\A c \in Call : Load(c) \/ pc'[c] # pc[c] =>
       pc[c] = "idle" \/ Place[pc[c]] < Place[pc'[c]]]_vars

LEMMA LoadAdvances ==
  ASSUME LoaderInv, NEW c \in Call, Load(c)
  PROVE  Place[pc[c]] < Place[pc'[c]]
BY DEF LoaderInv, TypeOK, Place, Load, Unresolved, Resolved, ReadFails, ReadFile, ParseFails, Parse,
       Reply, GetDocument, GetMiss, GetHit, GetStale, Evict, SetDocument, Goto, Finish

\* No call goes back a step, whatever the other calls do to the cache: with any
\* number of them, each replies after at most seven steps of its own.
THEOREM CallsAlwaysAdvance == Spec => CallsOnlyAdvance
<1>1. LoaderInv /\ [Next]_vars =>
        [\A c \in Call : Load(c) \/ pc'[c] # pc[c] =>
           pc[c] = "idle" \/ Place[pc[c]] < Place[pc'[c]]]_vars
  <2> SUFFICES ASSUME LoaderInv, Next, NEW c \in Call, Load(c) \/ pc'[c] # pc[c]
               PROVE  pc[c] = "idle" \/ Place[pc[c]] < Place[pc'[c]]
    BY DEF vars
  <2>1. pc'[c] # pc[c] => Begin(c) \/ Load(c)
    BY MovesItself
  <2>2. Begin(c) => pc[c] = "idle"
    BY DEF Begin
  <2> QED
    BY <2>1, <2>2, LoadAdvances
<1> QED
  BY <1>1, LoaderInvariance, PTL DEF Spec, CallsOnlyAdvance

-----------------------------------------------------------------------------
(* SkillLoader implements AtomicLoad *)

\* A hit answers what validating the bytes again would have answered.
LEMMA HitIsOutcome ==
  ASSUME LoaderInv, NEW c \in Call, GetHit(c)
  PROVE  result'[c] = Outcome(entry[c], data[c])
<1>1. entry[c] \in Path /\ data[c] \in Content
  BY LookupInPath DEF GetHit, LoaderInv, CallOK, Reading
<1>2. /\ docs[entry[c]].content \in Content
      /\ ValidFor(entry[c], docs[entry[c]].content)
      /\ docs[entry[c]].checksum = SHA256[docs[entry[c]].content]
  BY <1>1 DEF GetHit, LoaderInv, TypeOK, CachedDocumentsValid, cachedDoc
<1>3. docs[entry[c]].content = data[c]
  BY <1>1, <1>2, LoadAssumption DEF GetHit
<1>4. Outcome(entry[c], data[c]) = Loaded(entry[c], data[c])
  BY <1>1, <1>2, <1>3, LoadAssumption DEF Outcome
<1> QED
  BY <1>3, <1>4 DEF GetHit, Finish, Loaded, LoaderInv, TypeOK

\* A call that has read its file, or failed, has its answer decided.
LEMMA OutcomeAnswered ==
  ASSUME LoaderInv, NEW c \in Call, pc[c] \in Reading \cup {"done"}
  PROVE  Decided(c) # NoResult
<1>1. CASE pc[c] = "done"
  BY <1>1, CallAssumption DEF LoaderInv, CallOK, Decided
<1>2. CASE pc[c] \in Reading
  <2>1. entry[c] \in Path /\ data[c] \in Document
    BY <1>2, LookupInPath DEF LoaderInv, CallOK, Document
  <2> QED
    BY <1>2, <2>1, OutcomeType, CallAssumption DEF Decided, Reading
<1> QED
  BY <1>1, <1>2

\* Steps that leave the decided answers, the files and the requests alone.
LEMMA Stutter ==
  ASSUME UNCHANGED <<disk, request>>, \A c \in Call : Decided(c)' = Decided(c)
  PROVE  UNCHANGED Promise!vars
BY DEF Promise!vars

\* The promise speaks of the same lookups and outcomes.
LEMMA SameOutcomes ==
  /\ \A n : Promise!ResolutionErrors(n) = ResolutionErrors(n)
  /\ \A n : Promise!lookup(n) = lookup(n)
  /\ \A f, d : Promise!Outcome(f, d) = Outcome(f, d)
<1>1. \A n : Promise!lookup(n) = lookup(n)
  BY DEF Promise!lookup, lookup
<1>2. \A code : Promise!skillError(code) = skillError(code)
  BY DEF Promise!skillError, skillError
<1>3. \A f, d : Promise!Loaded(f, d) = Loaded(f, d)
  BY DEF Promise!Loaded, Loaded
<1>4. \A f, d : Promise!ValidFor(f, d) <=> ValidFor(f, d)
  BY DEF Promise!ValidFor, ValidFor
<1>5. \A n : Promise!ResolutionErrors(n) = ResolutionErrors(n)
  BY <1>1, <1>2 DEF Promise!ResolutionErrors, ResolutionErrors
<1>6. \A f, d : Promise!Outcome(f, d) = Outcome(f, d)
  BY <1>2, <1>3, <1>4 DEF Promise!Outcome, Outcome
<1> QED
  BY <1>1, <1>5, <1>6

\* The initial states of a server are initial states of the promise.
LEMMA InitRefines == Init => Promise!Init
BY DEF Init, Promise!Init, Decided, Promise!Document, Document

\* Begin asks, a failed resolution or the read of the file answers, Reply
\* replies; every other step leaves the promise's state as it is.
LEMMA NextRefines == LoaderInv /\ [Next]_vars => [Promise!Next]_Promise!vars
<1> SUFFICES ASSUME LoaderInv, [Next]_vars PROVE [Promise!Next]_Promise!vars
  OBVIOUS
<1> DEFINE decided == [c \in Call |-> Decided(c)]
<1>1. CASE Edit
  <2>1. \A c \in Call : Decided(c)' = Decided(c)
    BY <1>1 DEF Edit, Decided
  <2>2. Promise!Edit
    BY <1>1, <2>1 DEF Edit, Promise!Edit, Promise!Document, Document
  <2> QED
    BY <2>2 DEF Promise!Next
<1>2. CASE InvalidateDocument \/ InvalidateAll \/ UNCHANGED vars
  <2>1. UNCHANGED <<disk, pc, request, entry, data, result>>
    BY <1>2 DEF InvalidateDocument, InvalidateAll, vars
  <2>2. \A c \in Call : Decided(c)' = Decided(c)
    BY <2>1 DEF Decided
  <2> QED
    BY <2>1, <2>2, Stutter
<1>3. ASSUME NEW c \in Call, Begin(c) PROVE [Promise!Next]_Promise!vars
  <2>1. \A d \in Call : Decided(d)' = Decided(d)
    BY <1>3 DEF Begin, Goto, Decided, LoaderInv, TypeOK
  <2>2. Promise!Ask(c)
    BY <1>3, <2>1 DEF Begin, Promise!Ask, Promise!Request, Request, LoaderInv, CallOK
  <2> QED
    BY <2>2 DEF Promise!Next
<1>4. ASSUME NEW c \in Call, Unresolved(c) \/ ReadFails(c) \/ ReadFile(c)
      PROVE [Promise!Next]_Promise!vars
  <2>1. /\ UNCHANGED <<disk, request>>
        /\ request[c] # NoRequest
        /\ decided[c] = NoResult
    BY <1>4 DEF Unresolved, ReadFails, ReadFile, Decided, LoaderInv, CallOK
  <2>2. \A d \in Call \ {c} : Decided(d)' = Decided(d)
    BY <1>4 DEF Unresolved, ReadFails, ReadFile, Goto, Finish, Decided, LoaderInv, TypeOK
  <2>3. Decided(c)' \in IF ResolutionErrors(request[c]) # {}
                          THEN ResolutionErrors(request[c])
                          ELSE {Outcome(f, disk[f]) : f \in lookup(request[c])}
    <3>1. CASE Unresolved(c)
      BY <3>1 DEF Unresolved, Goto, Finish, Decided, LoaderInv, TypeOK
    <3>2. CASE ReadFails(c)
      <4>1. /\ entry[c] \in lookup(request[c])
            /\ entry[c] \in Path
            /\ disk[entry[c]] \in Document
            /\ ResolutionErrors(request[c]) = {}
        BY <3>2, LookupInPath DEF ReadFails, LoaderInv, CallOK, TypeOK
      <4>2. Outcome(entry[c], disk[entry[c]]) =
              skillError(IF disk[entry[c]] = Escaped THEN "UNSAFE_SOURCE"
                                                     ELSE "INVALID_SKILL")
        BY <3>2, <4>1, LoadAssumption DEF ReadFails, Outcome, Document
      <4>3. Decided(c)' = Outcome(entry[c], disk[entry[c]])
        BY <3>2, <4>2 DEF ReadFails, Goto, Finish, Decided, LoaderInv, TypeOK
      <4> QED
        BY <4>1, <4>3
    <3>3. CASE ReadFile(c)
      <4>1. /\ entry[c] \in lookup(request[c])
            /\ ResolutionErrors(request[c]) = {}
        BY <3>3 DEF ReadFile, LoaderInv, CallOK
      <4>2. Decided(c)' = Outcome(entry[c], disk[entry[c]])
        BY <3>3 DEF ReadFile, Goto, Decided, LoaderInv, TypeOK
      <4> QED
        BY <4>1, <4>2
    <3> QED
      BY <1>4, <3>1, <3>2, <3>3
  <2>4. decided' = [decided EXCEPT ![c] = Decided(c)']
    BY <2>2
  <2>5. Promise!Answer(c)
    BY <2>1, <2>3, <2>4, SameOutcomes DEF Promise!Answer
  <2> QED
    BY <2>5 DEF Promise!Next
<1>5. ASSUME NEW c \in Call, Resolved(c) \/ GetMiss(c) \/ GetStale(c) \/ Evict(c) \/ Parse(c)
      PROVE [Promise!Next]_Promise!vars
  <2>1. \A d \in Call : Decided(d)' = Decided(d)
    BY <1>5 DEF Resolved, GetMiss, GetStale, Evict, Parse, Goto, Decided, LoaderInv, TypeOK
  <2>2. UNCHANGED <<disk, request>>
    BY <1>5 DEF Resolved, GetMiss, GetStale, Evict, Parse
  <2> QED
    BY <2>1, <2>2, Stutter
<1>6. ASSUME NEW c \in Call, GetHit(c) \/ ParseFails(c) \/ SetDocument(c)
      PROVE [Promise!Next]_Promise!vars
  <2>1. result'[c] = Outcome(entry[c], data[c])
    <3>1. entry[c] \in Path /\ data[c] \in Content
      BY <1>6, LookupInPath DEF GetHit, ParseFails, SetDocument, LoaderInv, CallOK, Reading
    <3>2. CASE ParseFails(c)
      BY <3>1, <3>2, LoadAssumption
         DEF ParseFails, Finish, Outcome, skillError, LoaderInv, TypeOK
    <3>3. CASE SetDocument(c)
      <4>1. ValidFor(entry[c], data[c])
        BY <3>3 DEF SetDocument, LoaderInv, CallOK
      <4>2. Outcome(entry[c], data[c]) = Loaded(entry[c], data[c])
        BY <3>1, <4>1, LoadAssumption DEF Outcome
      <4> QED
        BY <3>3, <4>2 DEF SetDocument, Finish, LoaderInv, TypeOK
    <3> QED
      BY <1>6, <3>2, <3>3, HitIsOutcome
  <2>2. Decided(c)' = Decided(c)
    BY <1>6, <2>1
       DEF GetHit, ParseFails, SetDocument, Goto, Finish, Decided, LoaderInv, TypeOK
  <2>3. \A d \in Call \ {c} : Decided(d)' = Decided(d)
    BY <1>6 DEF GetHit, ParseFails, SetDocument, Goto, Finish, Decided, LoaderInv, TypeOK
  <2>4. UNCHANGED <<disk, request>>
    BY <1>6 DEF GetHit, ParseFails, SetDocument
  <2> QED
    BY <2>2, <2>3, <2>4, Stutter
<1>7. ASSUME NEW c \in Call, Reply(c) PROVE [Promise!Next]_Promise!vars
  <2>1. decided[c] # NoResult
    BY <1>7, OutcomeAnswered DEF Reply
  <2>2. \A d \in Call \ {c} : Decided(d)' = Decided(d)
    BY <1>7 DEF Reply, Goto, Decided, LoaderInv, TypeOK
  <2>3. Decided(c)' = NoResult
    BY <1>7 DEF Reply, Goto, Decided, LoaderInv, TypeOK
  <2>4. decided' = [decided EXCEPT ![c] = NoResult]
    BY <2>2, <2>3
  <2>5. Promise!Reply(c)
    BY <1>7, <2>1, <2>4 DEF Reply, Promise!Reply
  <2> QED
    BY <2>5 DEF Promise!Next
<1> QED
  BY <1>1, <1>2, <1>3, <1>4, <1>5, <1>6, <1>7 DEF Next, Load, GetDocument

\* A server that caches documents answers every load_skill call as one without
\* a cache does: from the files as they were at one instant of the call.
THEOREM LoaderKeepsPromise == Spec => AnswersFromOneState
<1>1. LoaderInv /\ [Next]_vars => [Promise!Next]_Promise!vars
  BY NextRefines
<1> QED
  BY <1>1, InitRefines, LoaderInvariance, PTL DEF Spec, AnswersFromOneState, Promise!Spec
=============================================================================
