---------------------------- MODULE SkillLoader ----------------------------
(***************************************************************************)
(* Concurrent load_skill calls of one server: SkillLoader.Load (loader.go) *)
(* over the shared document cache (cache.go).  A step is one read of a     *)
(* file or one critical section of the cache's lock, so other calls run    *)
(* between the read of the file, the lookup in the cache, the eviction of  *)
(* a document found stale and the store of a validated one.                *)
(***************************************************************************)
EXTENDS LoadOutcome

CONSTANTS
  Call,       \* tool calls that can be in progress at the same time
  NoRequest,  \* the call is not being served
  NoResult,   \* the call has no answer yet
  NoPath,     \* the call has not resolved its name
  NoDoc       \* nothing cached, nothing read

ASSUME CallAssumption ==
  /\ NoRequest \notin Request
  /\ NoResult \notin LoadResult \cup SkillError

VARIABLES
  disk,      \* [Path -> Document]: what readTrustedFile finds
  docs,      \* Cache.docs: [Path -> cachedDoc or NoDoc]
  pc,        \* [Call -> step of Load]
  request,   \* [Call -> Request or NoRequest]
  entry,     \* [Call -> Path or NoPath]: candidates[0]
  data,      \* [Call -> Content or NoDoc]: the bytes read
  doc,       \* [Call -> cachedDoc or NoDoc]: what GetDocument saw
  result     \* [Call -> answer or NoResult]

vars == <<disk, docs, pc, request, entry, data, doc, result>>

cachedDoc == [content : Content, checksum : Checksum]

Step == {"idle", "lookup", "read", "get", "evict", "parse", "set", "done"}

Init ==
  /\ disk \in [Path -> Document]
  /\ docs = [f \in Path |-> NoDoc]
  /\ pc = [c \in Call |-> "idle"]
  /\ request = [c \in Call |-> NoRequest]
  /\ entry = [c \in Call |-> NoPath]
  /\ data = [c \in Call |-> NoDoc]
  /\ doc = [c \in Call |-> NoDoc]
  /\ result = [c \in Call |-> NoResult]

Goto(c, step) == pc' = [pc EXCEPT ![c] = step]

Finish(c, answer) ==
  /\ result' = [result EXCEPT ![c] = answer]
  /\ Goto(c, "done")

---------------------------------------------------------------------------
(* SkillLoader.Load *)

Begin(c) ==
  /\ pc[c] = "idle"
  /\ \E n \in Request : request' = [request EXCEPT ![c] = n]
  /\ Goto(c, "lookup")
  /\ UNCHANGED <<disk, docs, entry, data, doc, result>>

Unresolved(c) ==
  /\ pc[c] = "lookup"
  /\ \E e \in ResolutionErrors(request[c]) : Finish(c, e)
  /\ UNCHANGED <<disk, docs, request, entry, data, doc>>

Resolved(c) ==
  /\ pc[c] = "lookup"
  /\ ResolutionErrors(request[c]) = {}
  /\ \E f \in lookup(request[c]) : entry' = [entry EXCEPT ![c] = f]
  /\ Goto(c, "read")
  /\ UNCHANGED <<disk, docs, request, data, doc, result>>

\* Mutant: the error of the operating system is passed on.
ReadFails_Raw(c) ==
  /\ pc[c] = "read"
  /\ disk[entry[c]] \notin Content
  /\ Finish(c, skillError("EACCES"))
  /\ UNCHANGED <<disk, docs, request, entry, data, doc>>

ReadFails(c) ==
  /\ pc[c] = "read"
  /\ disk[entry[c]] \notin Content
  /\ Finish(c, skillError(IF disk[entry[c]] = Escaped THEN "UNSAFE_SOURCE"
                                                     ELSE "INVALID_SKILL"))
  /\ UNCHANGED <<disk, docs, request, entry, data, doc>>

ReadFile(c) ==
  /\ pc[c] = "read"
  /\ disk[entry[c]] \in Content
  /\ data' = [data EXCEPT ![c] = disk[entry[c]]]
  /\ Goto(c, "get")
  /\ UNCHANGED <<disk, docs, request, entry, doc, result>>

\* Frontmatter of the bytes read: the name must be the indexed one.
ParseFails(c) ==
  /\ pc[c] = "parse"
  /\ ~ValidFor(entry[c], data[c])
  /\ Finish(c, skillError("INVALID_SKILL"))
  /\ UNCHANGED <<disk, docs, request, entry, data, doc>>

\* Mutant: a changed name does not stop the load.
Parse_AnyName(c) ==
  /\ pc[c] = "parse"
  /\ Goto(c, "set")
  /\ UNCHANGED <<disk, docs, request, entry, data, doc, result>>

Parse(c) ==
  /\ pc[c] = "parse"
  /\ ValidFor(entry[c], data[c])
  /\ Goto(c, "set")
  /\ UNCHANGED <<disk, docs, request, entry, data, doc, result>>

Reply(c) ==
  /\ pc[c] = "done"
  /\ Goto(c, "idle")
  /\ request' = [request EXCEPT ![c] = NoRequest]
  /\ entry' = [entry EXCEPT ![c] = NoPath]
  /\ data' = [data EXCEPT ![c] = NoDoc]
  /\ doc' = [doc EXCEPT ![c] = NoDoc]
  /\ result' = [result EXCEPT ![c] = NoResult]
  /\ UNCHANGED <<disk, docs>>

---------------------------------------------------------------------------
(* Cache.GetDocument: a read-locked section, then a write-locked one when  *)
(* the document it saw does not have the checksum of the file.             *)

GetMiss(c) ==
  /\ pc[c] = "get"
  /\ docs[entry[c]] = NoDoc
  /\ Goto(c, "parse")
  /\ UNCHANGED <<disk, docs, request, entry, data, doc, result>>

\* Mutant: whatever is cached is served.
GetHit_AnyVersion(c) ==
  /\ pc[c] = "get"
  /\ docs[entry[c]] # NoDoc
  /\ Finish(c, [ name    |-> EntryName[entry[c]],
                 content |-> docs[entry[c]].content,
                 sha     |-> SHA256[data[c]] ])
  /\ UNCHANGED <<disk, docs, request, entry, data, doc>>

GetHit(c) ==
  /\ pc[c] = "get"
  /\ docs[entry[c]] # NoDoc
  /\ docs[entry[c]].checksum = SHA256[data[c]]
  /\ Finish(c, [ name    |-> EntryName[entry[c]],
                 content |-> docs[entry[c]].content,
                 sha     |-> SHA256[data[c]] ])
  /\ UNCHANGED <<disk, docs, request, entry, data, doc>>

GetStale(c) ==
  /\ pc[c] = "get"
  /\ docs[entry[c]] # NoDoc
  /\ docs[entry[c]].checksum # SHA256[data[c]]
  /\ doc' = [doc EXCEPT ![c] = docs[entry[c]]]
  /\ Goto(c, "evict")
  /\ UNCHANGED <<disk, docs, request, entry, data, result>>

\* Mutant: the condition before commit 44977e6.
Evict_NotMine(c) ==
  /\ pc[c] = "evict"
  /\ docs' = IF docs[entry[c]] # NoDoc /\ docs[entry[c]].checksum # SHA256[data[c]]
               THEN [docs EXCEPT ![entry[c]] = NoDoc]
               ELSE docs
  /\ Goto(c, "parse")
  /\ UNCHANGED <<disk, request, entry, data, doc, result>>

\* Mutant: after an eviction the lookup is tried again.
Evict_Retry(c) ==
  /\ pc[c] = "evict"
  /\ docs' = IF docs[entry[c]] # NoDoc /\ docs[entry[c]].checksum = doc[c].checksum
               THEN [docs EXCEPT ![entry[c]] = NoDoc]
               ELSE docs
  /\ Goto(c, "get")
  /\ UNCHANGED <<disk, request, entry, data, doc, result>>

Evict(c) ==
  /\ pc[c] = "evict"
  /\ docs' = IF docs[entry[c]] # NoDoc /\ docs[entry[c]].checksum = doc[c].checksum
               THEN [docs EXCEPT ![entry[c]] = NoDoc]
               ELSE docs
  /\ Goto(c, "parse")
  /\ UNCHANGED <<disk, request, entry, data, doc, result>>

SetDocument(c) ==
  /\ pc[c] = "set"
  /\ docs' = [docs EXCEPT ![entry[c]] =
                [content |-> data[c], checksum |-> SHA256[data[c]]]]
  /\ Finish(c, Loaded(entry[c], data[c]))
  /\ UNCHANGED <<disk, request, entry, data, doc>>

GetDocument(c) == GetMiss(c) \/ GetHit(c) \/ GetStale(c) \/ Evict(c)

InvalidateDocument ==
  /\ \E f \in Path : docs' = [docs EXCEPT ![f] = NoDoc]
  /\ UNCHANGED <<disk, pc, request, entry, data, doc, result>>

\* It also clears the index and its hash (cache.go:101), which no load looks at.
InvalidateAll ==
  /\ docs' = [f \in Path |-> NoDoc]
  /\ UNCHANGED <<disk, pc, request, entry, data, doc, result>>

---------------------------------------------------------------------------
\* Skill files change, vanish and are redirected at any time.
Edit ==
  /\ \E f \in Path, d \in Document : disk' = [disk EXCEPT ![f] = d]
  /\ UNCHANGED <<docs, pc, request, entry, data, doc, result>>

Load(c) ==
  \/ Unresolved(c) \/ Resolved(c) \/ ReadFails(c) \/ ReadFile(c)
  \/ GetDocument(c) \/ ParseFails(c) \/ Parse(c) \/ SetDocument(c) \/ Reply(c)

Next ==
  \/ Edit \/ InvalidateDocument \/ InvalidateAll
  \/ \E c \in Call : Begin(c) \/ Load(c)

Spec == Init /\ [][Next]_vars

\* A call runs in a goroutine of its own and holds the cache's lock only for
\* the length of a step, so a call that can take a step eventually takes it.
FairSpec == Spec /\ \A c \in Call : WF_vars(Load(c))

---------------------------------------------------------------------------
(* Properties *)

TypeOK ==
  /\ disk \in [Path -> Document]
  /\ docs \in [Path -> cachedDoc \cup {NoDoc}]
  /\ pc \in [Call -> Step]
  /\ request \in [Call -> Request \cup {NoRequest}]
  /\ entry \in [Call -> Path \cup {NoPath}]
  /\ data \in [Call -> Content \cup {NoDoc}]
  /\ doc \in [Call -> cachedDoc \cup {NoDoc}]
  /\ result \in [Call -> LoadResult \cup SkillError \cup {NoResult}]

\* A cached document passed the checks of the entry it is cached for, and its
\* checksum is that of its content: a hit needs neither check again.
CachedDocumentsValid ==
  \A f \in Path : docs[f] # NoDoc =>
    /\ ValidFor(f, docs[f].content)
    /\ docs[f].checksum = SHA256[docs[f].content]

\* An eviction deletes the document its call found stale and nothing stored
\* since (docs/IMPROVEMENT_REPORT.md, "Cache GetDocument ABA Race Condition").
EvictsOnlyWhatItSaw ==
  [][\A c \in Call : pc[c] = "evict" /\ pc'[c] = "parse" =>
       \A f \in Path : docs'[f] # docs[f] => f = entry[c] /\ docs[f] = doc[c]]_vars

\* Every call is answered, whatever other calls do to the cache.
EveryCallAnswered == \A c \in Call : pc[c] = "lookup" ~> pc[c] = "idle"

\* The answer of a call is decided when it reads the file: from then on, and
\* until it replies, it is the one the bytes it read call for.
Decided(c) ==
  IF pc[c] \in {"get", "evict", "parse", "set"}
    THEN Outcome(entry[c], data[c])
    ELSE result[c]

\* load_skill answers from one state of the files between request and answer,
\* although the answer may come from the cache (docs/ARCHITECTURE.md:61-63).
Promise == INSTANCE AtomicLoad WITH result <- [c \in Call |-> Decided(c)]

AnswersFromOneState == Promise!Spec
============================================================================
