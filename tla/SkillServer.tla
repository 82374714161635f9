---------------------------- MODULE SkillServer ----------------------------
(***************************************************************************)
(* The MCP server (newServer, main.go) between two restarts and across     *)
(* them, with one client that keeps what it was given: search_skills and   *)
(* load_skill, the catalog revision (Cache.StoreIndex), and the two hashes *)
(* by which the client tells the server not to send an answer again.  It   *)
(* composes the search layers (SearchEngine) with the resolution and the   *)
(* checks of a load (LoadOutcome); SkillLoader shows that concurrent loads *)
(* through the cache answer as the single step Load of this module does.   *)
(*                                                                         *)
(* A content determines the metadata parsed from it, so a SHA-256 is the   *)
(* content in a tuple, and a hash of several values is their tuple.        *)
(***************************************************************************)
EXTENDS SearchEngine

CONSTANTS
  Path,         \* SKILL.md paths under the roots
  PathOrder,    \* [Path -> Nat]: sort.Strings of the paths
  SourceOf,     \* [Path -> STRING]: classifySource
  Content,      \* contents that parse and have a name
  NameOf, DescriptionOf, TagsOf,   \* the metadata parsed from a content
  SuffixOf,     \* the pairs <<n, m>> of names such that m ends with ":" n
  Query,        \* SUBSET (SUBSET Raw): the queries asked
  LimitArgument, \* SUBSET Int: the limits asked for
  Omitted,      \* the client sends no limit
  Blank,        \* an argument that is blank or too long
  Missing, Escaped, NoName, Nothing

ASSUME ServerAssumption ==
  /\ IsFiniteSet(Path)
  /\ PathOrder \in [Path -> Nat]
  /\ \A f, g \in Path : PathOrder[f] = PathOrder[g] => f = g
  /\ NameOf \in [Content -> Text]
  /\ DescriptionOf \in [Content -> Text]
  /\ TagsOf \in [Content -> Seq(Text)]
  /\ SuffixOf \subseteq Text \X Text
  /\ Query \subseteq SUBSET Raw
  /\ \A query \in Query : IsFiniteSet(query)
  /\ LimitArgument \subseteq Nat \cup {Omitted}
  /\ Missing \notin Content /\ Escaped \notin Content /\ Missing # Escaped
  /\ Blank \notin Query /\ Blank \notin Text

VARIABLES
  disk,      \* [Path -> Content or Missing]
  index,     \* the index of the running server
  indexHash, \* Cache.indexHash
  memo,      \* the last full search answer the client kept, or Nothing
  document,  \* the last document the client kept, or Nothing
  reply      \* the last answer, or Nothing

vars == <<disk, index, indexHash, memo, document, reply>>

hexSHA256(content) == <<content>>

IndexEntry(f, content) ==
  [ name |-> NameOf[content], description |-> DescriptionOf[content],
    tags |-> TagsOf[content], source |-> SourceOf[f], path |-> f,
    checksum |-> hexSHA256(content) ]

\* BuildIndex: the entries of the files, by name.  sort.Slice sorts fewer than
\* twelve entries by insertion, so those of one name stay in path order.  Every
\* content of this model parses: files that do not have no entry, and their
\* errors, which doctor reports, are those of CatalogSnapshot.
BuildIndex(files) ==
  LET entries == {IndexEntry(f, files[f]) : f \in {g \in Path : files[g] # Missing}}
      Before(d, e) ==
        \/ Order[d.name] < Order[e.name]
        \/ d.name = e.name /\ PathOrder[d.path] < PathOrder[e.path]
  IN  CHOOSE s \in [1 .. Cardinality(entries) -> entries] :
        \A i, j \in DOMAIN s : i < j => Before(s[i], s[j])

\* Mutant: the revision is of the names alone.
StoreIndex_NamesOnly(entries) == [i \in DOMAIN entries |-> entries[i].name]

\* The hash of the names and checksums in the order of the index.
StoreIndex(entries) ==
  [i \in DOMAIN entries |-> <<entries[i].name, entries[i].checksum>>]

searchQueryHash(query, limit, revision) == <<query, limit, revision>>

\* No hash at all is none of the hashes.
ASSUME NoHashAssumption ==
  /\ Nothing \notin {hexSHA256(c) : c \in Content}
  /\ Nothing \notin Query \X Nat \X Seq(Text \X {hexSHA256(c) : c \in Content})

\* Mutant: a limit above ten is taken as it is.
EffectiveLimit_NoCeiling(argument) ==
  IF argument = Omitted \/ argument = 0 THEN 5 ELSE argument

EffectiveLimit(argument) ==
  IF argument \in 1 .. 10 THEN argument ELSE 5

\* The names and paths of the index, as the loader resolves them.
IndexedPath == {index[i].path : i \in DOMAIN index}
EntryAt == [f \in IndexedPath |-> CHOOSE i \in DOMAIN index : index[i].path = f]

Loader == INSTANCE LoadOutcome WITH
  Path <- IndexedPath,
  Name <- Text,
  EntryName <- [f \in IndexedPath |-> index[EntryAt[f]].name],
  NameIn <- NameOf,
  Checksum <- {hexSHA256(c) : c \in Content},
  SHA256 <- [c \in Content |-> hexSHA256(c)]

Init ==
  /\ disk \in [Path -> Content \cup {Missing}]
  /\ index = BuildIndex(disk)
  /\ indexHash = StoreIndex(index)
  /\ memo = Nothing
  /\ document = Nothing
  /\ reply = Nothing

\* A new server over the files as they are.  That the snapshot adds nothing
\* to this is what CatalogSnapshot is about.
Restart ==
  /\ index' = BuildIndex(disk)
  /\ indexHash' = StoreIndex(index')
  /\ reply' = Nothing
  /\ UNCHANGED <<disk, memo, document>>

\* Somebody writes, deletes or moves a skill.
Write(f) ==
  /\ \E doc \in (Content \cup {Missing}) \ {disk[f]} : disk' = [disk EXCEPT ![f] = doc]
  /\ reply' = Nothing
  /\ UNCHANGED <<index, indexHash, memo, document>>

Move(f, g) ==
  /\ disk[f] # Missing
  /\ disk[g] = Missing
  /\ disk' = [disk EXCEPT ![f] = Missing, ![g] = disk[f]]
  /\ reply' = Nothing
  /\ UNCHANGED <<index, indexHash, memo, document>>

Rejected(code) ==
  /\ reply' = [kind |-> "error", revision |-> indexHash, code |-> code]
  /\ UNCHANGED <<disk, index, indexHash, memo, document>>

search_skills_Invalid == Rejected("INVALID_ARGUMENT")

\* The client sends the hash it was given, if it sends one.
search_skills(query, argument) ==
  LET limit == EffectiveLimit(argument)
      hash == searchQueryHash(query, limit, indexHash)
      known == IF memo = Nothing THEN {Nothing} ELSE {Nothing, memo.hash}
  IN  \E knownQueryHash \in known, matches \in Search(index, query, limit) :
        /\ reply' = [ kind |-> "search", query |-> query, limit |-> limit,
                      cached |-> knownQueryHash = hash, revision |-> indexHash ]
        /\ memo' = IF knownQueryHash = hash THEN memo
                   ELSE [matches |-> matches, hash |-> hash]
        /\ UNCHANGED <<disk, index, indexHash, document>>

\* Mutant: the known hash is compared with the checksum of the index.
LoadedCached_Indexed(result, f, known) == known = index[EntryAt[f]].checksum

LoadedCached(result, f, known) == known = result.sha

load_skill(name) ==
  LET known == IF document = Nothing THEN {Nothing} ELSE {Nothing, document.sha}
      failures == Loader!ResolutionErrors(name)
  IN  \/ \E e \in failures : Rejected(e.code)
      \/ /\ failures = {}
         /\ \E f \in Loader!lookup(name), knownContentSHA256 \in known :
              LET result == Loader!Outcome(f, disk[f])
                  cached == LoadedCached(result, f, knownContentSHA256)
              IN  IF "code" \in DOMAIN result THEN Rejected(result.code)
                  ELSE /\ reply' = [ kind |-> "load", name |-> name, entry |-> result.name,
                                     cached |-> cached, revision |-> indexHash ]
                       /\ document' = IF cached THEN document
                                      ELSE [content |-> result.content, sha |-> result.sha]
                       /\ UNCHANGED <<disk, index, indexHash, memo>>

Occurrences(entries, n) == Cardinality({i \in DOMAIN entries : entries[i].name = n})

\* Mutant: a name may occur twice.
Duplicated_Thrice(entries, n) == Occurrences(entries, n) > 2

Duplicated(entries, n) == Occurrences(entries, n) > 1

\* A doctor of its own process looks at the files, not at the index of the server.
Doctor ==
  LET entries == BuildIndex(disk)
  IN  /\ reply' = [ kind |-> "doctor", skills |-> Len(entries),
                    duplicates |-> {n \in Text : Duplicated(entries, n)},
                    untagged |-> {i \in DOMAIN entries : entries[i].tags = <<>>} ]
      /\ UNCHANGED <<disk, index, indexHash, memo, document>>

Next ==
  \/ Restart
  \/ \E f \in Path : Write(f)
  \/ \E f, g \in Path : Move(f, g)
  \/ search_skills_Invalid
  \/ \E query \in Query, argument \in LimitArgument : search_skills(query, argument)
  \/ \E name \in Text \cup {Blank} : load_skill(name)
  \/ Doctor

Spec == Init /\ [][Next]_vars
-----------------------------------------------------------------------------
(* Properties *)

Searched == reply # Nothing /\ reply.kind = "search"

TypeOK ==
  /\ disk \in [Path -> Content \cup {Missing}]
  /\ \A i \in DOMAIN index : index[i] \in {IndexEntry(f, c) : f \in Path, c \in Content}
  /\ memo # Nothing => DOMAIN memo = {"matches", "hash"}
  /\ document # Nothing => document.sha = hexSHA256(document.content)
  /\ reply # Nothing => reply.kind \in {"error", "search", "load", "doctor"}
  /\ Searched => reply.limit \in 1 .. 10 /\ Len(memo.matches) <= reply.limit

WithoutSource(m) ==
  [name |-> m.name, description |-> m.description, tags |-> m.tags, score |-> m.score]

\* A client that is told its search is cached (MCP_CONTRACT.md:64) holds the
\* names, descriptions, tags and scores a full answer would have, in the same
\* order, although the server it asks may have restarted over other files
\* since it kept them.
CachedSearchCurrent ==
  Searched =>
    \A matches \in Search(index, reply.query, reply.limit) :
      /\ Len(matches) = Len(memo.matches)
      /\ \A i \in DOMAIN matches : WithoutSource(matches[i]) = WithoutSource(memo.matches[i])

\* A client that is told its document is cached holds the bytes the file of
\* the skill has now, whatever was edited since it loaded them and under
\* whatever name it did.
CachedLoadCurrent ==
  reply # Nothing /\ reply.kind = "load" =>
    \E i \in DOMAIN index :
      /\ index[i].name = reply.entry
      /\ disk[index[i].path] = document.content
      /\ document.sha = hexSHA256(disk[index[i].path])

\* Loading a name that a search of this server returned never gives a skill
\* of another name: what is loaded is what was chosen, or there is an error.
OfferedNamesLoadThemselves ==
  /\ reply # Nothing /\ reply.kind = "load"
  /\ \E i \in DOMAIN index : index[i].name = reply.name
  => reply.entry = reply.name

\* doctor names as duplicates exactly the names that a server started over the
\* same files refuses for being ambiguous, except those that are the end of
\* another name, which doctor does not look for.
DoctorExplainsAmbiguity ==
  /\ reply # Nothing /\ reply.kind = "doctor"
  /\ index = BuildIndex(disk)
  => \A n \in Text :
       /\ n \in reply.duplicates => Loader!ResolutionErrors(n) = {Loader!skillError("AMBIGUOUS_SKILL")}
       /\ /\ Loader!ResolutionErrors(n) = {Loader!skillError("AMBIGUOUS_SKILL")}
          /\ \A i \in DOMAIN index : <<n, index[i].name>> \notin SuffixOf
          => n \in reply.duplicates

\* load_skill takes "the name returned by search_skills" (main.go:123): when no
\* two skills have the same name, none the client was just offered is refused.
OfferedNamesResolve ==
  /\ Searched
  /\ \A i, j \in DOMAIN index : index[i].name = index[j].name => i = j
  => \A i \in DOMAIN memo.matches : Loader!ResolutionErrors(memo.matches[i].name) = {}
=============================================================================
