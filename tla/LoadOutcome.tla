---------------------------- MODULE LoadOutcome ----------------------------
(***************************************************************************)
(* What load_skill answers for a logical name, given the catalog index and *)
(* the state of the skill files: the resolution of the name (lookup) and   *)
(* the checks of SkillLoader.Load (loader.go), as functions of their data. *)
(* The index of a running server never changes, so it is a constant.  A    *)
(* name is a value; what lookup needs to know of two names is whether one  *)
(* is the other or ends with ":" and the other.                            *)
(***************************************************************************)
CONSTANTS
  Path,        \* the paths of the index entries
  Name,        \* logical names
  Blank,       \* a name that cleanName trims to ""
  EntryName,   \* [Path -> Name]: the index
  SuffixOf,    \* the pairs <<n, m>> such that m ends with ":" n
  Content,     \* contents of a skill document
  NameIn,      \* [Content -> Name or NoName]: the name in the frontmatter
  NoName,      \* the frontmatter is invalid or has no name
  Checksum,    \* SHA-256 values
  SHA256,      \* [Content -> Checksum], hexSHA256
  Missing,     \* a path that cannot be read
  Escaped      \* a path that resolves outside its trusted root

ASSUME LoadAssumption ==
  /\ EntryName \in [Path -> Name]
  /\ SuffixOf \subseteq Name \X Name
  /\ NameIn \in [Content -> Name \cup {NoName}]
  /\ NoName \notin Name
  /\ Blank \notin Name
  /\ SHA256 \in [Content -> Checksum]
  /\ \A c, d \in Content : SHA256[c] = SHA256[d] => c = d
  /\ Missing \notin Content
  /\ Escaped \notin Content
  /\ Missing # Escaped

Request == Name \cup {Blank}

Document == Content \cup {Missing, Escaped}

ErrorCode == {"INVALID_ARGUMENT", "SKILL_NOT_FOUND", "AMBIGUOUS_SKILL",
              "UNSAFE_SOURCE", "INVALID_SKILL"}

LoadResult == [name : Name, content : Content, sha : Checksum]

SkillError == [code : ErrorCode]

skillError(code) == [code |-> code]

lookup(n) == {f \in Path : EntryName[f] = n \/ <<n, EntryName[f]>> \in SuffixOf}

\* Mutant: of several candidates the first found is loaded.
ResolutionErrors_FirstMatch(n) ==
  CASE n = Blank -> {skillError("INVALID_ARGUMENT")}
    [] n # Blank /\ lookup(n) = {} -> {skillError("SKILL_NOT_FOUND")}
    [] OTHER -> {}

\* The error Load returns before it looks at any file, if there is one.
ResolutionErrors(n) ==
  CASE n = Blank -> {skillError("INVALID_ARGUMENT")}
    [] n # Blank /\ lookup(n) = {} -> {skillError("SKILL_NOT_FOUND")}
    [] n # Blank /\ \E f, g \in lookup(n) : f # g -> {skillError("AMBIGUOUS_SKILL")}
    [] OTHER -> {}

\* The frontmatter still has the name the file was indexed under.
ValidFor(f, content) == NameIn[content] = EntryName[f]

Loaded(f, content) ==
  [name |-> EntryName[f], content |-> content, sha |-> SHA256[content]]

\* What Load answers when reading the file of entry f gives doc.
Outcome(f, doc) ==
  CASE doc = Escaped -> skillError("UNSAFE_SOURCE")
    [] doc = Missing -> skillError("INVALID_SKILL")
    [] doc \in Content /\ ~ValidFor(f, doc) -> skillError("INVALID_SKILL")
    [] OTHER -> Loaded(f, doc)
============================================================================
