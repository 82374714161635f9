-------------------------- MODULE CatalogSnapshot --------------------------
(***************************************************************************)
(* How a process of SkillLoader (the MCP server or `skillloader list`)     *)
(* obtains its catalog index: tryLoadIndex (catalog.go) validates the      *)
(* snapshot file written by an earlier process (loadSnapshot, snapshot.go) *)
(* and otherwise walks the roots, parses every SKILL.md (BuildIndex) and   *)
(* replaces the snapshot file (saveSnapshot).  Each file system call is a  *)
(* step of its own, so that several processes, the people editing skills   *)
(* and crashes interleave between any two of them.                         *)
(*                                                                         *)
(* Abstractions.  A content is a value; its SHA-256 identifies it.  The    *)
(* metadata an entry carries is a function of the content and the path, so *)
(* an entry is [path, content].  The snapshot file is opened once and      *)
(* decoded from that open file, which a rename never changes, so reading   *)
(* it is one step.  A walk visits the files of the roots in any order.     *)
(* Symbolic links are not modelled: no path of this model leaves its root. *)
(* A directory that cannot be read hides its files: they are absent.  The  *)
(* deferred os.Remove of saveSnapshot is taken to succeed.                 *)
(***************************************************************************)
EXTENDS Naturals, FiniteSets

CONSTANTS
  Proc,          \* processes
  Root,          \* catalog roots
  Path,          \* the SKILL.md paths that can exist under the roots
  Content,       \* the contents a SKILL.md can have
  RootOf,        \* [Path -> Root]
  RootsOf,       \* [Proc -> SUBSET Root]: the configured roots of a process
  Named,         \* the contents whose frontmatter parses and has a name
  SizeOf,        \* [Content -> Nat]: length of the content in bytes
  Guarded,       \* bound: the paths whose permission to be read may be missing
  Absent,        \* no file, no stored stat
  NoSnapshot,    \* no snapshot file, nothing decoded
  Partial,       \* a file that was created but is not completely written
  FreshMtimes,   \* TRUE: a write always gets a modification time of its own
  QuietBuilds,   \* TRUE: no file is written or deleted while a process indexes it
  MaxClock,      \* bound on the number of modification times
  MaxCrashes     \* bound on the number of crashes

ASSUME CatalogAssumption ==
  /\ RootOf \in [Path -> Root]
  /\ RootsOf \in [Proc -> SUBSET Root]
  /\ Named \subseteq Content
  /\ SizeOf \in [Content -> Nat]
  /\ IsFiniteSet(Path)
  /\ Guarded \subseteq Path
  /\ FreshMtimes \in BOOLEAN
  /\ QuietBuilds \in BOOLEAN
  /\ MaxClock \in Nat
  /\ MaxCrashes \in Nat

VARIABLES
  disk,      \* [Path -> file or Absent]: the skill files
  clock,     \* the latest modification time handed out
  snapshot,  \* the file catalog.gob
  temp,      \* [Proc -> ...]: the temporary file the process is writing
  litter,    \* number of temporary files nobody will remove
  crashes,   \* number of crashes so far
  pc,        \* [Proc -> phase]
  todo,      \* [Proc -> SUBSET Path]: paths the current loop has left
  found,     \* [Proc -> SUBSET Path]: what DiscoverSkills returned
  snap,      \* [Proc -> ...]: the decoded snapshot, or the one being built
  entries,   \* [Proc -> index entries]
  errs,      \* [Proc -> catalog errors]
  origin,    \* where the index came from
  seen,      \* history: [Proc -> [Path -> content the validation statted]]
  quiet      \* history: no file of the process changed since it started

files == <<disk, clock>>
cacheDir == <<snapshot, temp, litter>>
index == <<entries, errs, origin>>
vars == <<files, cacheDir, crashes, pc, todo, found, snap, index, seen, quiet>>

---------------------------------------------------------------------------
\* `readable`: the process may open the file.  `switched` is a history
\* component: that permission has changed since the file was written.
File == [content : Content, mtime : Nat, readable : BOOLEAN, switched : BOOLEAN]

\* A file as it is when somebody has just written it.
NewFiles(f, c, m) ==
  {[content |-> c, mtime |-> m, readable |-> r, switched |-> FALSE] :
     r \in IF f \in Guarded THEN BOOLEAN ELSE {TRUE}}

\* What saveSnapshot records of a file.  `content` is a history component:
\* the content the file had when it was statted; no check reads it.
Stat == [content : Content, mtime : Nat, size : Nat]

Entry == [path : Path, content : Content]

CatalogError == [path : Path, reason : {"unreadable", "outside", "invalid"}]

catalogSnapshot == [ roots : SUBSET Root,
                     paths : SUBSET Path,               \* DirFingerprint
                     stats : [Path -> Stat \cup {Absent}], \* FileTimes, FileSizes
                     entries : SUBSET Entry,
                     errors : SUBSET CatalogError ]

ASSUME SnapshotAssumption ==
  /\ {NoSnapshot, Partial, Absent} \cap catalogSnapshot = {}
  /\ NoSnapshot # Partial
  /\ Absent \notin File

Phase == {"idle", "open", "within", "walk", "stat", "discover", "parse",
          "rewalk", "restat", "encode", "rename", "done"}

\* The phases in which the index and the stats that vouch for it are taken.
IndexingPhase == {"discover", "parse", "rewalk", "restat"}

StatOf(f) == [ content |-> disk[f].content,
               mtime   |-> disk[f].mtime,
               size    |-> SizeOf[disk[f].content] ]

Candidates(p) == {f \in Path : RootOf[f] \in RootsOf[p]}

NoStats == [f \in Path |-> Absent]

Reached(p, phase, work) ==
  /\ pc' = [pc EXCEPT ![p] = phase]
  /\ todo' = [todo EXCEPT ![p] = work]

Visit(p, f) == todo' = [todo EXCEPT ![p] = @ \ {f}]

Init ==
  /\ disk \in [Path -> {Absent} \cup UNION {NewFiles(f, c, 0) : f \in Path, c \in Content}]
  /\ \A f \in Path \ Guarded : disk[f] # Absent => disk[f].readable
  /\ clock = 0
  /\ snapshot = NoSnapshot
  /\ temp = [p \in Proc |-> Absent]
  /\ litter = 0
  /\ crashes = 0
  /\ pc = [p \in Proc |-> "idle"]
  /\ todo = [p \in Proc |-> {}]
  /\ found = [p \in Proc |-> {}]
  /\ snap = [p \in Proc |-> NoSnapshot]
  /\ entries = [p \in Proc |-> {}]
  /\ errs = [p \in Proc |-> {}]
  /\ origin = [p \in Proc |-> "none"]
  /\ seen = [p \in Proc |-> NoStats]
  /\ quiet = [p \in Proc |-> FALSE]

---------------------------------------------------------------------------
(* loadSnapshot *)

Start(p) ==
  /\ pc[p] = "idle"
  /\ Reached(p, "open", {})
  /\ quiet' = [quiet EXCEPT ![p] = TRUE]
  /\ UNCHANGED <<files, cacheDir, crashes, found, snap, index, seen>>

\* Mutant: a snapshot that was read and found stale is read again, in the hope
\* that another process has replaced it.
Reject_Retry(p) ==
  /\ IF pc[p] = "open" THEN Reached(p, "discover", Candidates(p)) ELSE Reached(p, "open", {})
  /\ found' = [found EXCEPT ![p] = {}]
  /\ snap' = [snap EXCEPT ![p] = NoSnapshot]
  /\ seen' = [seen EXCEPT ![p] = NoStats]
  /\ UNCHANGED <<files, cacheDir, crashes, index, quiet>>

\* Every `return nil, nil, false` of loadSnapshot: tryLoadIndex goes on with
\* BuildIndex, which starts by walking the roots.
Reject(p) ==
  /\ Reached(p, "discover", Candidates(p))
  /\ found' = [found EXCEPT ![p] = {}]
  /\ snap' = [snap EXCEPT ![p] = NoSnapshot]
  /\ seen' = [seen EXCEPT ![p] = NoStats]
  /\ UNCHANGED <<files, cacheDir, crashes, index, quiet>>

SnapshotUsable(p) ==
  /\ snapshot \notin {NoSnapshot, Partial}
  /\ snapshot.roots = RootsOf[p]

OpenSnapshot(p) ==
  /\ pc[p] = "open"
  /\ SnapshotUsable(p)
  /\ snap' = [snap EXCEPT ![p] = snapshot]
  /\ Reached(p, "within", {e.path : e \in snapshot.entries})
  /\ UNCHANGED <<files, cacheDir, crashes, found, index, seen, quiet>>

\* No cache directory, no file, a file that cannot be opened or decoded, or a
\* snapshot of other roots.  Opening can fail whatever the file holds.
SnapshotUnusable(p) ==
  /\ pc[p] = "open"
  /\ Reject(p)

\* entryWithinRoots resolves the path of an entry, which fails when no file
\* is there any more, and looks for a configured root above it.
CheckEntryWithin(p) ==
  /\ pc[p] = "within"
  /\ \E f \in todo[p] :
       IF disk[f] = Absent \/ f \notin Candidates(p)
         THEN Reject(p)
         ELSE /\ Visit(p, f)
              /\ UNCHANGED <<files, cacheDir, crashes, pc, found, snap, index, seen, quiet>>

EntriesWithin(p) ==
  /\ pc[p] = "within"
  /\ todo[p] = {}
  /\ Reached(p, "walk", Candidates(p))
  /\ UNCHANGED <<files, cacheDir, crashes, found, snap, index, seen, quiet>>

\* One file met by DiscoverSkills, in loadSnapshot and in BuildIndex.
WalkFile(p) ==
  /\ pc[p] \in {"walk", "discover"}
  /\ \E f \in todo[p] :
       /\ Visit(p, f)
       /\ found' = [found EXCEPT ![p] = IF disk[f] = Absent THEN @ ELSE @ \cup {f}]
  /\ UNCHANGED <<files, cacheDir, crashes, pc, snap, index, seen, quiet>>

\* Mutant: the set of files is not compared, only the stats of those found.
SameFiles_Unchecked(p) == found[p] \subseteq Path

\* len(currentPaths) against len(FileTimes), then the fingerprints.
SameFiles(p) ==
  /\ Cardinality(found[p]) = Cardinality({f \in Path : snap[p].stats[f] # Absent})
  /\ found[p] = snap[p].paths

\* The DiscoverSkills of loadSnapshot returns an error.
WalkFails(p) ==
  /\ pc[p] = "walk"
  /\ Reject(p)

CompareFiles(p) ==
  /\ pc[p] = "walk"
  /\ todo[p] = {}
  /\ IF SameFiles(p)
       THEN /\ Reached(p, "stat", found[p])
            /\ UNCHANGED <<files, cacheDir, crashes, found, snap, index, seen, quiet>>
       ELSE Reject(p)

\* Mutant: only the size is compared.
Unmodified_SizeOnly(p, f) ==
  /\ disk[f] # Absent
  /\ snap[p].stats[f] # Absent
  /\ StatOf(f).size = snap[p].stats[f].size

\* The stat of a current file agrees with the stored time and size.
Unmodified(p, f) ==
  LET stored == snap[p].stats[f]
  IN  /\ disk[f] # Absent
      /\ stored # Absent
      /\ StatOf(f).mtime = stored.mtime
      /\ StatOf(f).size = stored.size

CheckFile(p) ==
  /\ pc[p] = "stat"
  /\ \E f \in todo[p] :
       IF Unmodified(p, f)
         THEN /\ Visit(p, f)
              /\ seen' = [seen EXCEPT ![p][f] = StatOf(f)]
              /\ UNCHANGED <<files, cacheDir, crashes, pc, found, snap, index, quiet>>
         ELSE Reject(p)

AcceptSnapshot(p) ==
  /\ pc[p] = "stat"
  /\ todo[p] = {}
  /\ entries' = [entries EXCEPT ![p] = snap[p].entries]
  /\ errs' = [errs EXCEPT ![p] = snap[p].errors]
  /\ origin' = [origin EXCEPT ![p] = "snapshot"]
  /\ Reached(p, "done", {})
  /\ UNCHANGED <<files, cacheDir, crashes, found, snap, seen, quiet>>

---------------------------------------------------------------------------
(* BuildIndex *)

\* DiscoverSkills returns an error (closing a root failed): tryLoadIndex ends
\* with no entries and that one error, which is of no path, and saves nothing.
DiscoverFails(p) ==
  /\ pc[p] = "discover"
  /\ origin' = [origin EXCEPT ![p] = "failed"]
  /\ Reached(p, "done", {})
  /\ UNCHANGED <<files, cacheDir, crashes, found, snap, entries, errs, seen, quiet>>

DiscoverDone(p) ==
  /\ pc[p] = "discover"
  /\ todo[p] = {}
  /\ Reached(p, "parse", found[p])
  /\ UNCHANGED <<files, cacheDir, crashes, found, snap, index, seen, quiet>>

\* readTrustedFile returned the content of the file.
Opens(f) == disk[f] # Absent /\ disk[f].readable

\* Why ParseSkill makes no entry of a file.  readTrustedFile says of a path it
\* cannot resolve that it is unreadable, and of one it resolves but cannot
\* read that it is outside the roots.
ParseError(f) ==
  [ path   |-> f,
    reason |-> IF disk[f] = Absent THEN "unreadable"
               ELSE IF ~disk[f].readable THEN "outside" ELSE "invalid" ]

\* Mutant: a file that vanished since the walk is skipped in silence.
ParseFile_SkipsVanished(p) ==
  /\ pc[p] = "parse"
  /\ \E f \in todo[p] :
       /\ Visit(p, f)
       /\ entries' = [entries EXCEPT ![p] =
            IF Opens(f) /\ disk[f].content \in Named
              THEN @ \cup {[path |-> f, content |-> disk[f].content]} ELSE @]
       /\ errs' = [errs EXCEPT ![p] =
            IF disk[f] # Absent /\ ~(Opens(f) /\ disk[f].content \in Named)
              THEN @ \cup {ParseError(f)} ELSE @]
  /\ UNCHANGED <<files, cacheDir, crashes, pc, found, snap, origin, seen, quiet>>

\* ParseSkill on one discovered path: an error is recorded and the loop goes on.
ParseFile(p) ==
  /\ pc[p] = "parse"
  /\ \E f \in todo[p] :
       /\ Visit(p, f)
       /\ IF Opens(f) /\ disk[f].content \in Named
            THEN /\ entries' = [entries EXCEPT ![p] =
                       @ \cup {[path |-> f, content |-> disk[f].content]}]
                 /\ UNCHANGED errs
            ELSE /\ errs' = [errs EXCEPT ![p] = @ \cup {ParseError(f)}]
                 /\ UNCHANGED entries
  /\ UNCHANGED <<files, cacheDir, crashes, pc, found, snap, origin, seen, quiet>>

\* BuildIndex returns and saveSnapshot begins with a walk of its own.
BeginSave(p) ==
  /\ pc[p] = "parse"
  /\ todo[p] = {}
  /\ origin' = [origin EXCEPT ![p] = "build"]
  /\ snap' = [snap EXCEPT ![p] = [ roots |-> RootsOf[p], paths |-> {},
                                   stats |-> NoStats,
                                   entries |-> entries[p], errors |-> errs[p] ]]
  /\ Reached(p, "rewalk", Candidates(p))
  /\ UNCHANGED <<files, cacheDir, crashes, found, entries, errs, seen, quiet>>

---------------------------------------------------------------------------
(* saveSnapshot *)

RewalkFile(p) ==
  /\ pc[p] = "rewalk"
  /\ \E f \in todo[p] :
       /\ Visit(p, f)
       /\ snap' = [snap EXCEPT ![p].paths = IF disk[f] = Absent THEN @ ELSE @ \cup {f}]
  /\ UNCHANGED <<files, cacheDir, crashes, pc, found, index, seen, quiet>>

RewalkDone(p) ==
  /\ pc[p] = "rewalk"
  /\ todo[p] = {}
  /\ Reached(p, "restat", snap[p].paths)
  /\ UNCHANGED <<files, cacheDir, crashes, found, snap, index, seen, quiet>>

\* A file that cannot be statted is skipped.
RestatFile(p) ==
  /\ pc[p] = "restat"
  /\ \E f \in todo[p] :
       /\ Visit(p, f)
       /\ snap' = IF disk[f] = Absent THEN snap
                  ELSE [snap EXCEPT ![p].stats[f] = StatOf(f)]
  /\ UNCHANGED <<files, cacheDir, crashes, pc, found, index, seen, quiet>>

\* Mutant: the snapshot is written in place, so creating it truncates it.
CreateTemp_InPlace(p) ==
  /\ pc[p] = "restat"
  /\ todo[p] = {}
  /\ snapshot' = Partial
  /\ temp' = [temp EXCEPT ![p] = Partial]
  /\ Reached(p, "encode", {})
  /\ UNCHANGED <<files, litter, crashes, found, snap, index, seen, quiet>>

\* os.CreateTemp picks a name no other file has.
CreateTemp(p) ==
  /\ pc[p] = "restat"
  /\ todo[p] = {}
  /\ temp' = [temp EXCEPT ![p] = Partial]
  /\ Reached(p, "encode", {})
  /\ UNCHANGED <<files, snapshot, litter, crashes, found, snap, index, seen, quiet>>

\* Encode, Sync and Close.
EncodeTemp(p) ==
  /\ pc[p] = "encode"
  /\ temp' = [temp EXCEPT ![p] = snap[p]]
  /\ Reached(p, "rename", {})
  /\ UNCHANGED <<files, snapshot, litter, crashes, found, snap, index, seen, quiet>>

\* saveSnapshot returns: the temporary file is gone, tryLoadIndex returns.
Saved(p) ==
  /\ temp' = [temp EXCEPT ![p] = Absent]
  /\ snap' = [snap EXCEPT ![p] = NoSnapshot]
  /\ Reached(p, "done", {})

\* Mutant: the deferred Remove runs before the rename.
RenameTemp_AfterRemove(p) ==
  /\ pc[p] = "rename"
  /\ snapshot' = Absent
  /\ Saved(p)
  /\ UNCHANGED <<files, litter, crashes, found, index, seen, quiet>>

RenameTemp(p) ==
  /\ pc[p] = "rename"
  /\ snapshot' = temp[p]
  /\ Saved(p)
  /\ UNCHANGED <<files, litter, crashes, found, index, seen, quiet>>

\* Mutant: a failed save leaves its temporary file behind.
SaveFails_NoRemove(p) ==
  /\ pc[p] \in {"rewalk", "restat", "encode", "rename"}
  /\ Reached(p, "done", {})
  /\ snap' = [snap EXCEPT ![p] = NoSnapshot]
  /\ UNCHANGED <<files, snapshot, temp, litter, crashes, found, index, seen, quiet>>

\* Any call of saveSnapshot fails; the deferred Remove deletes the temporary
\* file and tryLoadIndex ignores the error.
SaveFails(p) ==
  /\ pc[p] \in {"rewalk", "restat", "encode", "rename"}
  /\ Saved(p)
  /\ UNCHANGED <<files, snapshot, litter, crashes, found, index, seen, quiet>>

---------------------------------------------------------------------------
(* The process ends, normally or not, and a later one starts in its place. *)

Forget(p) ==
  /\ Reached(p, "idle", {})
  /\ found' = [found EXCEPT ![p] = {}]
  /\ snap' = [snap EXCEPT ![p] = NoSnapshot]
  /\ entries' = [entries EXCEPT ![p] = {}]
  /\ errs' = [errs EXCEPT ![p] = {}]
  /\ origin' = [origin EXCEPT ![p] = "none"]
  /\ seen' = [seen EXCEPT ![p] = NoStats]
  /\ quiet' = [quiet EXCEPT ![p] = FALSE]

Exit(p) ==
  /\ pc[p] = "done"
  /\ Forget(p)
  /\ UNCHANGED <<files, cacheDir, crashes>>

\* A killed process runs no deferred call: its temporary file stays.
Crash(p) ==
  /\ pc[p] \notin {"idle", "done"}
  /\ crashes < MaxCrashes
  /\ crashes' = crashes + 1
  /\ litter' = IF temp[p] = Absent THEN litter ELSE litter + 1
  /\ temp' = [temp EXCEPT ![p] = Absent]
  /\ Forget(p)
  /\ UNCHANGED <<files, snapshot>>

---------------------------------------------------------------------------
(* The people and tools that edit skills *)

MayEdit(f) ==
  QuietBuilds => \A p \in Proc : pc[p] \in IndexingPhase => f \notin Candidates(p)

Touched(f) == quiet' = [p \in Proc |-> quiet[p] /\ f \notin Candidates(p)]

WriteFile(f) ==
  /\ MayEdit(f)
  /\ \E c \in Content, m \in {clock, clock + 1} :
       /\ FreshMtimes => m = clock + 1
       /\ m <= MaxClock
       /\ clock' = m
       /\ \E file \in NewFiles(f, c, m) : disk' = [disk EXCEPT ![f] = file]
  /\ Touched(f)
  /\ UNCHANGED <<cacheDir, crashes, pc, todo, found, snap, index, seen>>

DeleteFile(f) ==
  /\ MayEdit(f)
  /\ disk[f] # Absent
  /\ disk' = [disk EXCEPT ![f] = Absent]
  /\ Touched(f)
  /\ UNCHANGED <<clock, cacheDir, crashes, pc, todo, found, snap, index, seen>>

\* chmod, or a passing failure to open the file: neither touches the content,
\* the modification time or the size, and nobody waits for an index with it.
ChangeMode(f) ==
  /\ f \in Guarded
  /\ disk[f] # Absent
  /\ disk' = [disk EXCEPT ![f].readable = ~@, ![f].switched = TRUE]
  /\ Touched(f)
  /\ UNCHANGED <<clock, cacheDir, crashes, pc, todo, found, snap, index, seen>>

---------------------------------------------------------------------------
loadSnapshot(p) ==
  \/ OpenSnapshot(p) \/ SnapshotUnusable(p)
  \/ CheckEntryWithin(p) \/ EntriesWithin(p) \/ WalkFails(p)
  \/ CompareFiles(p) \/ CheckFile(p) \/ AcceptSnapshot(p)

BuildIndex(p) == DiscoverFails(p) \/ DiscoverDone(p) \/ ParseFile(p) \/ BeginSave(p)

saveSnapshot(p) ==
  \/ RewalkFile(p) \/ RewalkDone(p) \/ RestatFile(p)
  \/ CreateTemp(p) \/ EncodeTemp(p) \/ RenameTemp(p) \/ SaveFails(p)

tryLoadIndex(p) ==
  \/ loadSnapshot(p) \/ WalkFile(p) \/ BuildIndex(p) \/ saveSnapshot(p)

Next ==
  \/ \E p \in Proc : Start(p) \/ tryLoadIndex(p) \/ Exit(p) \/ Crash(p)
  \/ \E f \in Path : WriteFile(f) \/ DeleteFile(f) \/ ChangeMode(f)

Spec == Init /\ [][Next]_vars
---------------------------------------------------------------------------
(* Properties *)

TypeOK ==
  /\ disk \in [Path -> File \cup {Absent}]
  /\ clock \in 0 .. MaxClock
  /\ snapshot \in catalogSnapshot \cup {NoSnapshot, Partial}
  /\ temp \in [Proc -> catalogSnapshot \cup {Absent, Partial}]
  /\ litter \in Nat
  /\ crashes \in 0 .. MaxCrashes
  /\ pc \in [Proc -> Phase]
  /\ todo \in [Proc -> SUBSET Path]
  /\ found \in [Proc -> SUBSET Path]
  /\ snap \in [Proc -> catalogSnapshot \cup {NoSnapshot}]
  /\ entries \in [Proc -> SUBSET Entry]
  /\ errs \in [Proc -> SUBSET CatalogError]
  /\ origin \in [Proc -> {"none", "build", "snapshot", "failed"}]
  /\ seen \in [Proc -> [Path -> Stat \cup {Absent}]]
  /\ quiet \in [Proc -> BOOLEAN]

\* What BuildIndex would make of the files as they are now.
Present(p) == {f \in Candidates(p) : disk[f] # Absent}
WrittenEntries(p) ==
  {[path |-> f, content |-> disk[f].content] :
     f \in {g \in Present(p) : disk[g].content \in Named}}
CurrentEntries(p) == {e \in WrittenEntries(p) : disk[e.path].readable}
CurrentErrors(p) ==
  {ParseError(f) : f \in {g \in Present(p) : ~(Opens(g) /\ disk[g].content \in Named)}}

\* A start that ended with an index while none of its files changed.
Undisturbed(p) == pc[p] = "done" /\ origin[p] # "failed" /\ quiet[p]

\* Of entries or errors, those of files whose permission to be read is the one
\* they were written with, or that are not there.
Steady(set) == {x \in set : disk[x.path] = Absent \/ ~disk[x.path].switched}

\* Restarting refreshes the metadata (docs/MCP_CONTRACT.md:143): when no file
\* changed since a process started, the entries it ends up with have the
\* contents of the files as they are, and are all there are of files whose
\* permissions did not change after they were written, whatever earlier
\* processes, other processes and crashes left in the cache directory.
RestartRefreshes ==
  \A p \in Proc : Undisturbed(p) =>
    /\ entries[p] \subseteq WrittenEntries(p)
    /\ Steady(entries[p]) = Steady(CurrentEntries(p))

\* The same of the errors a start logs as catalog warnings; and a file whose
\* permissions did change is still either listed or warned about, never both.
RestartRefreshesErrors ==
  \A p \in Proc : Undisturbed(p) =>
    LET parsed == {e.path : e \in entries[p]}
        failed == {r.path : r \in errs[p]}
    IN  /\ Steady(errs[p]) = Steady(CurrentErrors(p))
        /\ parsed \cup failed = Present(p)
        /\ parsed \cap failed = {}

\* BuildIndex loses no file: every path it discovered is still to be parsed,
\* or has one entry, or has one error, and never two of these, even though
\* files vanish and change between the walk and the parse.
DiscoveredFilesAccounted ==
  \A p \in Proc :
    LET parsed == {e.path : e \in entries[p]}
        failed == {r.path : r \in errs[p]}
        pending == IF pc[p] = "parse" THEN todo[p] ELSE {}
    IN  pc[p] = "parse" \/ origin[p] = "build" =>
          /\ found[p] = pending \cup parsed \cup failed
          /\ pending \cap parsed = {}
          /\ pending \cap failed = {}
          /\ parsed \cap failed = {}
          /\ \A d, e \in entries[p] : d.path = e.path => d = e

\* Accepting a snapshot adds no staleness of its own: every file its validation
\* statted had the very content the file had when the snapshot's builder
\* statted it, so an accepted entry is stale only if it already was when the
\* snapshot was written.
AcceptedStatsMatch ==
  \A p \in Proc : origin[p] = "snapshot" =>
    \A f \in found[p] : seen[p][f].content = snap[p].stats[f].content

\* Readers never meet a half-written catalog.gob, whatever process was killed
\* while it was writing one.
SnapshotComplete == snapshot # Partial

\* A temporary file outlives its process only when that process was killed:
\* every other way out of saveSnapshot removes or renames it.
TempsRemoved ==
  /\ \A p \in Proc : pc[p] \in {"idle", "done"} => temp[p] = Absent
  /\ litter <= crashes

\* The order in which tryLoadIndex comes through its phases.
Place == [ open |-> 1, within |-> 2, walk |-> 3, stat |-> 4, discover |-> 5, parse |-> 6,
           rewalk |-> 7, restat |-> 8, encode |-> 9, rename |-> 10, done |-> 11, idle |-> 12 ]

\* No retry: whatever others edit, replace or kill meanwhile, each step of a
\* start takes it to a later phase or leaves its loop fewer files, and nobody
\* else's step moves it.  So a start that is not killed ends, with an index or
\* with the error of a walk (tryLoadIndex, catalog.go:146).
StartsOnlyAdvance ==
  [][\A p \in Proc : tryLoadIndex(p) \/ <<pc'[p], todo'[p]>> # <<pc[p], todo[p]>> =>
       \/ pc[p] = "idle"
       \/ Place[pc[p]] < Place[pc'[p]]
       \/ pc'[p] = pc[p] /\ todo'[p] \subseteq todo[p] /\ todo'[p] # todo[p]]_vars
===========================================================================
