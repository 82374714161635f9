----------------------------- MODULE TrustedFile -----------------------------
(***************************************************************************)
(* readTrustedFile (catalog.go): one read of <root>/<skill>/SKILL.md, in   *)
(* steps between which anybody may change the file system.  The function   *)
(* resolves the path twice: EvalSymlinks walks it by name for the check,   *)
(* and then os.Root walks it again from a handle on the root for the read. *)
(*                                                                         *)
(* The configured root is itself a name, often a link.  Directories do not *)
(* move; what the names in them stand for does.  A link is relative or     *)
(* absolute; chains of links are followed as one.  The path is under the   *)
(* root by its name, as those DiscoverSkills returns are.                  *)
(***************************************************************************)
EXTENDS Naturals, FiniteSets

CONSTANTS
  Root,        \* the directories the configured root may stand for
  Skill,       \* the directories a skill's name may stand for
  Tree,        \* [Root -> SUBSET Skill]: the directories inside a root
  EntryIn,     \* [Root -> SUBSET Item]: what the skill's name may be in it
  DocumentIn,  \* [Skill -> SUBSET Item]: what SKILL.md may be in it
  Missing,
  Nothing,
  MaxChanges   \* changes during one read

\* What a name stands for: a thing of some kind, in or being the directory
\* `dir`, there itself or through a link.
Item == [kind : {"directory", "file", "sealed"}, dir : Skill,
         link : {"none", "relative", "absolute"}]

\* errUnreadableSkill and errOutsideTrustedRoots
Unreadable == [error |-> "unreadable"]
Outside == [error |-> "outside"]

ASSUME TrustedAssumption ==
  /\ Tree \in [Root -> SUBSET Skill]
  /\ EntryIn \in [Root -> SUBSET (Item \cup {Missing})]
  /\ DocumentIn \in [Skill -> SUBSET (Item \cup {Missing})]
  /\ \A r \in Root : \A i \in EntryIn[r] \ {Missing} :
       i.link = "none" => i.dir \in Tree[r]
  /\ \A s \in Skill : \A i \in DocumentIn[s] \ {Missing} :
       i.link = "none" => i.dir = s
  /\ MaxChanges \in Nat
  /\ Missing \notin Root \cup Item
  /\ Nothing \notin Root \cup Skill \cup Item \cup {Missing, Unreadable, Outside}
  /\ {Unreadable, Outside} \cap Item = {}

VARIABLES
  root,         \* what the configured root stands for
  entry,        \* [Root -> Item or Missing]: the skill's name in each root
  document,     \* [Skill -> Item or Missing]: SKILL.md in each directory
  pc,           \* the next step of the read
  resolvedRoot, \* EvalSymlinks(absRoot)
  at,           \* the directory a walk has come to, or Nothing
  resolvedPath, \* EvalSymlinks(absPath): the item found
  trustedRoot,  \* the handle of OpenRoot
  answer,       \* the item read, an error, or Nothing
  past          \* history: the file systems since the read began

files == <<root, entry, document>>
locals == <<resolvedRoot, at, resolvedPath, trustedRoot>>
vars == <<files, pc, locals, answer, past>>

Init ==
  /\ root \in Root \cup {Missing}
  /\ entry \in [Root -> UNION {EntryIn[r] : r \in Root}]
  /\ \A r \in Root : entry[r] \in EntryIn[r]
  /\ document \in [Skill -> UNION {DocumentIn[s] : s \in Skill}]
  /\ \A s \in Skill : document[s] \in DocumentIn[s]
  /\ pc = "resolveRoot"
  /\ resolvedRoot = Nothing /\ at = Nothing /\ resolvedPath = Nothing
  /\ trustedRoot = Nothing
  /\ answer = Nothing
  /\ past = {files}

\* Somebody switches, installs, removes or seals something.
Change ==
  /\ pc # "done"
  /\ \/ /\ root' \in Root \cup {Missing}
        /\ UNCHANGED <<entry, document>>
     \/ /\ \E r \in Root : \E i \in EntryIn[r] : entry' = [entry EXCEPT ![r] = i]
        /\ UNCHANGED <<root, document>>
     \/ /\ \E s \in Skill : \E i \in DocumentIn[s] : document' = [document EXCEPT ![s] = i]
        /\ UNCHANGED <<root, entry>>
  /\ past' = past \cup {files'}
  /\ Cardinality(past') <= MaxChanges + 1
  /\ UNCHANGED <<pc, locals, answer>>

At(step) == pc = step /\ UNCHANGED <<files, past>>

Return(value) ==
  /\ answer' = value
  /\ pc' = "done"
  /\ UNCHANGED locals

Continue(step) == pc' = step /\ UNCHANGED answer

errUnreadableSkill == Return(Unreadable)
errOutsideTrustedRoots == Return(Outside)

ResolveRoot ==
  /\ At("resolveRoot")
  /\ IF root = Missing THEN errUnreadableSkill
     ELSE /\ resolvedRoot' = root
          /\ Continue("resolveEntry")
          /\ UNCHANGED <<at, resolvedPath, trustedRoot>>

\* EvalSymlinks starts again with the name of the root, and follows any link.
ResolveEntry ==
  /\ At("resolveEntry")
  /\ IF root # Missing /\ entry[root] # Missing /\ entry[root].kind = "directory"
     THEN /\ at' = entry[root].dir
          /\ Continue("resolveDocument")
          /\ UNCHANGED <<resolvedRoot, resolvedPath, trustedRoot>>
     ELSE errUnreadableSkill

ResolveDocument ==
  /\ At("resolveDocument")
  /\ IF document[at] = Missing THEN errUnreadableSkill
     ELSE /\ resolvedPath' = document[at]
          /\ Continue("check")
          /\ UNCHANGED <<resolvedRoot, at, trustedRoot>>

pathWithinRoot(r, item) == item.dir \in Tree[r]

CheckWithin ==
  /\ At("check")
  /\ IF pathWithinRoot(resolvedRoot, resolvedPath)
     THEN Continue("openRoot") /\ UNCHANGED locals
     ELSE errOutsideTrustedRoots

OpenRoot ==
  /\ At("openRoot")
  /\ IF root = Missing THEN errUnreadableSkill
     ELSE /\ trustedRoot' = root
          /\ Continue("readEntry")
          /\ UNCHANGED <<resolvedRoot, at, resolvedPath>>

\* Mutant: the checked path is read by its name (os.ReadFile).
Follows_AnyLink(item) == TRUE

\* os.Root follows a link only if it is relative and stays in the root.
Follows(item) ==
  item.link = "none" \/ (item.link = "relative" /\ item.dir \in Tree[trustedRoot])

\* Mutant: every failure of the read is an escape.
ReadError_AlwaysOutside(item) == errOutsideTrustedRoots

\* Only os.ErrNotExist is told apart from the other failures of the read.
ReadError(item) ==
  IF item = Missing THEN errUnreadableSkill ELSE errOutsideTrustedRoots

ReadEntry ==
  /\ At("readEntry")
  /\ LET item == entry[trustedRoot]
     IN  IF item # Missing /\ item.kind = "directory" /\ Follows(item)
         THEN /\ at' = item.dir
              /\ Continue("readDocument")
              /\ UNCHANGED <<resolvedRoot, resolvedPath, trustedRoot>>
         ELSE ReadError(item)

ReadDocument ==
  /\ At("readDocument")
  /\ LET item == document[at]
     IN  IF item # Missing /\ item.kind = "file" /\ Follows(item)
         THEN Return(item)
         ELSE ReadError(item)

readTrustedFile ==
  \/ ResolveRoot \/ ResolveEntry \/ ResolveDocument \/ CheckWithin
  \/ OpenRoot \/ ReadEntry \/ ReadDocument

Next == Change \/ readTrustedFile

Spec == Init /\ [][Next]_vars
-----------------------------------------------------------------------------
(* Properties *)

TypeOK ==
  /\ root \in Root \cup {Missing}
  /\ \A r \in Root : entry[r] \in EntryIn[r]
  /\ \A s \in Skill : document[s] \in DocumentIn[s]
  /\ at \in Skill \cup {Nothing}
  /\ trustedRoot \in Root \cup {Nothing}
  /\ answer \in Item \cup {Unreadable, Outside} \cup {Nothing}
  /\ (pc = "done") <=> (answer # Nothing)

\* "Resolved and symlinked paths must remain under an allowed root"
\* (docs/ARCHITECTURE.md:103): the bytes that are read are of a file inside a
\* directory that the configured root stood for during the read, however the
\* links are switched between the check and the read.
ReadStaysInside ==
  answer \in Item =>
    \E fs \in past : fs[1] \in Root /\ answer.dir \in Tree[fs[1]]

\* What the names on the path stood for while it was read, in any mixture of
\* the file systems there were.
RootsSeen == {fs[1] : fs \in past}
EntriesSeen == {fs[2][r] : fs \in past, r \in RootsSeen \ {Missing}}
DocumentsSeen == {fs[3][i.dir] : fs \in past, i \in EntriesSeen \ {Missing}}

ForbiddenFrom(r, item) ==
  item # Missing /\ (item.link = "absolute" \/ item.dir \notin Tree[r])

\* A refusal has its cause in what there was during the read: a skill whose
\* path was good throughout is read, whatever else happens to the files, and
\* one that was only missing is not said to escape its root (the two codes of
\* loader.go:62-70).
RefusalHasCause ==
  /\ answer = Outside =>
       \/ \E r \in RootsSeen \ {Missing}, item \in EntriesSeen \cup DocumentsSeen :
            ForbiddenFrom(r, item)
       \/ \E item \in EntriesSeen \ {Missing} : item.kind # "directory"
       \/ \E item \in DocumentsSeen \ {Missing} : item.kind # "file"
  /\ answer = Unreadable =>
       \/ Missing \in RootsSeen \cup EntriesSeen \cup DocumentsSeen
       \/ \E item \in EntriesSeen \ {Missing} : item.kind # "directory"
=============================================================================
