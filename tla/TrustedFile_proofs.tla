------------------------- MODULE TrustedFile_proofs -------------------------
(***************************************************************************)
(* The containment of a read, and the reasons of its refusals, for any     *)
(* file systems and any number of changes during it.  What makes the first *)
(* inductive is the handle: once the root is open the walk can only come   *)
(* to directories inside that root, although the names it follows may      *)
(* stand for anything by then.  The second needs that everything the walk  *)
(* goes through was seen at some moment of the read.                       *)
(***************************************************************************)
EXTENDS TrustedFile, TLAPS

\* Whatever the file system, an item that os.Root follows is inside the root.
ItemsOk ==
  /\ root \in Root \cup {Missing}
  /\ \A r \in Root : entry[r] \in EntryIn[r]
  /\ \A s \in Skill : document[s] \in DocumentIn[s]
  /\ entry \in [Root -> UNION {EntryIn[r] : r \in Root}]
  /\ document \in [Skill -> UNION {DocumentIn[s] : s \in Skill}]

LocalsOk ==
  /\ at \in Skill \cup {Nothing}
  /\ pc = "resolveDocument" => at \in Skill
  /\ trustedRoot \in Root \cup {Nothing}
  /\ answer \in Item \cup {Unreadable, Outside, Nothing}
  /\ (pc = "done") <=> (answer # Nothing)

\* The handle is of a directory the configured root stood for.
HandleOk ==
  /\ files \in past
  /\ trustedRoot # Nothing => \E fs \in past : fs[1] = trustedRoot
  /\ pc = "readEntry" => trustedRoot \in Root
  /\ pc = "readDocument" => trustedRoot \in Root /\ at \in Tree[trustedRoot]

IInv == ItemsOk /\ LocalsOk /\ HandleOk /\ ReadStaysInside

LEMMA EntryIsItem ==
  ASSUME ItemsOk, NEW r \in Root, entry[r] # Missing
  PROVE  /\ entry[r] \in Item
         /\ entry[r].dir \in Skill
         /\ entry[r].link = "none" => entry[r].dir \in Tree[r]
<1>1. entry[r] \in EntryIn[r] /\ EntryIn[r] \subseteq Item \cup {Missing}
  BY TrustedAssumption DEF ItemsOk
<1>2. entry[r] \in Item
  BY <1>1
<1>3. entry[r].link = "none" => entry[r].dir \in Tree[r]
  BY <1>1, TrustedAssumption
<1> QED
  BY <1>2, <1>3 DEF Item

LEMMA DocumentIsItem ==
  ASSUME ItemsOk, NEW s \in Skill, document[s] # Missing
  PROVE  /\ document[s] \in Item
         /\ document[s].link = "none" => document[s].dir = s
<1>1. document[s] \in DocumentIn[s] /\ DocumentIn[s] \subseteq Item \cup {Missing}
  BY TrustedAssumption DEF ItemsOk
<1> QED
  BY <1>1, TrustedAssumption

\* A walk that gives up leaves everything but its answer.
LEMMA GivingUp ==
  ASSUME IInv, UNCHANGED <<files, past>>, UNCHANGED locals, pc' = "done",
         answer' \in {Unreadable, Outside}
  PROVE  IInv'
<1>1. answer' # Nothing /\ answer' \notin Item
  BY TrustedAssumption
<1> QED
  BY <1>1 DEF IInv, ItemsOk, LocalsOk, HandleOk, ReadStaysInside, files, locals

\* The initial states.
LEMMA InitInvariant == Init => IInv
<1> SUFFICES ASSUME Init PROVE IInv
  OBVIOUS
<1>1. answer \notin Item
  BY TrustedAssumption DEF Init
<1> QED
  BY <1>1, TrustedAssumption
  DEF Init, IInv, ItemsOk, LocalsOk, HandleOk, ReadStaysInside

LEMMA StepInvariant == IInv /\ [Next]_vars => IInv'
<1> SUFFICES ASSUME IInv, [Next]_vars PROVE IInv'
  OBVIOUS
<1>1. CASE Change
  <2>1. ItemsOk'
    <3>1. CASE root' \in Root \cup {Missing} /\ UNCHANGED <<entry, document>>
      BY <3>1 DEF IInv, ItemsOk
    <3>2. ASSUME NEW r \in Root, NEW i \in EntryIn[r],
                 entry' = [entry EXCEPT ![r] = i], UNCHANGED <<root, document>>
          PROVE  ItemsOk'
      BY <3>2 DEF IInv, ItemsOk
    <3>3. ASSUME NEW s \in Skill, NEW i \in DocumentIn[s],
                 document' = [document EXCEPT ![s] = i], UNCHANGED <<root, entry>>
          PROVE  ItemsOk'
      BY <3>3 DEF IInv, ItemsOk
    <3> QED
      BY <1>1, <3>1, <3>2, <3>3 DEF Change
  <2>2. past \subseteq past' /\ files' \in past' /\ UNCHANGED <<pc, locals, answer>>
    BY <1>1 DEF Change
  <2> QED
    BY <2>1, <2>2 DEF IInv, LocalsOk, HandleOk, ReadStaysInside, locals
<1>2. CASE ResolveRoot
  BY <1>2, GivingUp
  DEF ResolveRoot, At, Continue, Return, errUnreadableSkill, IInv, ItemsOk, LocalsOk,
      HandleOk, ReadStaysInside, files
<1>3. CASE ResolveEntry
  <2>1. CASE root # Missing /\ entry[root] # Missing /\ entry[root].kind = "directory"
    <3>1. entry[root].dir \in Skill
      BY <2>1, EntryIsItem DEF IInv, ItemsOk
    <3> QED
      BY <1>3, <2>1, <3>1
      DEF ResolveEntry, At, Continue, IInv, ItemsOk, LocalsOk, HandleOk, ReadStaysInside, files
  <2>2. CASE ~(root # Missing /\ entry[root] # Missing /\ entry[root].kind = "directory")
    BY <1>3, <2>2, GivingUp DEF ResolveEntry, At, Return, errUnreadableSkill
  <2> QED
    BY <2>1, <2>2
<1>4. CASE ResolveDocument
  <2>1. CASE document[at] = Missing
    BY <1>4, <2>1, GivingUp DEF ResolveDocument, At, Return, errUnreadableSkill
  <2>2. CASE document[at] # Missing
    BY <1>4, <2>2
    DEF ResolveDocument, At, Continue, IInv, ItemsOk, LocalsOk, HandleOk, ReadStaysInside, files
  <2> QED
    BY <2>1, <2>2
<1>5. CASE CheckWithin
  <2>1. CASE pathWithinRoot(resolvedRoot, resolvedPath)
    BY <1>5, <2>1
    DEF CheckWithin, At, Continue, IInv, ItemsOk, LocalsOk, HandleOk, ReadStaysInside, files, locals
  <2>2. CASE ~pathWithinRoot(resolvedRoot, resolvedPath)
    BY <1>5, <2>2, GivingUp DEF CheckWithin, At, Return, errOutsideTrustedRoots
  <2> QED
    BY <2>1, <2>2
<1>6. CASE OpenRoot
  <2>1. CASE root = Missing
    BY <1>6, <2>1, GivingUp DEF OpenRoot, At, Return, errUnreadableSkill
  <2>2. CASE root # Missing
    BY <1>6, <2>2
    DEF OpenRoot, At, Continue, IInv, ItemsOk, LocalsOk, HandleOk, ReadStaysInside, files
  <2> QED
    BY <2>1, <2>2
<1>7. CASE ReadEntry
  <2> DEFINE item == entry[trustedRoot]
  <2>1. CASE item # Missing /\ item.kind = "directory" /\ Follows(item)
    <3>1. trustedRoot \in Root
      BY <1>7 DEF ReadEntry, At, IInv, HandleOk
    <3>2. item.dir \in Skill /\ item.dir \in Tree[trustedRoot]
      BY <2>1, <3>1, EntryIsItem DEF IInv, Follows
    <3> QED
      BY <1>7, <2>1, <3>1, <3>2
      DEF ReadEntry, At, Continue, IInv, ItemsOk, LocalsOk, HandleOk, ReadStaysInside, files
  <2>2. CASE ~(item # Missing /\ item.kind = "directory" /\ Follows(item))
    BY <1>7, <2>2, GivingUp
    DEF ReadEntry, At, Return, ReadError, errUnreadableSkill, errOutsideTrustedRoots
  <2> QED
    BY <2>1, <2>2
<1>8. CASE ReadDocument
  <2> DEFINE item == document[at]
  <2>1. CASE item # Missing /\ item.kind = "file" /\ Follows(item)
    <3>1. trustedRoot \in Root /\ at \in Tree[trustedRoot] /\ at \in Skill
      BY <1>8, TrustedAssumption DEF ReadDocument, At, IInv, HandleOk
    <3>2. item \in Item /\ item.dir \in Tree[trustedRoot]
      BY <2>1, <3>1, DocumentIsItem DEF IInv, Follows
    <3>3. answer' = item /\ pc' = "done" /\ UNCHANGED <<locals, files, past>>
      BY <1>8, <2>1 DEF ReadDocument, At, Return
    <3>4. \E fs \in past : fs[1] = trustedRoot
      BY <3>1, TrustedAssumption DEF IInv, HandleOk
    <3> QED
      BY <3>1, <3>2, <3>3, <3>4, TrustedAssumption
      DEF IInv, ItemsOk, LocalsOk, HandleOk, ReadStaysInside, files, locals
  <2>2. CASE ~(item # Missing /\ item.kind = "file" /\ Follows(item))
    BY <1>8, <2>2, GivingUp
    DEF ReadDocument, At, Return, ReadError, errUnreadableSkill, errOutsideTrustedRoots
  <2> QED
    BY <2>1, <2>2
<1>9. CASE UNCHANGED vars
  BY <1>9 DEF IInv, ItemsOk, LocalsOk, HandleOk, ReadStaysInside, vars, files, locals
<1> QED
  BY <1>1, <1>2, <1>3, <1>4, <1>5, <1>6, <1>7, <1>8, <1>9 DEF Next, readTrustedFile

\* The variables of a read keep their types, and it has an answer exactly when
\* it has returned.
THEOREM TypeCorrect == Spec => []TypeOK
<1>1. IInv => TypeOK
  BY DEF IInv, ItemsOk, LocalsOk, TypeOK
<1> QED
  BY <1>1, InitInvariant, StepInvariant, PTL DEF Spec

\* However the links are switched between the check of catalog.go:197 and the
\* read of catalog.go:205, what is read is a file inside a directory the
\* configured root stood for during the read.
THEOREM ReadsStayInside == Spec => []ReadStaysInside
<1>1. IInv => ReadStaysInside
  BY DEF IInv
<1> QED
  BY <1>1, InitInvariant, StepInvariant, PTL DEF Spec

-----------------------------------------------------------------------------
(* The reasons of a refusal: whatever the walk goes through was there at   *)
(* some moment of the read.                                                *)

OutsideCaused ==
  \/ \E r \in RootsSeen \ {Missing}, item \in EntriesSeen \cup DocumentsSeen :
       ForbiddenFrom(r, item)
  \/ \E item \in EntriesSeen \ {Missing} : item.kind # "directory"
  \/ \E item \in DocumentsSeen \ {Missing} : item.kind # "file"

UnreadableCaused ==
  \/ Missing \in RootsSeen \cup EntriesSeen \cup DocumentsSeen
  \/ \E item \in EntriesSeen \ {Missing} : item.kind # "directory"

\* The directory a walk has come to is that of an entry that was seen.
AtSeen == \E i \in EntriesSeen \ {Missing} : i.dir = at

WalkOk ==
  /\ pc \in {"resolveEntry", "resolveDocument", "check"} => resolvedRoot \in RootsSeen \ {Missing}
  /\ pc \in {"resolveDocument", "readDocument"} => AtSeen
  /\ pc = "check" => resolvedPath \in DocumentsSeen \ {Missing}
  /\ pc \in {"readEntry", "readDocument"} => trustedRoot \in RootsSeen \ {Missing}
  /\ answer = Outside => OutsideCaused
  /\ answer = Unreadable => UnreadableCaused

seen == <<RootsSeen, EntriesSeen, DocumentsSeen>>

\* What is there now has been seen.
LEMMA SeenNow ==
  ASSUME files \in past
  PROVE  /\ root \in RootsSeen
         /\ \A r \in RootsSeen \ {Missing} : entry[r] \in EntriesSeen
         /\ \A i \in EntriesSeen \ {Missing} : document[i.dir] \in DocumentsSeen
<1>1. files[1] = root /\ files[2] = entry /\ files[3] = document
  BY DEF files
<1> QED
  BY <1>1 DEF RootsSeen, EntriesSeen, DocumentsSeen

LEMMA SeenGrows ==
  ASSUME past \subseteq past'
  PROVE  /\ RootsSeen \subseteq RootsSeen'
         /\ EntriesSeen \subseteq EntriesSeen'
         /\ DocumentsSeen \subseteq DocumentsSeen'
<1>1. RootsSeen \subseteq RootsSeen'
  BY DEF RootsSeen
<1>2. EntriesSeen \subseteq EntriesSeen'
  BY <1>1 DEF EntriesSeen
<1>3. DocumentsSeen \subseteq DocumentsSeen'
  BY <1>2 DEF DocumentsSeen
<1> QED
  BY <1>1, <1>2, <1>3

LEMMA SeenStays == UNCHANGED past => UNCHANGED seen
BY DEF seen, RootsSeen, EntriesSeen, DocumentsSeen

LEMMA TwoErrors == Outside # Unreadable /\ Nothing \notin {Outside, Unreadable}
<1>1. Outside.error # Unreadable.error
  BY DEF Outside, Unreadable
<1> QED
  BY <1>1, TrustedAssumption

LEMMA SaysUnreadable ==
  ASSUME errUnreadableSkill, UNCHANGED past, UnreadableCaused
  PROVE  WalkOk'
<1>1. answer' = Unreadable /\ pc' = "done" /\ UnreadableCaused'
  BY SeenStays DEF errUnreadableSkill, Return, UnreadableCaused, seen
<1> QED
  BY <1>1, TwoErrors DEF WalkOk

LEMMA SaysOutside ==
  ASSUME errOutsideTrustedRoots, UNCHANGED past, OutsideCaused
  PROVE  WalkOk'
<1>1. answer' = Outside /\ pc' = "done" /\ OutsideCaused'
  BY SeenStays, Zenon DEF errOutsideTrustedRoots, Return, OutsideCaused, seen, ForbiddenFrom
<1> QED
  BY <1>1, TwoErrors DEF WalkOk

LEMMA WalkStep == IInv /\ WalkOk /\ [Next]_vars => WalkOk'
<1> SUFFICES ASSUME IInv, WalkOk, [Next]_vars PROVE WalkOk'
  OBVIOUS
<1>0. /\ root \in RootsSeen
      /\ \A r \in RootsSeen \ {Missing} : entry[r] \in EntriesSeen
      /\ \A i \in EntriesSeen \ {Missing} : document[i.dir] \in DocumentsSeen
  BY SeenNow DEF IInv, HandleOk
<1>1. CASE Change
  <2>1. past \subseteq past' /\ UNCHANGED <<pc, locals, answer>>
    BY <1>1 DEF Change
  <2>2. /\ RootsSeen \subseteq RootsSeen' /\ EntriesSeen \subseteq EntriesSeen'
        /\ DocumentsSeen \subseteq DocumentsSeen'
    BY <2>1, SeenGrows
  <2>3. (OutsideCaused => OutsideCaused') /\ (UnreadableCaused => UnreadableCaused')
    BY <2>2 DEF OutsideCaused, UnreadableCaused, ForbiddenFrom
  <2>4. AtSeen => AtSeen'
    BY <2>1, <2>2 DEF AtSeen, locals
  <2> QED
    BY <2>1, <2>2, <2>3, <2>4 DEF WalkOk, locals
<1>2. CASE ResolveRoot
  <2>1. CASE root = Missing
    BY <1>0, <1>2, <2>1, SaysUnreadable DEF ResolveRoot, At, UnreadableCaused
  <2>2. CASE root # Missing
    <3>1. /\ resolvedRoot' = root /\ pc' = "resolveEntry" /\ UNCHANGED <<answer, seen>>
          /\ answer = Nothing
      BY <1>2, <2>2, SeenStays DEF ResolveRoot, At, Continue, IInv, LocalsOk
    <3> QED
      BY <1>0, <2>2, <3>1, TwoErrors DEF WalkOk, seen
  <2> QED
    BY <2>1, <2>2
<1>3. CASE ResolveEntry
  <2>1. CASE root # Missing /\ entry[root] # Missing /\ entry[root].kind = "directory"
    <3>1. /\ at' = entry[root].dir /\ pc' = "resolveDocument"
          /\ UNCHANGED <<answer, resolvedRoot, seen>>
          /\ answer = Nothing /\ pc = "resolveEntry"
      BY <1>3, <2>1, SeenStays DEF ResolveEntry, At, Continue, IInv, LocalsOk
    <3>2. AtSeen'
      BY <1>0, <2>1, <3>1 DEF AtSeen, seen
    <3> QED
      BY <3>1, <3>2, TwoErrors DEF WalkOk, seen
  <2>2. CASE ~(root # Missing /\ entry[root] # Missing /\ entry[root].kind = "directory")
    <3>1. UnreadableCaused
      BY <1>0, <2>2 DEF UnreadableCaused
    <3> QED
      BY <1>3, <2>2, <3>1, SaysUnreadable DEF ResolveEntry, At
  <2> QED
    BY <2>1, <2>2
<1>4. CASE ResolveDocument
  <2>1. document[at] \in DocumentsSeen
    BY <1>0, <1>4 DEF ResolveDocument, At, WalkOk, AtSeen
  <2>2. CASE document[at] = Missing
    BY <1>4, <2>1, <2>2, SaysUnreadable DEF ResolveDocument, At, UnreadableCaused
  <2>3. CASE document[at] # Missing
    <3>1. /\ resolvedPath' = document[at] /\ pc' = "check"
          /\ UNCHANGED <<answer, resolvedRoot, seen>>
          /\ answer = Nothing /\ pc = "resolveDocument"
      BY <1>4, <2>3, SeenStays DEF ResolveDocument, At, Continue, IInv, LocalsOk
    <3> QED
      BY <2>1, <2>3, <3>1, TwoErrors DEF WalkOk, seen
  <2> QED
    BY <2>2, <2>3
<1>5. CASE CheckWithin
  <2>1. CASE pathWithinRoot(resolvedRoot, resolvedPath)
    <3>1. pc' = "openRoot" /\ UNCHANGED answer /\ answer = Nothing
      BY <1>5, <2>1 DEF CheckWithin, At, Continue, IInv, LocalsOk
    <3> QED
      BY <3>1, TwoErrors DEF WalkOk
  <2>2. CASE ~pathWithinRoot(resolvedRoot, resolvedPath)
    <3>1. resolvedRoot \in RootsSeen \ {Missing} /\ resolvedPath \in DocumentsSeen \ {Missing}
      BY <1>5 DEF CheckWithin, At, WalkOk
    <3>2. OutsideCaused
      BY <2>2, <3>1 DEF OutsideCaused, ForbiddenFrom, pathWithinRoot
    <3> QED
      BY <1>5, <2>2, <3>2, SaysOutside DEF CheckWithin, At
  <2> QED
    BY <2>1, <2>2
<1>6. CASE OpenRoot
  <2>1. CASE root = Missing
    BY <1>0, <1>6, <2>1, SaysUnreadable DEF OpenRoot, At, UnreadableCaused
  <2>2. CASE root # Missing
    <3>1. trustedRoot' = root /\ pc' = "readEntry" /\ UNCHANGED <<answer, seen>> /\ answer = Nothing
      BY <1>6, <2>2, SeenStays DEF OpenRoot, At, Continue, IInv, LocalsOk
    <3> QED
      BY <1>0, <2>2, <3>1, TwoErrors DEF WalkOk, seen
  <2> QED
    BY <2>1, <2>2
<1>7. CASE ReadEntry
  <2> DEFINE item == entry[trustedRoot]
  <2>1. /\ trustedRoot \in RootsSeen \ {Missing} /\ trustedRoot \in Root /\ item \in EntriesSeen
        /\ UNCHANGED past /\ answer = Nothing
    BY <1>0, <1>7 DEF ReadEntry, At, WalkOk, IInv, HandleOk, LocalsOk
  <2>2. CASE item # Missing /\ item.kind = "directory" /\ Follows(item)
    <3>1. /\ at' = item.dir /\ pc' = "readDocument" /\ UNCHANGED <<answer, trustedRoot, seen>>
      BY <1>7, <2>2, SeenStays DEF ReadEntry, At, Continue
    <3>2. AtSeen'
      BY <2>1, <2>2, <3>1 DEF AtSeen, seen
    <3> QED
      BY <2>1, <3>1, <3>2, TwoErrors DEF WalkOk, seen
  <2>3. CASE item = Missing
    <3>1. UnreadableCaused
      BY <2>1, <2>3 DEF UnreadableCaused
    <3> QED
      BY <1>7, <2>1, <2>3, <3>1, SaysUnreadable DEF ReadEntry, ReadError
  <2>4. CASE item # Missing /\ ~(item.kind = "directory" /\ Follows(item))
    <3>1. item \in Item
      BY <2>1, <2>4, EntryIsItem DEF IInv
    <3>2. item.kind = "directory" => ForbiddenFrom(trustedRoot, item)
      BY <2>4, <3>1 DEF Follows, ForbiddenFrom, Item
    <3>3. OutsideCaused
      BY <2>1, <2>4, <3>2 DEF OutsideCaused
    <3> QED
      BY <1>7, <2>1, <2>4, <3>3, SaysOutside DEF ReadEntry, ReadError
  <2> QED
    BY <2>2, <2>3, <2>4
<1>8. CASE ReadDocument
  <2> DEFINE item == document[at]
  <2>1. /\ trustedRoot \in RootsSeen \ {Missing} /\ item \in DocumentsSeen /\ at \in Skill
        /\ UNCHANGED past
    BY <1>0, <1>8, TrustedAssumption DEF ReadDocument, At, WalkOk, AtSeen, IInv, HandleOk
  <2>2. CASE item # Missing /\ item.kind = "file" /\ Follows(item)
    <3>1. answer' = item /\ pc' = "done" /\ item \in Item
      BY <1>8, <2>1, <2>2, DocumentIsItem DEF ReadDocument, Return, IInv
    <3> QED
      BY <3>1, TrustedAssumption DEF WalkOk
  <2>3. CASE item = Missing
    <3>1. UnreadableCaused
      BY <2>1, <2>3 DEF UnreadableCaused
    <3> QED
      BY <1>8, <2>1, <2>3, <3>1, SaysUnreadable DEF ReadDocument, ReadError
  <2>4. CASE item # Missing /\ ~(item.kind = "file" /\ Follows(item))
    <3>1. item \in Item
      BY <2>1, <2>4, DocumentIsItem DEF IInv
    <3>2. item.kind = "file" => ForbiddenFrom(trustedRoot, item)
      BY <2>4, <3>1 DEF Follows, ForbiddenFrom, Item
    <3>3. OutsideCaused
      BY <2>1, <2>4, <3>2 DEF OutsideCaused
    <3> QED
      BY <1>8, <2>1, <2>4, <3>3, SaysOutside DEF ReadDocument, ReadError
  <2> QED
    BY <2>2, <2>3, <2>4
<1>9. CASE UNCHANGED vars
  BY <1>9, SeenStays
  DEF WalkOk, AtSeen, OutsideCaused, UnreadableCaused, ForbiddenFrom, vars, locals, seen
<1> QED
  BY <1>1, <1>2, <1>3, <1>4, <1>5, <1>6, <1>7, <1>8, <1>9 DEF Next, readTrustedFile

\* However many things change during a read, a refusal has its reason among
\* what the names on the path stood for meanwhile: a good skill is not refused
\* because other files change, nor a missing one for leaving its root.
THEOREM RefusalsHaveCause == Spec => []RefusalHasCause
<1>1. Init => WalkOk
  BY TwoErrors DEF Init, WalkOk
<1>2. WalkOk => RefusalHasCause
  BY DEF WalkOk, RefusalHasCause, OutsideCaused, UnreadableCaused
<1> QED
  BY <1>1, <1>2, InitInvariant, StepInvariant, WalkStep, PTL DEF Spec
=============================================================================
