----------------------- MODULE CatalogSnapshot_proofs -----------------------
(***************************************************************************)
(* Proofs about CatalogSnapshot: type correctness, the atomicity of the    *)
(* snapshot file, the removal of temporary files, that an accepted         *)
(* snapshot is no staler than it was when it was written, provided         *)
(* modification times are never reused, that no discovered file is lost,   *)
(* that a start refreshes what nobody disturbed while it was built, and    *)
(* that it never goes back, so that the number of its steps is bounded.    *)
(***************************************************************************)
EXTENDS CatalogSnapshot, FiniteSetTheorems, TLAPS

\* The phases in which snap[p] is a snapshot, decoded or being built.
Holding == {"within", "walk", "stat", "rewalk", "restat", "encode"}

TypeInv ==
  /\ TypeOK
  /\ \A p \in Proc : pc[p] \in Holding => snap[p] \in catalogSnapshot
  /\ \A p \in Proc : pc[p] = "rename" => temp[p] \in catalogSnapshot

-----------------------------------------------------------------------------
\* The stat of a file that is there is one saveSnapshot can record.
LEMMA StatType ==
  ASSUME TypeOK, NEW f \in Path, disk[f] # Absent
  PROVE  StatOf(f) \in Stat
BY CatalogAssumption DEF TypeOK, StatOf, Stat, File

\* A file somebody has just written.
LEMMA NewFileType ==
  ASSUME NEW f \in Path, NEW c \in Content, NEW m \in Nat, NEW file \in NewFiles(f, c, m)
  PROVE  /\ file \in File /\ file # Absent
         /\ file.mtime = m
<1>1. PICK r \in BOOLEAN :
        file = [content |-> c, mtime |-> m, readable |-> r, switched |-> FALSE]
  <2>1. PICK r \in IF f \in Guarded THEN BOOLEAN ELSE {TRUE} :
          file = [content |-> c, mtime |-> m, readable |-> r, switched |-> FALSE]
    BY DEF NewFiles
  <2>2. r \in BOOLEAN
    BY <2>1
  <2> QED
    BY <2>1, <2>2
<1>2. file \in File
  BY <1>1 DEF File
<1>3. file # Absent
  BY <1>2, SnapshotAssumption
<1>4. file.mtime = m
  BY <1>1
<1> QED
  BY <1>2, <1>3, <1>4

\* Nothing has started and nothing is cached.
LEMMA InitType == Init => TypeInv
<1> SUFFICES ASSUME Init PROVE TypeInv
  OBVIOUS
<1>1. NoStats \in [Path -> Stat \cup {Absent}]
  BY DEF NoStats
<1>2. disk \in [Path -> File \cup {Absent}]
  <2>1. ASSUME NEW f \in Path PROVE disk[f] \in File \cup {Absent}
    <3>1. CASE disk[f] # Absent
      <4>1. PICK g \in Path, c \in Content : disk[f] \in NewFiles(g, c, 0)
        BY <3>1 DEF Init
      <4> QED
        BY <4>1, NewFileType
    <3> QED
      BY <3>1
  <2>2. disk = [f \in Path |-> disk[f]]
    BY DEF Init
  <2> QED
    BY <2>1, <2>2
<1> QED
  BY <1>1, <1>2, CatalogAssumption DEF Init, TypeInv, TypeOK, Phase, Holding

\* Every step keeps the variables in their types.
LEMMA NextType == TypeInv /\ [Next]_vars => TypeInv'
<1> SUFFICES ASSUME TypeInv, [Next]_vars PROVE TypeInv'
  OBVIOUS
<1> USE DEF TypeInv
<1>0. \A p \in Proc : Candidates(p) \subseteq Path
  BY DEF Candidates
<1>1. ASSUME NEW p \in Proc, Start(p) PROVE TypeInv'
  BY <1>1 DEF Start, Reached, TypeOK, Phase, Holding, files, cacheDir, index
<1>2. ASSUME NEW p \in Proc, Reject(p) PROVE TypeInv'
  BY <1>2, <1>0 DEF Reject, Reached, NoStats, TypeOK, Phase, Holding, files, cacheDir, index
<1>3. ASSUME NEW p \in Proc, OpenSnapshot(p) PROVE TypeInv'
  <2>1. snapshot \in catalogSnapshot
    BY <1>3 DEF OpenSnapshot, SnapshotUsable, TypeOK
  <2>2. {e.path : e \in snapshot.entries} \subseteq Path
    BY <2>1 DEF catalogSnapshot, Entry
  <2> QED
    BY <1>3, <2>1, <2>2
       DEF OpenSnapshot, Reached, TypeOK, Phase, Holding, files, cacheDir, index
<1>4. ASSUME NEW p \in Proc, SnapshotUnusable(p) PROVE TypeInv'
  BY <1>2, <1>4 DEF SnapshotUnusable
<1>5. ASSUME NEW p \in Proc, CheckEntryWithin(p) PROVE TypeInv'
  <2>1. CASE Reject(p)
    BY <1>2, <2>1
  <2>2. CASE ~Reject(p)
    BY <1>5, <2>2 DEF CheckEntryWithin, Visit, TypeOK, Phase, Holding, files, cacheDir, index
  <2> QED
    BY <2>1, <2>2
<1>6. ASSUME NEW p \in Proc, EntriesWithin(p) PROVE TypeInv'
  BY <1>6, <1>0 DEF EntriesWithin, Reached, TypeOK, Phase, Holding, files, cacheDir, index
<1>7. ASSUME NEW p \in Proc, WalkFile(p) PROVE TypeInv'
  <2>1. PICK f \in todo[p] :
          /\ Visit(p, f)
          /\ found' = [found EXCEPT ![p] = IF disk[f] = Absent THEN @ ELSE @ \cup {f}]
    BY <1>7 DEF WalkFile
  <2>2. f \in Path
    BY DEF TypeOK
  <2>3. found' \in [Proc -> SUBSET Path]
    BY <2>1, <2>2 DEF TypeOK
  <2> QED
    BY <1>7, <2>1, <2>3 DEF WalkFile, Visit, TypeOK, Phase, Holding, files, cacheDir, index
<1>26. ASSUME NEW p \in Proc, WalkFails(p) PROVE TypeInv'
  BY <1>2, <1>26 DEF WalkFails
<1>8. ASSUME NEW p \in Proc, CompareFiles(p) PROVE TypeInv'
  <2>1. CASE ~SameFiles(p)
    BY <1>2, <1>8, <2>1 DEF CompareFiles
  <2>2. CASE SameFiles(p)
    <3>1. /\ Reached(p, "stat", found[p])
          /\ UNCHANGED <<files, cacheDir, crashes, found, snap, index, seen, quiet>>
      BY <1>8, <2>2, Zenon DEF CompareFiles
    <3> QED
      BY <3>1, <1>8 DEF CompareFiles, Reached, TypeOK, Phase, Holding, files, cacheDir, index
  <2> QED
    BY <2>1, <2>2
<1>9. ASSUME NEW p \in Proc, CheckFile(p) PROVE TypeInv'
  <2>1. PICK f \in todo[p] :
          /\ ~Unmodified(p, f) => Reject(p)
          /\ Unmodified(p, f) =>
               /\ Visit(p, f)
               /\ seen' = [seen EXCEPT ![p][f] = StatOf(f)]
               /\ UNCHANGED <<files, cacheDir, crashes, pc, found, snap, index, quiet>>
    BY <1>9, Zenon DEF CheckFile
  <2>2. CASE ~Unmodified(p, f)
    BY <1>2, <2>1, <2>2
  <2>3. CASE Unmodified(p, f)
    <3>1. /\ Visit(p, f)
          /\ seen' = [seen EXCEPT ![p][f] = StatOf(f)]
          /\ UNCHANGED <<files, cacheDir, crashes, pc, found, snap, index, quiet>>
      BY <2>1, <2>3, Zenon
    <3>2. f \in Path
      BY DEF TypeOK
    <3>3. StatOf(f) \in Stat
      BY <2>3, <3>2, StatType DEF Unmodified
    <3>4. seen' \in [Proc -> [Path -> Stat \cup {Absent}]]
      BY <3>1, <3>2, <3>3 DEF TypeOK
    <3> QED
      BY <3>1, <3>4 DEF Visit, TypeOK, Phase, Holding, files, cacheDir, index
  <2> QED
    BY <2>2, <2>3
<1>10. ASSUME NEW p \in Proc, AcceptSnapshot(p) PROVE TypeInv'
  <2>1. snap[p] \in catalogSnapshot
    BY <1>10 DEF AcceptSnapshot, Holding
  <2>2. snap[p].entries \subseteq Entry /\ snap[p].errors \subseteq CatalogError
    BY <2>1 DEF catalogSnapshot
  <2> QED
    BY <1>10, <2>2
       DEF AcceptSnapshot, Reached, TypeOK, Phase, Holding, files, cacheDir
<1>27. ASSUME NEW p \in Proc, DiscoverFails(p) PROVE TypeInv'
  BY <1>27 DEF DiscoverFails, Reached, TypeOK, Phase, Holding, files, cacheDir
<1>11. ASSUME NEW p \in Proc, DiscoverDone(p) PROVE TypeInv'
  BY <1>11 DEF DiscoverDone, Reached, TypeOK, Phase, Holding, files, cacheDir, index
<1>12. ASSUME NEW p \in Proc, ParseFile(p) PROVE TypeInv'
  <2>1. PICK f \in todo[p] : ParseFile(p)!2!(f)
    BY <1>12 DEF ParseFile
  <2>2. f \in Path
    BY DEF TypeOK
  <2>3. CASE Opens(f) /\ disk[f].content \in Named
    <3>1. [path |-> f, content |-> disk[f].content] \in Entry
      BY <2>2, <2>3 DEF Opens, TypeOK, File, Entry
    <3> QED
      BY <1>12, <2>1, <2>3, <3>1
         DEF ParseFile, Visit, TypeOK, Phase, Holding, files, cacheDir
  <2>4. CASE ~(Opens(f) /\ disk[f].content \in Named)
    <3>1. ParseError(f) \in CatalogError
      BY <2>2 DEF ParseError, CatalogError
    <3> QED
      BY <1>12, <2>1, <2>4, <3>1
         DEF ParseFile, Visit, TypeOK, Phase, Holding, files, cacheDir
  <2> QED
    BY <2>3, <2>4
<1>13. ASSUME NEW p \in Proc, BeginSave(p) PROVE TypeInv'
  <2>1. [ roots |-> RootsOf[p], paths |-> {}, stats |-> NoStats,
          entries |-> entries[p], errors |-> errs[p] ] \in catalogSnapshot
    BY CatalogAssumption DEF TypeOK, catalogSnapshot, NoStats
  <2> QED
    BY <1>13, <1>0, <2>1 DEF BeginSave, Reached, TypeOK, Phase, Holding, files, cacheDir
<1>14. ASSUME NEW p \in Proc, RewalkFile(p) PROVE TypeInv'
  <2>1. PICK f \in todo[p] : RewalkFile(p)!2!(f)
    BY <1>14 DEF RewalkFile
  <2>2. snap[p] \in catalogSnapshot /\ f \in Path
    BY <1>14 DEF RewalkFile, Holding, TypeOK
  <2>3. [snap[p] EXCEPT !.paths = IF disk[f] = Absent THEN @ ELSE @ \cup {f}] \in catalogSnapshot
    BY <2>2 DEF catalogSnapshot
  <2> QED
    BY <1>14, <2>1, <2>3
       DEF RewalkFile, Visit, TypeOK, Phase, Holding, files, cacheDir, index
<1>15. ASSUME NEW p \in Proc, RewalkDone(p) PROVE TypeInv'
  <2>1. snap[p] \in catalogSnapshot
    BY <1>15 DEF RewalkDone, Holding
  <2>2. snap[p].paths \subseteq Path
    BY <2>1 DEF catalogSnapshot
  <2> QED
    BY <1>15, <2>1, <2>2
       DEF RewalkDone, Reached, TypeOK, Phase, Holding, files, cacheDir, index
<1>16. ASSUME NEW p \in Proc, RestatFile(p) PROVE TypeInv'
  <2>1. PICK f \in todo[p] : RestatFile(p)!2!(f)
    BY <1>16 DEF RestatFile
  <2>2. snap[p] \in catalogSnapshot /\ f \in Path
    BY <1>16 DEF RestatFile, Holding, TypeOK
  <2>3. ASSUME disk[f] # Absent
        PROVE  [snap[p] EXCEPT !.stats[f] = StatOf(f)] \in catalogSnapshot
    BY <2>2, <2>3, StatType DEF catalogSnapshot
  <2> QED
    BY <1>16, <2>1, <2>2, <2>3
       DEF RestatFile, Visit, TypeOK, Phase, Holding, files, cacheDir, index
<1>17. ASSUME NEW p \in Proc, CreateTemp(p) PROVE TypeInv'
  BY <1>17 DEF CreateTemp, Reached, TypeOK, Phase, Holding, files, index
<1>18. ASSUME NEW p \in Proc, EncodeTemp(p) PROVE TypeInv'
  BY <1>18 DEF EncodeTemp, Reached, TypeOK, Phase, Holding, files, index
<1>19. ASSUME NEW p \in Proc, RenameTemp(p) PROVE TypeInv'
  BY <1>19 DEF RenameTemp, Saved, Reached, TypeOK, Phase, Holding, files, index
<1>20. ASSUME NEW p \in Proc, SaveFails(p) PROVE TypeInv'
  BY <1>20 DEF SaveFails, Saved, Reached, TypeOK, Phase, Holding, files, index
<1>21. ASSUME NEW p \in Proc, Exit(p) PROVE TypeInv'
  BY <1>21
     DEF Exit, Forget, Reached, NoStats, TypeOK, Phase, Holding, files, cacheDir
<1>22. ASSUME NEW p \in Proc, Crash(p) PROVE TypeInv'
  BY <1>22, CatalogAssumption
     DEF Crash, Forget, Reached, NoStats, TypeOK, Phase, Holding, files
<1>23. ASSUME NEW f \in Path, WriteFile(f) PROVE TypeInv'
  <2>1. PICK c, m, file :
          /\ c \in Content /\ m \in {clock, clock + 1} /\ file \in NewFiles(f, c, m)
          /\ m <= MaxClock
          /\ clock' = m
          /\ disk' = [disk EXCEPT ![f] = file]
    BY <1>23 DEF WriteFile
  <2>2. m \in 0 .. MaxClock
    BY <2>1, CatalogAssumption DEF TypeOK
  <2>3. disk' \in [Path -> File \cup {Absent}]
    <3>1. m \in Nat
      BY <2>2, CatalogAssumption
    <3>2. file \in File
      BY <2>1, <3>1, NewFileType
    <3> QED
      BY <2>1, <3>2 DEF TypeOK
  <2>4. quiet' \in [Proc -> BOOLEAN]
    BY <1>23 DEF WriteFile, Touched
  <2> QED
    BY <1>23, <2>1, <2>2, <2>3, <2>4
       DEF WriteFile, TypeOK, Phase, Holding, cacheDir, index
<1>24. ASSUME NEW f \in Path, DeleteFile(f) PROVE TypeInv'
  <2>1. disk' \in [Path -> File \cup {Absent}]
    BY <1>24 DEF DeleteFile, TypeOK
  <2>2. quiet' \in [Proc -> BOOLEAN]
    BY <1>24 DEF DeleteFile, Touched
  <2> QED
    BY <1>24, <2>1, <2>2 DEF DeleteFile, TypeOK, Phase, Holding, cacheDir, index
<1>28. ASSUME NEW f \in Path, ChangeMode(f) PROVE TypeInv'
  <2>1. disk[f] \in File
    BY <1>28 DEF ChangeMode, TypeOK
  <2>2. [disk[f] EXCEPT !.readable = ~@, !.switched = TRUE] \in File
    BY <2>1 DEF File
  <2>3. disk' \in [Path -> File \cup {Absent}]
    BY <1>28, <2>2 DEF ChangeMode, TypeOK
  <2>4. quiet' \in [Proc -> BOOLEAN]
    BY <1>28 DEF ChangeMode, Touched
  <2> QED
    BY <1>28, <2>3, <2>4 DEF ChangeMode, TypeOK, Phase, Holding, cacheDir, index
<1>25. CASE UNCHANGED vars
  BY <1>25 DEF vars, TypeOK, Phase, Holding, files, cacheDir, index
<1> QED
  BY <1>1, <1>3, <1>4, <1>5, <1>6, <1>7, <1>8, <1>9, <1>10, <1>11, <1>12, <1>13, <1>14,
     <1>15, <1>16, <1>17, <1>18, <1>19, <1>20, <1>21, <1>22, <1>23, <1>24, <1>25,
     <1>26, <1>27, <1>28
     DEF Next, tryLoadIndex, loadSnapshot, BuildIndex, saveSnapshot

\* The variables of the catalog start stay in their types, crashes included.
THEOREM CatalogTypes == Spec => []TypeOK
<1>1. TypeInv => TypeOK
  BY DEF TypeInv
<1> QED
  BY <1>1, InitType, NextType, PTL DEF Spec

-----------------------------------------------------------------------------
(* The snapshot file is replaced atomically and temporary files go away. *)

TempInv ==
  /\ snapshot # Partial
  /\ litter <= crashes
  /\ \A p \in Proc : pc[p] \notin {"encode", "rename"} => temp[p] = Absent

\* There is no temporary file before the first process starts.
LEMMA InitTemp == Init => TempInv
BY SnapshotAssumption DEF Init, TempInv

\* Only CreateTemp makes a temporary file, and only a complete one is renamed.
LEMMA NextTemp == TypeInv /\ TempInv /\ [Next]_vars => TempInv'
<1> SUFFICES ASSUME TypeInv, TempInv, [Next]_vars PROVE TempInv'
  OBVIOUS
<1> USE DEF TempInv
<1>0. ASSUME NEW p \in Proc, Reject(p), pc[p] \notin {"encode", "rename"} PROVE TempInv'
  BY <1>0 DEF Reject, Reached, TypeInv, TypeOK, cacheDir
<1>1. ASSUME NEW p \in Proc, Start(p) PROVE TempInv'
  BY <1>1 DEF Start, Reached, TypeInv, TypeOK, cacheDir
<1>2. ASSUME NEW p \in Proc, loadSnapshot(p) PROVE TempInv'
  <2>1. CASE OpenSnapshot(p)
    BY <2>1 DEF OpenSnapshot, Reached, TypeInv, TypeOK, cacheDir
  <2>2. CASE SnapshotUnusable(p)
    BY <1>0, <2>2 DEF SnapshotUnusable
  <2>3. CASE CheckEntryWithin(p)
    BY <2>3 DEF CheckEntryWithin, Visit, Reject, Reached, TypeInv, TypeOK, cacheDir
  <2>4. CASE EntriesWithin(p)
    BY <2>4 DEF EntriesWithin, Reached, TypeInv, TypeOK, cacheDir
  <2>8. CASE WalkFails(p)
    BY <1>0, <2>8 DEF WalkFails
  <2>5. CASE CompareFiles(p)
    BY <2>5 DEF CompareFiles, Reject, Reached, TypeInv, TypeOK, cacheDir
  <2>6. CASE CheckFile(p)
    BY <2>6 DEF CheckFile, Visit, Reject, Reached, TypeInv, TypeOK, cacheDir
  <2>7. CASE AcceptSnapshot(p)
    BY <2>7 DEF AcceptSnapshot, Reached, TypeInv, TypeOK, cacheDir
  <2> QED
    BY <1>2, <2>1, <2>2, <2>3, <2>4, <2>5, <2>6, <2>7, <2>8 DEF loadSnapshot
<1>3. ASSUME NEW p \in Proc, WalkFile(p) \/ BuildIndex(p) PROVE TempInv'
  BY <1>3
     DEF WalkFile, BuildIndex, DiscoverFails, DiscoverDone, ParseFile, BeginSave, Visit,
         Reached, TypeInv, TypeOK, cacheDir
<1>4. ASSUME NEW p \in Proc,
             RewalkFile(p) \/ RewalkDone(p) \/ RestatFile(p) \/ CreateTemp(p) \/ EncodeTemp(p)
      PROVE TempInv'
  BY <1>4
     DEF RewalkFile, RewalkDone, RestatFile, CreateTemp, EncodeTemp, Visit, Reached,
         TypeInv, TypeOK, cacheDir
<1>5. ASSUME NEW p \in Proc, RenameTemp(p) \/ SaveFails(p) PROVE TempInv'
  BY <1>5, SnapshotAssumption
     DEF RenameTemp, SaveFails, Saved, Reached, TypeInv, TypeOK
<1>6. ASSUME NEW p \in Proc, Exit(p) PROVE TempInv'
  BY <1>6 DEF Exit, Forget, Reached, TypeInv, TypeOK, cacheDir
<1>7. ASSUME NEW p \in Proc, Crash(p) PROVE TempInv'
  BY <1>7, CatalogAssumption DEF Crash, Forget, Reached, TypeInv, TypeOK
<1>8. ASSUME NEW f \in Path, WriteFile(f) \/ DeleteFile(f) \/ ChangeMode(f) PROVE TempInv'
  BY <1>8 DEF WriteFile, DeleteFile, ChangeMode, cacheDir
<1>9. CASE UNCHANGED vars
  BY <1>9 DEF vars, cacheDir
<1> QED
  BY <1>1, <1>2, <1>3, <1>4, <1>5, <1>6, <1>7, <1>8, <1>9
     DEF Next, tryLoadIndex, saveSnapshot

\* A process killed while it writes the snapshot never leaves a torn one for
\* the next start: catalog.gob is always complete.
THEOREM SnapshotAlwaysComplete == Spec => []SnapshotComplete
<1>1. TempInv => SnapshotComplete
  BY DEF TempInv, SnapshotComplete
<1> QED
  BY <1>1, InitType, NextType, InitTemp, NextTemp, PTL DEF Spec

\* saveSnapshot leaves no temporary file behind unless it is killed.
THEOREM TempsAlwaysRemoved == Spec => []TempsRemoved
<1>1. TempInv => TempsRemoved
  BY DEF TempInv, TempsRemoved
<1> QED
  BY <1>1, InitType, NextType, InitTemp, NextTemp, PTL DEF Spec

-----------------------------------------------------------------------------
(* An accepted snapshot is no staler than it was when it was written. *)

\* The stats of a snapshot are of times gone by, and when modification times
\* are never reused, a file that still has the time of its stat still has the
\* content it had then.
Vouches(stats, d, now) ==
  \A f \in Path : stats[f] # Absent =>
    /\ stats[f].mtime <= now
    /\ FreshMtimes /\ d[f] # Absent /\ d[f].mtime = stats[f].mtime =>
         d[f].content = stats[f].content

StatsInv ==
  /\ \A f \in Path : disk[f] # Absent => disk[f].mtime <= clock
  /\ snapshot \in catalogSnapshot => Vouches(snapshot.stats, disk, clock)
  /\ \A p \in Proc : temp[p] \in catalogSnapshot => Vouches(temp[p].stats, disk, clock)
  /\ \A p \in Proc : snap[p] \in catalogSnapshot => Vouches(snap[p].stats, disk, clock)

\* Nothing is statted at the start.
LEMMA InitStats == Init => StatsInv
<1> SUFFICES ASSUME Init PROVE StatsInv
  OBVIOUS
<1>1. ASSUME NEW f \in Path, disk[f] # Absent PROVE disk[f].mtime <= clock
  <2>1. disk[f] \in UNION {NewFiles(g, c, 0) : g \in Path, c \in Content}
    BY <1>1 DEF Init
  <2>2. PICK g \in Path, c \in Content : disk[f] \in NewFiles(g, c, 0)
    BY <2>1
  <2>3. disk[f].mtime = 0
    BY <2>2, NewFileType
  <2> QED
    BY <2>3 DEF Init
<1> QED
  BY <1>1, SnapshotAssumption DEF Init, StatsInv

\* What a change of permissions does to the files.
LEMMA ModeChanged ==
  ASSUME TypeOK, NEW f \in Path, ChangeMode(f), NEW g \in Path
  PROVE  /\ disk'[g] = Absent <=> disk[g] = Absent
         /\ disk'[g].content = disk[g].content /\ disk'[g].mtime = disk[g].mtime
         /\ g = f => disk'[g].switched
         /\ g # f => disk'[g] = disk[g]
<1>1. CASE g = f
  <2>1. disk[f] \in File /\ disk[f] # Absent
    BY DEF ChangeMode, TypeOK
  <2>2. disk'[f] = [disk[f] EXCEPT !.readable = ~@, !.switched = TRUE]
    BY DEF ChangeMode, TypeOK
  <2>3. disk'[f] \in File /\ disk'[f].switched
    BY <2>1, <2>2 DEF File
  <2>4. disk'[f].content = disk[f].content /\ disk'[f].mtime = disk[f].mtime
    BY <2>1, <2>2 DEF File
  <2> QED
    BY <1>1, <2>1, <2>3, <2>4, SnapshotAssumption
<1>2. CASE g # f
  BY <1>2 DEF ChangeMode, TypeOK
<1> QED
  BY <1>1, <1>2

\* A write under a new modification time breaks no voucher, nor does a change
\* of permissions, which leaves content and time alone.
LEMMA VouchesWrite ==
  ASSUME TypeOK, NEW f \in Path, WriteFile(f) \/ DeleteFile(f) \/ ChangeMode(f),
         NEW s \in catalogSnapshot, Vouches(s.stats, disk, clock)
  PROVE  Vouches(s.stats, disk', clock')
<1>1. \A g \in Path : s.stats[g] # Absent => s.stats[g] \in Stat
  BY DEF catalogSnapshot
<1>2. CASE DeleteFile(f)
  BY <1>1, <1>2 DEF DeleteFile, Vouches, TypeOK
<1>4. CASE ChangeMode(f)
  <2>2. \A g \in Path : /\ disk'[g] # Absent => disk[g] # Absent
                        /\ disk'[g].content = disk[g].content
                        /\ disk'[g].mtime = disk[g].mtime
    BY <1>4, ModeChanged
  <2> QED
    BY <1>1, <1>4, <2>2 DEF ChangeMode, Vouches
<1>3. CASE WriteFile(f)
  <2>1. PICK c, m, file :
          /\ c \in Content /\ m \in {clock, clock + 1} /\ file \in NewFiles(f, c, m)
          /\ FreshMtimes => m = clock + 1
          /\ clock' = m
          /\ disk' = [disk EXCEPT ![f] = file]
    BY <1>3 DEF WriteFile
  <2>2. clock \in Nat /\ file.mtime = m
    <3>1. clock \in Nat /\ m \in Nat
      BY <2>1, CatalogAssumption DEF TypeOK
    <3> QED
      BY <2>1, <3>1, NewFileType
  <2>3. SUFFICES ASSUME NEW g \in Path, s.stats[g] # Absent
                 PROVE  /\ s.stats[g].mtime <= clock'
                        /\ FreshMtimes /\ disk'[g] # Absent
                             /\ disk'[g].mtime = s.stats[g].mtime =>
                             disk'[g].content = s.stats[g].content
    BY DEF Vouches
  <2>4. s.stats[g].mtime \in Nat /\ s.stats[g].mtime <= clock
    BY <1>1, <2>3 DEF Stat, Vouches
  <2>5. s.stats[g].mtime <= clock'
    BY <2>1, <2>2, <2>4
  <2>6. CASE g = f
    BY <2>1, <2>2, <2>4, <2>5, <2>6 DEF TypeOK
  <2>7. CASE g # f
    BY <2>1, <2>3, <2>5, <2>7 DEF TypeOK, Vouches
  <2> QED
    BY <2>6, <2>7
<1> QED
  BY <1>2, <1>3, <1>4

\* Only stats of files as they are enter a snapshot.
LEMMA NextStats == TypeInv /\ StatsInv /\ [Next]_vars => StatsInv'
<1> SUFFICES ASSUME TypeInv, StatsInv, [Next]_vars PROVE StatsInv'
  OBVIOUS
<1> USE DEF StatsInv
<1>1. ASSUME NEW p \in Proc, Start(p) PROVE StatsInv'
  BY <1>1 DEF Start, files, cacheDir
<1>2. ASSUME NEW p \in Proc, loadSnapshot(p) PROVE StatsInv'
  <2>0. ASSUME Reject(p) PROVE StatsInv'
    BY <2>0, SnapshotAssumption DEF Reject, TypeInv, TypeOK, files, cacheDir
  <2>1. CASE OpenSnapshot(p)
    BY <2>1 DEF OpenSnapshot, TypeInv, TypeOK, files, cacheDir
  <2>2. CASE SnapshotUnusable(p)
    BY <2>0, <2>2 DEF SnapshotUnusable
  <2>3. CASE CheckEntryWithin(p)
    <3>1. Reject(p) \/ UNCHANGED <<files, cacheDir, snap>>
      BY <2>3, Zenon DEF CheckEntryWithin
    <3> QED
      BY <2>0, <3>1 DEF files, cacheDir
  <2>4. CASE EntriesWithin(p)
    BY <2>4 DEF EntriesWithin, files, cacheDir
  <2>8. CASE WalkFails(p)
    BY <2>0, <2>8 DEF WalkFails
  <2>5. CASE CompareFiles(p)
    <3>1. Reject(p) \/ UNCHANGED <<files, cacheDir, snap>>
      BY <2>5, Zenon DEF CompareFiles
    <3> QED
      BY <2>0, <3>1 DEF files, cacheDir
  <2>6. CASE CheckFile(p)
    <3>1. Reject(p) \/ UNCHANGED <<files, cacheDir, snap>>
      BY <2>6, Zenon DEF CheckFile
    <3> QED
      BY <2>0, <3>1 DEF files, cacheDir
  <2>7. CASE AcceptSnapshot(p)
    BY <2>7 DEF AcceptSnapshot, files, cacheDir
  <2> QED
    BY <1>2, <2>1, <2>2, <2>3, <2>4, <2>5, <2>6, <2>7, <2>8 DEF loadSnapshot
<1>3. ASSUME NEW p \in Proc,
             WalkFile(p) \/ DiscoverFails(p) \/ DiscoverDone(p) \/ ParseFile(p) \/ RewalkDone(p)
      PROVE StatsInv'
  BY <1>3 DEF WalkFile, DiscoverFails, DiscoverDone, ParseFile, RewalkDone, files, cacheDir
<1>4. ASSUME NEW p \in Proc, BeginSave(p) PROVE StatsInv'
  <2>1. Vouches(NoStats, disk, clock)
    BY DEF Vouches, NoStats
  <2> QED
    BY <1>4, <2>1 DEF BeginSave, TypeInv, TypeOK, files, cacheDir
<1>5. ASSUME NEW p \in Proc, RewalkFile(p) PROVE StatsInv'
  <2>1. snap[p] \in catalogSnapshot
    BY <1>5 DEF RewalkFile, Holding, TypeInv
  <2>2. PICK f \in todo[p] :
          snap' = [snap EXCEPT ![p].paths = IF disk[f] = Absent THEN @ ELSE @ \cup {f}]
    BY <1>5 DEF RewalkFile
  <2>3. snap'[p].stats = snap[p].stats
    BY <2>1, <2>2 DEF catalogSnapshot, TypeInv, TypeOK
  <2>4. \A q \in Proc : q # p => snap'[q] = snap[q]
    BY <2>2 DEF TypeInv, TypeOK
  <2> QED
    BY <1>5, <2>1, <2>3, <2>4 DEF RewalkFile, files, cacheDir
<1>6. ASSUME NEW p \in Proc, RestatFile(p) PROVE StatsInv'
  <2>1. snap[p] \in catalogSnapshot
    BY <1>6 DEF RestatFile, Holding, TypeInv
  <2>2. PICK f \in todo[p] :
          snap' = IF disk[f] = Absent THEN snap ELSE [snap EXCEPT ![p].stats[f] = StatOf(f)]
    BY <1>6 DEF RestatFile
  <2>3. CASE disk[f] = Absent
    BY <1>6, <2>2, <2>3 DEF RestatFile, files, cacheDir
  <2>4. CASE disk[f] # Absent
    <3>1. f \in Path
      BY DEF TypeInv, TypeOK
    <3>2. snap'[p].stats = [snap[p].stats EXCEPT ![f] = StatOf(f)]
      BY <2>1, <2>2, <2>4 DEF catalogSnapshot, TypeInv, TypeOK
    <3>3. \A q \in Proc : q # p => snap'[q] = snap[q]
      BY <2>2, <2>4 DEF TypeInv, TypeOK
    <3>4. Vouches(snap[p].stats, disk, clock)
      BY <2>1
    <3>5. snap[p].stats \in [Path -> Stat \cup {Absent}]
      BY <2>1 DEF catalogSnapshot
    <3>6. Vouches(snap'[p].stats, disk, clock)
      BY <2>4, <3>1, <3>2, <3>4, <3>5 DEF Vouches, StatOf
    <3> QED
      BY <1>6, <3>3, <3>6 DEF RestatFile, files, cacheDir
  <2> QED
    BY <2>3, <2>4
<1>7. ASSUME NEW p \in Proc, CreateTemp(p) PROVE StatsInv'
  <2>1. Partial \notin catalogSnapshot
    BY SnapshotAssumption
  <2>2. UNCHANGED <<disk, clock, snapshot, snap>>
    BY <1>7 DEF CreateTemp, files
  <2>3. \A q \in Proc : temp'[q] = IF q = p THEN Partial ELSE temp[q]
    BY <1>7 DEF CreateTemp, TypeInv, TypeOK
  <2> QED
    BY <2>1, <2>2, <2>3
<1>8. ASSUME NEW p \in Proc, EncodeTemp(p) PROVE StatsInv'
  <2>1. UNCHANGED <<disk, clock, snapshot, snap>>
    BY <1>8 DEF EncodeTemp, files
  <2>2. \A q \in Proc : temp'[q] = IF q = p THEN snap[p] ELSE temp[q]
    BY <1>8 DEF EncodeTemp, TypeInv, TypeOK
  <2> QED
    BY <2>1, <2>2
<1>9. ASSUME NEW p \in Proc, RenameTemp(p) \/ SaveFails(p) PROVE StatsInv'
  <2>1. NoSnapshot \notin catalogSnapshot /\ Absent \notin catalogSnapshot
    BY SnapshotAssumption
  <2>2. UNCHANGED <<disk, clock>>
    BY <1>9 DEF RenameTemp, SaveFails, files
  <2>3. \A q \in Proc : temp'[q] = IF q = p THEN Absent ELSE temp[q]
    BY <1>9 DEF RenameTemp, SaveFails, Saved, TypeInv, TypeOK
  <2>4. \A q \in Proc : snap'[q] = IF q = p THEN NoSnapshot ELSE snap[q]
    BY <1>9 DEF RenameTemp, SaveFails, Saved, TypeInv, TypeOK
  <2>5. snapshot' = snapshot \/ snapshot' = temp[p]
    BY <1>9 DEF RenameTemp, SaveFails
  <2> QED
    BY <2>1, <2>2, <2>3, <2>4, <2>5
<1>10. ASSUME NEW p \in Proc, Exit(p) \/ Crash(p) PROVE StatsInv'
  <2>1. NoSnapshot \notin catalogSnapshot /\ Absent \notin catalogSnapshot
    BY SnapshotAssumption
  <2>2. UNCHANGED <<disk, clock, snapshot>>
    BY <1>10 DEF Exit, Crash, files, cacheDir
  <2>3. \A q \in Proc : temp'[q] = temp[q] \/ temp'[q] = Absent
    BY <1>10 DEF Exit, Crash, cacheDir, TypeInv, TypeOK
  <2>4. \A q \in Proc : snap'[q] = IF q = p THEN NoSnapshot ELSE snap[q]
    BY <1>10 DEF Exit, Crash, Forget, TypeInv, TypeOK
  <2> QED
    BY <2>1, <2>2, <2>3, <2>4
<1>11. ASSUME NEW f \in Path, WriteFile(f) \/ DeleteFile(f) \/ ChangeMode(f) PROVE StatsInv'
  <2>1. \A s \in catalogSnapshot :
          Vouches(s.stats, disk, clock) => Vouches(s.stats, disk', clock')
    BY <1>11, VouchesWrite DEF TypeInv
  <2>2. \A g \in Path : disk'[g] # Absent => disk'[g].mtime <= clock'
    <3>1. clock \in Nat /\ \A g \in Path : disk[g] # Absent => disk[g].mtime \in Nat
      BY CatalogAssumption DEF TypeInv, TypeOK, File
    <3>2. CASE WriteFile(f)
      <4>1. PICK c, m, file :
              /\ c \in Content /\ m \in {clock, clock + 1} /\ file \in NewFiles(f, c, m)
              /\ clock' = m
              /\ disk' = [disk EXCEPT ![f] = file]
        BY <3>2 DEF WriteFile
      <4>2. m \in Nat
        BY <3>1, <4>1
      <4>3. file.mtime = m
        BY <4>1, <4>2, NewFileType
      <4> QED
        BY <3>1, <4>1, <4>3 DEF TypeInv, TypeOK
    <3>3. CASE DeleteFile(f)
      BY <3>3 DEF DeleteFile, TypeInv, TypeOK
    <3>4. CASE ChangeMode(f)
      <4>1. disk[f] # Absent /\ disk[f] \in File
        BY <3>4 DEF ChangeMode, TypeInv, TypeOK
      <4>2. disk'[f].mtime = disk[f].mtime /\ clock' = clock
        BY <3>4, <4>1 DEF ChangeMode, TypeInv, TypeOK, File
      <4>3. \A g \in Path : g # f => disk'[g] = disk[g]
        BY <3>4 DEF ChangeMode, TypeInv, TypeOK
      <4> QED
        BY <4>1, <4>2, <4>3
    <3> QED
      BY <1>11, <3>2, <3>3, <3>4
  <2> QED
    BY <1>11, <2>1, <2>2 DEF WriteFile, DeleteFile, ChangeMode, cacheDir
<1>12. CASE UNCHANGED vars
  BY <1>12 DEF vars, files, cacheDir
<1> QED
  BY <1>1, <1>2, <1>3, <1>4, <1>5, <1>6, <1>7, <1>8, <1>9, <1>10, <1>11, <1>12
     DEF Next, tryLoadIndex, BuildIndex, saveSnapshot

\* What the validation has checked so far, it saw with the vouched content.
Checked(p) ==
  \A f \in found[p] \ todo[p] : seen[p][f].content = snap[p].stats[f].content

CheckInv == \A p \in Proc :
  /\ pc[p] = "stat" => Checked(p)
  /\ origin[p] = "snapshot" => pc[p] = "done" /\ todo[p] = {} /\ Checked(p)

\* No process has accepted anything at the start.
LEMMA InitCheck == Init => CheckInv
BY DEF Init, CheckInv

\* A file passes the validation only when its voucher still holds.
LEMMA NextCheck ==
  ASSUME FreshMtimes, TypeInv, StatsInv, CheckInv, [Next]_vars
  PROVE  CheckInv'
<1> USE DEF CheckInv
<1>1. ASSUME NEW p \in Proc, CheckFile(p) PROVE CheckInv'
  <2>1. PICK f \in todo[p] :
          \/ /\ Unmodified(p, f)
             /\ Visit(p, f)
             /\ seen' = [seen EXCEPT ![p][f] = StatOf(f)]
             /\ UNCHANGED <<pc, found, snap, origin>>
          \/ Reject(p)
    BY <1>1, Zenon DEF CheckFile, index
  <2>2. CASE Reject(p)
    <3>1. pc[p] = "stat" /\ origin[p] # "snapshot"
      BY <1>1 DEF CheckFile
    <3> QED
      BY <2>2, <3>1 DEF Reject, Reached, index, Checked, TypeInv, TypeOK
  <2>3. CASE /\ Unmodified(p, f)
             /\ Visit(p, f)
             /\ seen' = [seen EXCEPT ![p][f] = StatOf(f)]
             /\ UNCHANGED <<pc, found, snap, origin>>
    <3>1. pc[p] = "stat" /\ origin[p] # "snapshot" /\ f \in Path
      BY <1>1 DEF CheckFile, TypeInv, TypeOK
    <3>2. snap[p] \in catalogSnapshot
      BY <3>1 DEF TypeInv, Holding
    <3>3. disk[f].content = snap[p].stats[f].content
      BY <2>3, <3>1, <3>2 DEF Unmodified, StatsInv, Vouches, StatOf
    <3>4. \A q \in Proc, g \in Path : q # p \/ g # f => seen'[q][g] = seen[q][g]
      BY <2>3 DEF TypeInv, TypeOK
    <3>5. seen'[p][f].content = snap[p].stats[f].content
      BY <2>3, <3>1, <3>3 DEF TypeInv, TypeOK, StatOf
    <3>6. \A q \in Proc : todo'[q] = IF q = p THEN todo[p] \ {f} ELSE todo[q]
      BY <2>3 DEF Visit, TypeInv, TypeOK
    <3> QED
      BY <2>3, <3>1, <3>4, <3>5, <3>6 DEF Checked, TypeInv, TypeOK
  <2> QED
    BY <2>1, <2>2, <2>3
<1>2. ASSUME NEW p \in Proc, AcceptSnapshot(p) PROVE CheckInv'
  BY <1>2 DEF AcceptSnapshot, Reached, Checked, TypeInv, TypeOK
<1>4. ASSUME NEW p \in Proc,
             pc'[p] # "stat", origin'[p] # "snapshot",
             \A q \in Proc : q # p =>
               /\ pc'[q] = pc[q] /\ todo'[q] = todo[q] /\ found'[q] = found[q]
               /\ snap'[q] = snap[q] /\ origin'[q] = origin[q] /\ seen'[q] = seen[q]
      PROVE  CheckInv'
  BY <1>4 DEF Checked
<1>5. ASSUME NEW p \in Proc, Reject(p), pc[p] # "done" PROVE CheckInv'
  BY <1>4, <1>5 DEF Reject, Reached, index, TypeInv, TypeOK
<1>6. ASSUME NEW p \in Proc, CompareFiles(p) PROVE CheckInv'
  <2>1. pc[p] = "walk" /\ todo[p] = {}
    BY <1>6 DEF CompareFiles
  <2>2. Reject(p) \/ (Reached(p, "stat", found[p]) /\ UNCHANGED <<found, snap, index, seen>>)
    BY <1>6, Zenon DEF CompareFiles
  <2>3. CASE Reached(p, "stat", found[p]) /\ UNCHANGED <<found, snap, index, seen>>
    BY <2>1, <2>3 DEF Reached, index, Checked, TypeInv, TypeOK
  <2> QED
    BY <1>5, <2>1, <2>2, <2>3
<1>7. ASSUME NEW p \in Proc, CheckEntryWithin(p) PROVE CheckInv'
  <2>1. pc[p] = "within"
    BY <1>7 DEF CheckEntryWithin
  <2>2. Reject(p) \/ \E f : Visit(p, f) /\ UNCHANGED <<pc, found, snap, index, seen>>
    BY <1>7, Zenon DEF CheckEntryWithin
  <2>3. CASE \E f : Visit(p, f) /\ UNCHANGED <<pc, found, snap, index, seen>>
    BY <1>4, <2>1, <2>3 DEF Visit, index, TypeInv, TypeOK
  <2> QED
    BY <1>5, <2>1, <2>2, <2>3
<1>8. ASSUME NEW p \in Proc,
             \/ Start(p) \/ OpenSnapshot(p) \/ EntriesWithin(p) \/ WalkFile(p)
             \/ DiscoverFails(p) \/ DiscoverDone(p)
      PROVE  CheckInv'
  BY <1>4, <1>8 DEF Start, OpenSnapshot, EntriesWithin, WalkFile, DiscoverFails, DiscoverDone,
                    Reached, Visit, index, TypeInv, TypeOK
<1>9. ASSUME NEW p \in Proc, SnapshotUnusable(p) \/ WalkFails(p) PROVE CheckInv'
  BY <1>5, <1>9 DEF SnapshotUnusable, WalkFails
<1>10. ASSUME NEW p \in Proc, ParseFile(p) \/ BeginSave(p) PROVE CheckInv'
  BY <1>4, <1>10 DEF ParseFile, BeginSave, Reached, Visit, TypeInv, TypeOK
<1>11. ASSUME NEW p \in Proc, saveSnapshot(p) PROVE CheckInv'
  <2>1. CASE RewalkFile(p) \/ RewalkDone(p)
    BY <1>4, <2>1 DEF RewalkFile, RewalkDone, Reached, Visit, index, TypeInv, TypeOK
  <2>2. CASE RestatFile(p)
    <3>1. \A q \in Proc : q # p => snap'[q] = snap[q]
      BY <2>2 DEF RestatFile, TypeInv, TypeOK
    <3> QED
      BY <1>4, <2>2, <3>1 DEF RestatFile, Visit, index, TypeInv, TypeOK
  <2>3. CASE CreateTemp(p) \/ EncodeTemp(p)
    BY <1>4, <2>3 DEF CreateTemp, EncodeTemp, Reached, index, TypeInv, TypeOK
  <2>4. CASE RenameTemp(p) \/ SaveFails(p)
    BY <1>4, <2>4 DEF RenameTemp, SaveFails, Saved, Reached, index, TypeInv, TypeOK
  <2> QED
    BY <1>11, <2>1, <2>2, <2>3, <2>4 DEF saveSnapshot
<1>12. ASSUME NEW p \in Proc, Exit(p) \/ Crash(p) PROVE CheckInv'
  BY <1>4, <1>12 DEF Exit, Crash, Forget, Reached, TypeInv, TypeOK
<1>13. ASSUME NEW f \in Path, WriteFile(f) \/ DeleteFile(f) \/ ChangeMode(f) PROVE CheckInv'
  BY <1>13 DEF WriteFile, DeleteFile, ChangeMode, index, Checked
<1>14. CASE UNCHANGED vars
  BY <1>14 DEF vars, index, Checked
<1> QED
  BY <1>1, <1>2, <1>6, <1>7, <1>8, <1>9, <1>10, <1>11, <1>12, <1>13, <1>14
     DEF Next, tryLoadIndex, loadSnapshot, BuildIndex

\* Where a write always gets a modification time of its own, accepting a
\* snapshot adds no staleness (loadSnapshot, snapshot.go:85-97): what was
\* validated has the content it had when the snapshot's builder statted it.
THEOREM AcceptanceIsCurrent == FreshMtimes => (Spec => []AcceptedStatsMatch)
<1> SUFFICES ASSUME FreshMtimes PROVE Spec => []AcceptedStatsMatch
  OBVIOUS
<1>1. TypeInv /\ StatsInv /\ CheckInv /\ [Next]_vars => CheckInv'
  BY NextCheck
<1>2. CheckInv => AcceptedStatsMatch
  BY DEF CheckInv, Checked, AcceptedStatsMatch
<1> QED
  BY <1>1, <1>2, InitType, NextType, InitStats, NextStats, InitCheck, PTL DEF Spec
-----------------------------------------------------------------------------
(* BuildIndex loses no file and counts none twice. *)

\* The phases before the first document is parsed.
Unparsed == {"idle", "open", "within", "walk", "stat", "discover"}

\* What is still to be parsed, has an entry, or has an error.
Pending(p) == IF pc[p] = "parse" THEN todo[p] ELSE {}
Parsed(p) == {e.path : e \in entries[p]}
Failed(p) == {r.path : r \in errs[p]}

Accounted(p) ==
  /\ found[p] = Pending(p) \cup Parsed(p) \cup Failed(p)
  /\ Pending(p) \cap Parsed(p) = {}
  /\ Pending(p) \cap Failed(p) = {}
  /\ Parsed(p) \cap Failed(p) = {}
  /\ \A d, e \in entries[p] : d.path = e.path => d = e

\* The index of a process is empty until it parses, which only a process that
\* has no index yet does.
ProcessAccounted(p) ==
  /\ pc[p] \in Unparsed => entries[p] = {} /\ errs[p] = {} /\ origin[p] = "none"
  /\ pc[p] = "parse" => origin[p] = "none"
  /\ pc[p] = "parse" \/ origin[p] = "build" => Accounted(p)

AccountInv == \A p \in Proc : ProcessAccounted(p)

\* Nothing is indexed before the first process starts.
LEMMA InitAccount == Init => AccountInv
BY DEF Init, AccountInv, ProcessAccounted, Unparsed

\* A process whose index, findings and phase are left alone stays accounted.
LEMMA OthersAccounted ==
  ASSUME NEW q \in Proc, ProcessAccounted(q),
         pc'[q] = pc[q], todo'[q] = todo[q], found'[q] = found[q],
         entries'[q] = entries[q], errs'[q] = errs[q], origin'[q] = origin[q]
  PROVE  ProcessAccounted(q)'
BY DEF ProcessAccounted, Accounted, Pending, Parsed, Failed

\* Every parsed document moves from what is to be parsed to the entries or to
\* the errors, and nothing else touches these until the process ends.
LEMMA NextAccount == TypeInv /\ AccountInv /\ [Next]_vars => AccountInv'
<1> SUFFICES ASSUME TypeInv, AccountInv, [Next]_vars PROVE AccountInv'
  OBVIOUS
<1> USE DEF AccountInv
\* A step that leaves the index alone and parses nothing.
<1>1. ASSUME NEW p \in Proc,
             UNCHANGED <<entries, errs, origin>>,
             pc[p] \in Unparsed, pc'[p] \in Unparsed,
             \A q \in Proc : q # p =>
               pc'[q] = pc[q] /\ todo'[q] = todo[q] /\ found'[q] = found[q]
      PROVE  AccountInv'
  <2>1. ProcessAccounted(p)'
    BY <1>1 DEF ProcessAccounted, Unparsed
  <2> QED
    BY <1>1, <2>1, OthersAccounted
\* A step of a process that has built its index.
<1>2. ASSUME NEW p \in Proc,
             UNCHANGED <<entries, errs, origin, found>>,
             pc[p] \notin Unparsed \cup {"parse"}, pc'[p] \notin Unparsed \cup {"parse"},
             \A q \in Proc : q # p => pc'[q] = pc[q] /\ todo'[q] = todo[q]
      PROVE  AccountInv'
  <2>1. ProcessAccounted(p)'
    BY <1>2 DEF ProcessAccounted, Accounted, Pending, Parsed, Failed
  <2> QED
    BY <1>2, <2>1, OthersAccounted
<1>3. ASSUME NEW p \in Proc, Reject(p), pc[p] \in Unparsed PROVE AccountInv'
  BY <1>1, <1>3 DEF Reject, Reached, index, Unparsed, TypeInv, TypeOK
<1>4. ASSUME NEW p \in Proc, Start(p) \/ OpenSnapshot(p) \/ EntriesWithin(p) PROVE AccountInv'
  BY <1>1, <1>4 DEF Start, OpenSnapshot, EntriesWithin, Reached, index, Unparsed, TypeInv, TypeOK
<1>5. ASSUME NEW p \in Proc, WalkFile(p) PROVE AccountInv'
  <2>1. pc[p] \in Unparsed
    BY <1>5 DEF WalkFile, Unparsed
  <2> QED
    BY <1>1, <1>5, <2>1 DEF WalkFile, Visit, index, TypeInv, TypeOK
<1>6. ASSUME NEW p \in Proc, SnapshotUnusable(p) \/ WalkFails(p) PROVE AccountInv'
  BY <1>3, <1>6 DEF SnapshotUnusable, WalkFails, Unparsed
<1>18. ASSUME NEW p \in Proc, DiscoverFails(p) PROVE AccountInv'
  <2>1. pc'[p] = "done" /\ origin'[p] = "failed"
    BY <1>18 DEF DiscoverFails, Reached, TypeInv, TypeOK
  <2>2. ProcessAccounted(p)'
    BY <2>1 DEF ProcessAccounted, Unparsed
  <2>3. ASSUME NEW q \in Proc, q # p PROVE ProcessAccounted(q)'
    BY <1>18, <2>3, OthersAccounted DEF DiscoverFails, Reached, TypeInv, TypeOK
  <2> QED
    BY <2>2, <2>3
<1>7. ASSUME NEW p \in Proc, CheckEntryWithin(p) PROVE AccountInv'
  <2>1. pc[p] \in Unparsed
    BY <1>7 DEF CheckEntryWithin, Unparsed
  <2>2. Reject(p) \/ \E f : Visit(p, f) /\ UNCHANGED <<pc, found, index>>
    BY <1>7, Zenon DEF CheckEntryWithin
  <2>3. CASE \E f : Visit(p, f) /\ UNCHANGED <<pc, found, index>>
    BY <1>1, <2>1, <2>3 DEF Visit, index, TypeInv, TypeOK
  <2> QED
    BY <1>3, <2>1, <2>2, <2>3
<1>8. ASSUME NEW p \in Proc, CompareFiles(p) PROVE AccountInv'
  <2>1. pc[p] \in Unparsed
    BY <1>8 DEF CompareFiles, Unparsed
  <2>2. Reject(p) \/ (Reached(p, "stat", found[p]) /\ UNCHANGED <<found, index>>)
    BY <1>8, Zenon DEF CompareFiles
  <2>3. CASE Reached(p, "stat", found[p]) /\ UNCHANGED <<found, index>>
    BY <1>1, <2>1, <2>3 DEF Reached, index, Unparsed, TypeInv, TypeOK
  <2> QED
    BY <1>3, <2>1, <2>2, <2>3
<1>9. ASSUME NEW p \in Proc, CheckFile(p) PROVE AccountInv'
  <2>1. pc[p] \in Unparsed
    BY <1>9 DEF CheckFile, Unparsed
  <2>2. Reject(p) \/ \E f : Visit(p, f) /\ UNCHANGED <<pc, found, index>>
    BY <1>9, Zenon DEF CheckFile
  <2>3. CASE \E f : Visit(p, f) /\ UNCHANGED <<pc, found, index>>
    BY <1>1, <2>1, <2>3 DEF Visit, index, TypeInv, TypeOK
  <2> QED
    BY <1>3, <2>1, <2>2, <2>3
<1>10. ASSUME NEW p \in Proc, AcceptSnapshot(p) PROVE AccountInv'
  <2>1. pc'[p] = "done" /\ origin'[p] = "snapshot"
    BY <1>10 DEF AcceptSnapshot, Reached, TypeInv, TypeOK
  <2>2. ProcessAccounted(p)'
    BY <2>1 DEF ProcessAccounted, Unparsed
  <2>3. ASSUME NEW q \in Proc, q # p PROVE ProcessAccounted(q)'
    BY <1>10, <2>3, OthersAccounted DEF AcceptSnapshot, Reached, TypeInv, TypeOK
  <2> QED
    BY <2>2, <2>3
<1>11. ASSUME NEW p \in Proc, DiscoverDone(p) PROVE AccountInv'
  <2>1. pc[p] = "discover" /\ pc'[p] = "parse" /\ todo'[p] = found[p] /\ found'[p] = found[p]
    BY <1>11 DEF DiscoverDone, Reached, TypeInv, TypeOK
  <2>2. entries'[p] = {} /\ errs'[p] = {} /\ origin'[p] = "none"
    BY <1>11, <2>1 DEF DiscoverDone, ProcessAccounted, Unparsed, index
  <2>3. ProcessAccounted(p)'
    BY <2>1, <2>2 DEF ProcessAccounted, Accounted, Pending, Parsed, Failed, Unparsed
  <2>4. ASSUME NEW q \in Proc, q # p PROVE ProcessAccounted(q)'
    BY <1>11, <2>4, OthersAccounted DEF DiscoverDone, Reached, index, TypeInv, TypeOK
  <2> QED
    BY <2>3, <2>4
<1>12. ASSUME NEW p \in Proc, ParseFile(p) PROVE AccountInv'
  <2>1. PICK f \in todo[p] :
          /\ Visit(p, f)
          /\ \/ /\ entries' = [entries EXCEPT ![p] =
                     @ \cup {[path |-> f, content |-> disk[f].content]}]
                /\ UNCHANGED errs
             \/ /\ \E reason : errs' = [errs EXCEPT ![p] =
                     @ \cup {[path |-> f, reason |-> reason]}]
                /\ UNCHANGED entries
    BY <1>12, Zenon DEF ParseFile, ParseError
  <2>2. /\ pc[p] = "parse" /\ pc'[p] = "parse" /\ origin'[p] = origin[p]
        /\ found'[p] = found[p] /\ todo'[p] = todo[p] \ {f}
    BY <1>12, <2>1 DEF ParseFile, Visit, TypeInv, TypeOK
  <2>3. origin[p] = "none" /\ Accounted(p)
    BY <2>2 DEF ProcessAccounted
  <2>4. ASSUME entries' = [entries EXCEPT ![p] =
                 @ \cup {[path |-> f, content |-> disk[f].content]}],
               UNCHANGED errs
        PROVE  Accounted(p)'
    <3>1. entries'[p] = entries[p] \cup {[path |-> f, content |-> disk[f].content]}
      BY <2>4 DEF TypeInv, TypeOK
    <3>2. Parsed(p)' = Parsed(p) \cup {f} /\ Failed(p)' = Failed(p)
      <4>1. \A x : x \in Parsed(p)' <=> x \in Parsed(p) \/ x = f
        <5>1. PICK r : r.path = f /\ entries'[p] = entries[p] \cup {r}
          BY <3>1
        <5> QED
          BY <5>1, Zenon DEF Parsed
      <4> QED
        BY <2>4, <4>1 DEF Failed
    <3>3. \A e \in entries[p] : e.path # f
      BY <2>1, <2>2, <2>3 DEF Accounted, Pending, Parsed
    <3>4. \A d, e \in entries'[p] : d.path = e.path => d = e
      BY <2>3, <3>1, <3>3 DEF Accounted
    <3>5. Pending(p) = todo[p] /\ Pending(p)' = todo[p] \ {f}
      BY <2>2 DEF Pending
    <3>6. f \in todo[p] /\ f \notin Parsed(p) \cup Failed(p)
      BY <2>1, <2>3, <3>5 DEF Accounted
    <3>7. found'[p] = Pending(p)' \cup Parsed(p)' \cup Failed(p)'
      BY <2>2, <2>3, <3>2, <3>5, <3>6 DEF Accounted
    <3>8. /\ Pending(p)' \cap Parsed(p)' = {}
          /\ Pending(p)' \cap Failed(p)' = {}
          /\ Parsed(p)' \cap Failed(p)' = {}
      BY <2>3, <3>2, <3>5, <3>6 DEF Accounted
    <3> QED
      BY <3>4, <3>7, <3>8 DEF Accounted
  <2>5. ASSUME NEW reason,
               errs' = [errs EXCEPT ![p] = @ \cup {[path |-> f, reason |-> reason]}],
               UNCHANGED entries
        PROVE  Accounted(p)'
    <3>1. errs'[p] = errs[p] \cup {[path |-> f, reason |-> reason]}
      BY <2>5 DEF TypeInv, TypeOK
    <3>2. Failed(p)' = Failed(p) \cup {f} /\ Parsed(p)' = Parsed(p)
      <4>1. \A x : x \in Failed(p)' <=> x \in Failed(p) \/ x = f
        <5>1. PICK r : r.path = f /\ errs'[p] = errs[p] \cup {r}
          BY <3>1
        <5> QED
          BY <5>1, Zenon DEF Failed
      <4> QED
        BY <2>5, <4>1 DEF Parsed
    <3>3. \A d, e \in entries'[p] : d.path = e.path => d = e
      BY <2>3, <2>5 DEF Accounted
    <3>4. Pending(p) = todo[p] /\ Pending(p)' = todo[p] \ {f}
      BY <2>2 DEF Pending
    <3>6. f \in todo[p] /\ f \notin Parsed(p) \cup Failed(p)
      BY <2>1, <2>3, <3>4 DEF Accounted
    <3>7. found'[p] = Pending(p)' \cup Parsed(p)' \cup Failed(p)'
      BY <2>2, <2>3, <3>2, <3>4, <3>6 DEF Accounted
    <3>8. /\ Pending(p)' \cap Parsed(p)' = {}
          /\ Pending(p)' \cap Failed(p)' = {}
          /\ Parsed(p)' \cap Failed(p)' = {}
      BY <2>3, <3>2, <3>4, <3>6 DEF Accounted
    <3> QED
      BY <3>3, <3>7, <3>8 DEF Accounted
  <2>6. Accounted(p)'
    BY <2>1, <2>4, <2>5, Zenon
  <2>7. ProcessAccounted(p)'
    BY <2>2, <2>3, <2>6 DEF ProcessAccounted, Unparsed
  <2>8. ASSUME NEW q \in Proc, q # p PROVE ProcessAccounted(q)'
    <3>1. entries'[q] = entries[q] /\ errs'[q] = errs[q] /\ todo'[q] = todo[q]
      BY <2>1, <2>8 DEF Visit, TypeInv, TypeOK
    <3> QED
      BY <1>12, <2>8, <3>1, OthersAccounted DEF ParseFile
  <2> QED
    BY <2>7, <2>8
<1>13. ASSUME NEW p \in Proc, BeginSave(p) PROVE AccountInv'
  <2>1. /\ pc[p] = "parse" /\ pc'[p] = "rewalk" /\ todo[p] = {}
        /\ UNCHANGED <<found, entries, errs>>
    BY <1>13 DEF BeginSave, Reached, TypeInv, TypeOK
  <2>2. Accounted(p)'
    BY <2>1 DEF ProcessAccounted, Accounted, Pending, Parsed, Failed
  <2>3. ProcessAccounted(p)'
    BY <2>1, <2>2 DEF ProcessAccounted, Unparsed
  <2>4. ASSUME NEW q \in Proc, q # p PROVE ProcessAccounted(q)'
    BY <1>13, <2>4, OthersAccounted DEF BeginSave, Reached, TypeInv, TypeOK
  <2> QED
    BY <2>3, <2>4
<1>14. ASSUME NEW p \in Proc, saveSnapshot(p) PROVE AccountInv'
  <2>1. CASE RewalkFile(p) \/ RestatFile(p)
    BY <1>2, <2>1 DEF RewalkFile, RestatFile, Visit, index, Unparsed, TypeInv, TypeOK
  <2>2. CASE RewalkDone(p) \/ CreateTemp(p) \/ EncodeTemp(p)
    BY <1>2, <2>2 DEF RewalkDone, CreateTemp, EncodeTemp, Reached, index, Unparsed,
                      TypeInv, TypeOK
  <2>3. CASE RenameTemp(p) \/ SaveFails(p)
    BY <1>2, <2>3 DEF RenameTemp, SaveFails, Saved, Reached, index, Unparsed, TypeInv, TypeOK
  <2> QED
    BY <1>14, <2>1, <2>2, <2>3 DEF saveSnapshot
<1>15. ASSUME NEW p \in Proc, Exit(p) \/ Crash(p) PROVE AccountInv'
  <2>1. Forget(p)
    BY <1>15 DEF Exit, Crash
  <2>2. pc'[p] = "idle" /\ entries'[p] = {} /\ errs'[p] = {} /\ origin'[p] = "none"
    BY <2>1 DEF Forget, Reached, TypeInv, TypeOK
  <2>3. ProcessAccounted(p)'
    BY <2>2 DEF ProcessAccounted
  <2>4. ASSUME NEW q \in Proc, q # p PROVE ProcessAccounted(q)'
    BY <2>1, <2>4, OthersAccounted DEF Forget, Reached, TypeInv, TypeOK
  <2> QED
    BY <2>3, <2>4
<1>16. ASSUME NEW f \in Path, WriteFile(f) \/ DeleteFile(f) \/ ChangeMode(f) PROVE AccountInv'
  BY <1>16, OthersAccounted DEF WriteFile, DeleteFile, ChangeMode, index
<1>17. CASE UNCHANGED vars
  BY <1>17, OthersAccounted DEF vars, index
<1> QED
  BY <1>4, <1>5, <1>6, <1>7, <1>8, <1>9, <1>10, <1>11, <1>12, <1>13, <1>14, <1>15, <1>16, <1>17,
     <1>18
     DEF Next, tryLoadIndex, loadSnapshot, BuildIndex

\* However many processes index the same files while these come and go, each
\* file a process discovered (BuildIndex, catalog.go:129) is still to be parsed,
\* or has one entry, or has one error.
THEOREM NoFileLost == Spec => []DiscoveredFilesAccounted
<1>1. AccountInv => DiscoveredFilesAccounted
  BY DEF AccountInv, ProcessAccounted, Accounted, Pending, Parsed, Failed,
         DiscoveredFilesAccounted
<1> QED
  BY <1>1, InitType, NextType, InitAccount, NextAccount, PTL DEF Spec

-----------------------------------------------------------------------------
(* Restarting refreshes: an index is of the files as they are. *)

\* The error of a file that is there and cannot be read.
Refused(f) == [path |-> f, reason |-> "outside"]

\* The entries and errors that BuildIndex makes of the files F, some of which
\* it could not read; d tells the contents: files or the stats of a snapshot.
Indexes(ents, errors, F, d) ==
  /\ \A e \in Entry : e \in ents <=> /\ e.path \in F /\ e.content = d[e.path].content
                                     /\ e.content \in Named /\ Refused(e.path) \notin errors
  /\ \A r \in CatalogError : r \in errors =>
       r.path \in F /\ (r = Refused(r.path) \/ r.reason = "invalid")
  /\ \A r \in CatalogError : r.path \in F /\ r.reason = "invalid" =>
       (r \in errors <=> d[r.path].content \notin Named /\ Refused(r.path) \notin errors)

\* Of the files F those that could not be read are the ones that cannot now,
\* where permissions are still those the files were written with.
Refuses(errors, F, d) ==
  \A f \in F : ~d[f].switched => (Refused(f) \in errors <=> ~d[f].readable)

\* A snapshot is faithful when it indexes the very contents it has stats of,
\* and was refused the files that are still refused as they were statted.
Faithful(s, d) ==
  /\ Indexes(s.entries, s.errors, s.paths, s.stats)
  /\ \A f \in s.paths :
       s.stats[f] # Absent /\ d[f] # Absent /\ d[f].mtime = s.stats[f].mtime =>
         Refuses(s.errors, {f}, d)

\* loadSnapshot: what is still to be looked at, and what was found to be right.
Validating(p) ==
  /\ pc[p] \in {"idle", "open", "within"} => found[p] = {}
  /\ pc[p] \in {"walk", "discover"} =>
       /\ todo[p] \subseteq Candidates(p)
       /\ quiet[p] \/ pc[p] = "discover" => found[p] = Present(p) \ todo[p]
  /\ pc[p] = "stat" =>
       /\ todo[p] \subseteq found[p]
       /\ found[p] = snap[p].paths
       /\ quiet[p] =>
            /\ found[p] = Present(p)
            /\ \A f \in found[p] \ todo[p] :
                 /\ snap[p].stats[f] # Absent
                 /\ disk[f].mtime = snap[p].stats[f].mtime
                 /\ disk[f].content = snap[p].stats[f].content

\* BuildIndex and saveSnapshot: how much of the index and of the stats is there.
Building(p) ==
  /\ pc[p] = "parse" =>
       /\ todo[p] \subseteq found[p]
       /\ found[p] = Present(p)
       /\ Indexes(entries[p], errs[p], Present(p) \ todo[p], disk)
       /\ Refuses(errs[p], Present(p) \ todo[p], disk)
  /\ pc[p] \in {"rewalk", "restat"} =>
       /\ Indexes(entries[p], errs[p], Present(p), disk)
       /\ Refuses(errs[p], Present(p), disk)
       /\ snap[p].entries = entries[p] /\ snap[p].errors = errs[p]
  /\ pc[p] = "rewalk" =>
       /\ todo[p] \subseteq Candidates(p)
       /\ snap[p].paths = Present(p) \ todo[p]
  /\ pc[p] = "restat" =>
       /\ todo[p] \subseteq Present(p)
       /\ snap[p].paths = Present(p)
       /\ \A f \in Present(p) \ todo[p] : snap[p].stats[f].content = disk[f].content

\* What is kept: snapshots that are faithful, and an index of the files while
\* these stay as they are.
Kept(p) ==
  /\ pc[p] \in {"within", "walk", "stat", "encode"} => Faithful(snap[p], disk)
  /\ pc[p] = "rename" => Faithful(temp[p], disk)
  /\ pc[p] \in {"encode", "rename", "done"} /\ quiet[p] /\ origin[p] # "failed" =>
       /\ Indexes(entries[p], errs[p], Present(p), disk)
       /\ Refuses(errs[p], Present(p), disk)

Refreshed(p) == Validating(p) /\ Building(p) /\ Kept(p)

RefreshInv ==
  /\ snapshot \in catalogSnapshot => Faithful(snapshot, disk)
  /\ \A p \in Proc : Refreshed(p)

\* An index depends on the contents only.
LEMMA IndexesSame ==
  ASSUME NEW E, NEW X, NEW F, NEW d, NEW e,
         Indexes(E, X, F, d), \A f \in F : d[f].content = e[f].content
  PROVE  Indexes(E, X, F, e)
BY DEF Indexes, Refuses, Entry, CatalogError

\* What could not be read of files that stay as they are.
LEMMA RefusesSame ==
  ASSUME NEW X, NEW F, NEW d, NEW e, Refuses(X, F, d), \A f \in F : d[f] = e[f]
  PROVE  Refuses(X, F, e)
BY DEF Refuses

\* Where every file still has the time of its stat, a faithful snapshot tells
\* which of them cannot be read.
LEMMA FaithfulRefuses ==
  ASSUME NEW s, NEW d, Faithful(s, d),
         \A f \in s.paths : s.stats[f] # Absent /\ d[f] # Absent /\ d[f].mtime = s.stats[f].mtime
  PROVE  Refuses(s.errors, s.paths, d)
BY DEF Faithful, Refuses

\* Nothing is indexed and no snapshot is there.
LEMMA InitRefresh == Init => RefreshInv
BY SnapshotAssumption DEF Init, RefreshInv, Refreshed, Validating, Building, Kept

\* What a step does not concern stays.
LEMMA OthersRefreshed ==
  ASSUME NEW q \in Proc, Refreshed(q), UNCHANGED disk,
         pc'[q] = pc[q], todo'[q] = todo[q], found'[q] = found[q], snap'[q] = snap[q],
         temp'[q] = temp[q], entries'[q] = entries[q], errs'[q] = errs[q],
         origin'[q] = origin[q], quiet'[q] = quiet[q]
  PROVE  Refreshed(q)'
BY DEF Refreshed, Validating, Building, Kept, Faithful, Indexes, Refuses, Present, Candidates

\* The step of one process: what is to be shown is of that process, and of the
\* snapshot if it wrote one.
LEMMA ProcessRefreshed ==
  ASSUME TypeInv, RefreshInv, NEW p \in Proc, UNCHANGED disk,
         snapshot' = snapshot \/ Faithful(snapshot', disk'), Refreshed(p)',
         \A q \in Proc : q # p =>
           /\ pc'[q] = pc[q] /\ todo'[q] = todo[q] /\ found'[q] = found[q]
           /\ snap'[q] = snap[q] /\ temp'[q] = temp[q] /\ entries'[q] = entries[q]
           /\ errs'[q] = errs[q] /\ origin'[q] = origin[q] /\ quiet'[q] = quiet[q]
  PROVE  RefreshInv'
<1>1. \A q \in Proc : Refreshed(q)'
  BY OthersRefreshed DEF RefreshInv
<1>2. snapshot' \in catalogSnapshot => Faithful(snapshot', disk')
  BY DEF RefreshInv
<1> QED
  BY <1>1, <1>2 DEF RefreshInv

\* A rejected snapshot leaves everything to be walked again.
LEMMA RejectRefreshed ==
  ASSUME TypeInv, AccountInv, RefreshInv, NEW p \in Proc, Reject(p)
  PROVE  RefreshInv'
<1>1. /\ pc'[p] = "discover" /\ todo'[p] = Candidates(p) /\ found'[p] = {}
      /\ UNCHANGED <<disk, snapshot>>
  BY DEF Reject, Reached, files, cacheDir, TypeInv, TypeOK
<1>2. Present(p)' \subseteq Candidates(p)
  BY DEF Present
<1>3. Refreshed(p)'
  BY <1>1, <1>2 DEF Refreshed, Validating, Building, Kept, Candidates
<1> QED
  BY <1>1, <1>3, ProcessRefreshed DEF Reject, Reached, cacheDir, index, TypeInv, TypeOK

\* The steps of loadSnapshot up to the walk, and the walk.
LEMMA WalkRefreshed ==
  ASSUME TypeInv, AccountInv, RefreshInv, NEW p \in Proc,
         Start(p) \/ OpenSnapshot(p) \/ CheckEntryWithin(p) \/ EntriesWithin(p) \/ WalkFile(p)
  PROVE  RefreshInv'
<1>0. Refreshed(p)
  BY DEF RefreshInv
<1>1. CASE Start(p)
  <2>1. /\ pc[p] = "idle" /\ pc'[p] = "open" /\ found'[p] = found[p]
        /\ UNCHANGED <<disk, snapshot>>
    BY <1>1 DEF Start, Reached, files, cacheDir, TypeInv, TypeOK
  <2>2. Refreshed(p)'
    BY <1>0, <2>1 DEF Refreshed, Validating, Building, Kept
  <2> QED
    BY <1>1, <2>1, <2>2, ProcessRefreshed DEF Start, Reached, cacheDir, index, TypeInv, TypeOK
<1>2. CASE OpenSnapshot(p)
  <2>1. /\ pc[p] = "open" /\ pc'[p] = "within" /\ found'[p] = found[p] /\ snap'[p] = snapshot
        /\ UNCHANGED <<disk, snapshot>>
    BY <1>2 DEF OpenSnapshot, Reached, files, cacheDir, TypeInv, TypeOK
  <2>2. Faithful(snapshot, disk)
    BY <1>2 DEF OpenSnapshot, SnapshotUsable, RefreshInv, TypeInv, TypeOK
  <2>3. Faithful(snap[p], disk)'
    BY <2>1, <2>2 DEF Faithful, Indexes, Refuses
  <2>4. Refreshed(p)'
    BY <1>0, <2>1, <2>3 DEF Refreshed, Validating, Building, Kept
  <2> QED
    BY <1>2, <2>1, <2>4, ProcessRefreshed
       DEF OpenSnapshot, Reached, cacheDir, index, TypeInv, TypeOK
<1>3. CASE CheckEntryWithin(p)
  <2>1. pc[p] = "within"
    BY <1>3 DEF CheckEntryWithin
  <2>2. Reject(p) \/ \E f : /\ Visit(p, f)
                            /\ UNCHANGED <<files, cacheDir, pc, found, snap, index, quiet>>
    BY <1>3, Zenon DEF CheckEntryWithin
  <2>3. CASE \E f : Visit(p, f) /\ UNCHANGED <<files, cacheDir, pc, found, snap, index, quiet>>
    <3>1. Refreshed(p)'
      BY <1>0, <2>1, <2>3 DEF Visit, files, Refreshed, Validating, Building, Kept, Faithful, Indexes, Refuses
    <3> QED
      BY <2>3, <3>1, ProcessRefreshed DEF Visit, files, cacheDir, index, TypeInv, TypeOK
  <2> QED
    BY <2>2, <2>3, RejectRefreshed
<1>4. CASE EntriesWithin(p)
  <2>1. /\ pc[p] = "within" /\ pc'[p] = "walk" /\ todo'[p] = Candidates(p)
        /\ found'[p] = found[p] /\ snap'[p] = snap[p] /\ UNCHANGED <<disk, snapshot>>
    BY <1>4 DEF EntriesWithin, Reached, files, cacheDir, TypeInv, TypeOK
  <2>2. Present(p)' \subseteq Candidates(p)
    BY DEF Present
  <2>3. Refreshed(p)'
    BY <1>0, <2>1, <2>2
       DEF Refreshed, Validating, Building, Kept, Candidates, Faithful, Indexes, Refuses
  <2> QED
    BY <1>4, <2>1, <2>3, ProcessRefreshed
       DEF EntriesWithin, Reached, cacheDir, index, TypeInv, TypeOK
<1>5. CASE WalkFile(p)
  <2>1. PICK f \in todo[p] :
          /\ Visit(p, f)
          /\ found' = [found EXCEPT ![p] = IF disk[f] = Absent THEN @ ELSE @ \cup {f}]
    BY <1>5 DEF WalkFile
  <2>2. /\ pc[p] \in {"walk", "discover"} /\ pc'[p] = pc[p] /\ snap'[p] = snap[p]
        /\ todo'[p] = todo[p] \ {f} /\ UNCHANGED <<disk, snapshot, quiet>>
        /\ found'[p] = IF disk[f] = Absent THEN found[p] ELSE found[p] \cup {f}
    BY <1>5, <2>1 DEF WalkFile, Visit, files, cacheDir, TypeInv, TypeOK
  <2>3. todo[p] \subseteq Candidates(p)
    BY <1>0, <2>2 DEF Refreshed, Validating
  <2>4. Present(p)' = Present(p)
    BY <2>2 DEF Present, Candidates
  <2>5. f \in Present(p) <=> disk[f] # Absent
    BY <2>3 DEF Present
  <2>6. Present(p) \ (todo[p] \ {f})
          = IF disk[f] = Absent THEN Present(p) \ todo[p] ELSE (Present(p) \ todo[p]) \cup {f}
    BY <2>5
  <2>7. Validating(p)'
    BY <1>0, <2>2, <2>3, <2>4, <2>6 DEF Refreshed, Validating, Candidates
  <2>8. Building(p)' /\ Kept(p)'
    BY <1>0, <2>2 DEF Refreshed, Building, Kept, Faithful, Indexes, Refuses
  <2> QED
    BY <1>5, <2>1, <2>2, <2>7, <2>8, ProcessRefreshed
       DEF WalkFile, Visit, cacheDir, index, Refreshed, TypeInv, TypeOK
<1> QED
  BY <1>1, <1>2, <1>3, <1>4, <1>5

\* Validation: where nothing changed since the process started, the stats vouch
\* for the contents, and those are what the snapshot indexes.
LEMMA ValidateRefreshed ==
  ASSUME FreshMtimes, TypeInv, StatsInv, AccountInv, RefreshInv, NEW p \in Proc,
         CompareFiles(p) \/ CheckFile(p) \/ AcceptSnapshot(p)
  PROVE  RefreshInv'
<1>0. Refreshed(p)
  BY DEF RefreshInv
<1>1. CASE CompareFiles(p)
  <2>1. CASE ~SameFiles(p)
    BY <1>1, <2>1, RejectRefreshed DEF CompareFiles
  <2>2. CASE SameFiles(p)
    <3>1. /\ Reached(p, "stat", found[p])
          /\ UNCHANGED <<files, cacheDir, found, snap, index, quiet>>
      BY <1>1, <2>2, Zenon DEF CompareFiles
    <3>2. /\ pc[p] = "walk" /\ todo[p] = {} /\ pc'[p] = "stat" /\ todo'[p] = found[p]
          /\ found[p] = snap[p].paths /\ UNCHANGED <<disk, snapshot, found, snap, quiet>>
      BY <1>1, <2>2, <3>1 DEF CompareFiles, SameFiles, Reached, files, cacheDir, TypeInv, TypeOK
    <3>3. Present(p)' = Present(p)
      BY <3>2 DEF Present, Candidates
    <3>4. Refreshed(p)'
      BY <1>0, <3>2, <3>3 DEF Refreshed, Validating, Building, Kept, Faithful, Indexes, Refuses
    <3> QED
      BY <3>1, <3>2, <3>4, ProcessRefreshed DEF Reached, cacheDir, index, TypeInv, TypeOK
  <2> QED
    BY <2>1, <2>2
<1>2. CASE CheckFile(p)
  <2>1. PICK f \in todo[p] :
          /\ ~Unmodified(p, f) => Reject(p)
          /\ Unmodified(p, f) =>
               /\ Visit(p, f)
               /\ UNCHANGED <<files, cacheDir, pc, found, snap, index, quiet>>
    BY <1>2, Zenon DEF CheckFile
  <2>2. CASE ~Unmodified(p, f)
    BY <2>1, <2>2, RejectRefreshed
  <2>3. CASE Unmodified(p, f)
    <3>1. Visit(p, f) /\ UNCHANGED <<files, cacheDir, pc, found, snap, index, quiet>>
      BY <2>1, <2>3, Zenon
    <3>2. /\ pc[p] = "stat" /\ pc'[p] = "stat" /\ todo'[p] = todo[p] \ {f}
          /\ UNCHANGED <<disk, snapshot, found, snap, quiet>>
      BY <1>2, <3>1 DEF CheckFile, Visit, files, cacheDir, TypeInv, TypeOK
    <3>3. f \in Path /\ snap[p] \in catalogSnapshot
      BY <3>2 DEF Holding, TypeInv, TypeOK
    <3>4. Vouches(snap[p].stats, disk, clock)
      BY <3>3 DEF StatsInv
    <3>5. /\ snap[p].stats[f] # Absent /\ disk[f].mtime = snap[p].stats[f].mtime
          /\ disk[f].content = snap[p].stats[f].content
      BY <2>3, <3>3, <3>4 DEF Unmodified, StatOf, Vouches
    <3>6. Present(p)' = Present(p)
      BY <3>2 DEF Present, Candidates
    <3>7. Refreshed(p)'
      BY <1>0, <3>2, <3>5, <3>6 DEF Refreshed, Validating, Building, Kept, Faithful, Indexes, Refuses
    <3> QED
      BY <3>1, <3>2, <3>7, ProcessRefreshed DEF Visit, cacheDir, index, TypeInv, TypeOK
  <2> QED
    BY <2>2, <2>3
<1>3. CASE AcceptSnapshot(p)
  <2>1. /\ pc[p] = "stat" /\ todo[p] = {} /\ pc'[p] = "done"
        /\ entries'[p] = snap[p].entries /\ errs'[p] = snap[p].errors
        /\ UNCHANGED <<disk, snapshot, quiet>>
    BY <1>3 DEF AcceptSnapshot, Reached, files, cacheDir, TypeInv, TypeOK
  <2>2. Faithful(snap[p], disk) /\ found[p] = snap[p].paths
    BY <1>0, <2>1 DEF Refreshed, Kept, Validating
  <2>3. quiet[p] => /\ snap[p].paths = Present(p)
                    /\ \A f \in Present(p) :
                         /\ snap[p].stats[f] # Absent /\ disk[f] # Absent
                         /\ disk[f].mtime = snap[p].stats[f].mtime
                         /\ disk[f].content = snap[p].stats[f].content
    BY <1>0, <2>1, <2>2 DEF Refreshed, Validating, Present
  <2>4. quiet[p] => Indexes(snap[p].entries, snap[p].errors, Present(p), disk)
    <3>1. ASSUME quiet[p] PROVE Indexes(snap[p].entries, snap[p].errors, Present(p), snap[p].stats)
      BY <2>2, <2>3, <3>1 DEF Faithful
    <3> QED
      BY <2>3, <3>1, IndexesSame
  <2>8. quiet[p] => Refuses(snap[p].errors, Present(p), disk)
    BY <2>2, <2>3, FaithfulRefuses
  <2>5. quiet'[p] => /\ Indexes(entries'[p], errs'[p], Present(p), disk)
                     /\ Refuses(errs'[p], Present(p), disk)
    BY <2>1, <2>4, <2>8
  <2>6. Present(p)' = Present(p)
    BY <2>1 DEF Present, Candidates
  <2>7. Refreshed(p)'
    BY <2>1, <2>5, <2>6 DEF Refreshed, Validating, Building, Kept, Indexes, Refuses
  <2> QED
    BY <1>3, <2>1, <2>7, ProcessRefreshed DEF AcceptSnapshot, Reached, cacheDir, TypeInv, TypeOK
<1> QED
  BY <1>1, <1>2, <1>3

\* One more file is indexed: it has an entry, cannot be read, or is invalid.
LEMMA IndexesAddEntry ==
  ASSUME NEW E \in SUBSET Entry, NEW X \in SUBSET CatalogError, NEW F, NEW d, NEW f \in Path,
         Indexes(E, X, F, d), Refuses(X, F, d), f \notin F, \A r \in X : r.path # f,
         d[f].content \in Content, d[f].content \in Named, d[f].readable
  PROVE  /\ Indexes(E \cup {[path |-> f, content |-> d[f].content]}, X, F \cup {f}, d)
         /\ Refuses(X, F \cup {f}, d)
<1>1. Refused(f) \notin X
  BY DEF Refused
<1>2. ASSUME NEW e \in Entry
      PROVE  e \in E \cup {[path |-> f, content |-> d[f].content]} <=>
               /\ e.path \in F \cup {f} /\ e.content = d[e.path].content
               /\ e.content \in Named /\ Refused(e.path) \notin X
  BY <1>1 DEF Indexes, Entry
<1>3. \A r \in CatalogError : r \in X => r.path \in F \cup {f}
                                         /\ (r = Refused(r.path) \/ r.reason = "invalid")
  BY DEF Indexes
<1>4. ASSUME NEW r \in CatalogError, r.path \in F \cup {f}, r.reason = "invalid"
      PROVE  r \in X <=> d[r.path].content \notin Named /\ Refused(r.path) \notin X
  BY <1>4 DEF Indexes
<1>5. Refuses(X, F \cup {f}, d)
  BY <1>1 DEF Refuses
<1> QED
  BY <1>2, <1>3, <1>4, <1>5 DEF Indexes

LEMMA IndexesAddRefused ==
  ASSUME NEW E \in SUBSET Entry, NEW X \in SUBSET CatalogError, NEW F, NEW d, NEW f \in Path,
         Indexes(E, X, F, d), Refuses(X, F, d), f \notin F, \A r \in X : r.path # f,
         ~d[f].readable
  PROVE  /\ Indexes(E, X \cup {Refused(f)}, F \cup {f}, d)
         /\ Refuses(X \cup {Refused(f)}, F \cup {f}, d)
<1>1. \A g : Refused(g) \in X \cup {Refused(f)} <=> Refused(g) \in X \/ g = f
  BY DEF Refused
<1>0. \A g : Refused(g).path = g /\ Refused(g).reason = "outside"
  BY DEF Refused
<1>2. ASSUME NEW e \in Entry
      PROVE  e \in E <=> /\ e.path \in F \cup {f} /\ e.content = d[e.path].content
                         /\ e.content \in Named /\ Refused(e.path) \notin X \cup {Refused(f)}
  BY <1>1 DEF Indexes
<1>3. \A r \in CatalogError : r \in X \cup {Refused(f)} =>
        r.path \in F \cup {f} /\ (r = Refused(r.path) \/ r.reason = "invalid")
  BY <1>0 DEF Indexes
<1>4. ASSUME NEW r \in CatalogError, r.path \in F \cup {f}, r.reason = "invalid"
      PROVE  r \in X \cup {Refused(f)} <=>
               d[r.path].content \notin Named /\ Refused(r.path) \notin X \cup {Refused(f)}
  <2>1. r # Refused(f)
    BY <1>0, <1>4
  <2> QED
    BY <1>1, <1>4, <2>1 DEF Indexes
<1>5. Refuses(X \cup {Refused(f)}, F \cup {f}, d)
  BY <1>1 DEF Refuses
<1> QED
  BY <1>2, <1>3, <1>4, <1>5 DEF Indexes

LEMMA IndexesAddInvalid ==
  ASSUME NEW E \in SUBSET Entry, NEW X \in SUBSET CatalogError, NEW F, NEW d, NEW f \in Path,
         Indexes(E, X, F, d), Refuses(X, F, d), f \notin F, \A r \in X : r.path # f,
         d[f].readable, d[f].content \notin Named
  PROVE  /\ Indexes(E, X \cup {[path |-> f, reason |-> "invalid"]}, F \cup {f}, d)
         /\ Refuses(X \cup {[path |-> f, reason |-> "invalid"]}, F \cup {f}, d)
<1> DEFINE new == [path |-> f, reason |-> "invalid"]
<1>0. /\ new.path = f /\ new.reason = "invalid"
      /\ \A g : Refused(g) # new
      /\ \A r \in CatalogError : r.path = f /\ r.reason = "invalid" => r = new
  BY DEF Refused, CatalogError
<1> HIDE DEF new
<1>1. /\ \A g : Refused(g) \in X \cup {new} <=> Refused(g) \in X
      /\ Refused(f) \notin X
  BY <1>0 DEF Refused
<1>2. ASSUME NEW e \in Entry
      PROVE  e \in E <=> /\ e.path \in F \cup {f} /\ e.content = d[e.path].content
                         /\ e.content \in Named /\ Refused(e.path) \notin X \cup {new}
  BY <1>1 DEF Indexes
<1>3. \A r \in CatalogError : r \in X \cup {new} =>
        r.path \in F \cup {f} /\ (r = Refused(r.path) \/ r.reason = "invalid")
  BY <1>0 DEF Indexes
<1>4. ASSUME NEW r \in CatalogError, r.path \in F \cup {f}, r.reason = "invalid"
      PROVE  r \in X \cup {new} <=>
               d[r.path].content \notin Named /\ Refused(r.path) \notin X \cup {new}
  BY <1>0, <1>1, <1>4 DEF Indexes
<1>5. Refuses(X \cup {new}, F \cup {f}, d)
  BY <1>1 DEF Refuses
<1>6. /\ Indexes(E, X \cup {new}, F \cup {f}, d)
      /\ Refuses(X \cup {new}, F \cup {f}, d)
  BY <1>2, <1>3, <1>4, <1>5 DEF Indexes
<1> QED
  BY <1>6 DEF new

\* Parsing one file adds it to what is indexed.
LEMMA ParseRefreshed ==
  ASSUME TypeInv, RefreshInv, NEW p \in Proc, ParseFile(p)
  PROVE  RefreshInv'
<1>0. Refreshed(p)
  BY DEF RefreshInv
<1>1. PICK f \in todo[p] : ParseFile(p)!2!(f)
  BY DEF ParseFile
<1>2. /\ pc[p] = "parse" /\ pc'[p] = "parse" /\ todo'[p] = todo[p] \ {f}
      /\ UNCHANGED <<disk, snapshot, found, quiet>>
  BY <1>1 DEF ParseFile, Visit, files, cacheDir, TypeInv, TypeOK
<1>3. /\ todo[p] \subseteq found[p] /\ found[p] = Present(p)
      /\ Indexes(entries[p], errs[p], Present(p) \ todo[p], disk)
      /\ Refuses(errs[p], Present(p) \ todo[p], disk)
  BY <1>0, <1>2 DEF Refreshed, Building
<1>4. /\ f \in Path /\ f \notin Present(p) \ todo[p]
      /\ disk[f] # Absent /\ disk[f].content \in Content /\ disk[f].readable \in BOOLEAN
  BY <1>3 DEF Present, Candidates, TypeInv, TypeOK, File
<1>5. Present(p) \ (todo[p] \ {f}) = (Present(p) \ todo[p]) \cup {f}
  BY <1>3
<1>6. /\ Indexes(entries'[p], errs'[p], (Present(p) \ todo[p]) \cup {f}, disk)
      /\ Refuses(errs'[p], (Present(p) \ todo[p]) \cup {f}, disk)
  <2>0. /\ entries[p] \subseteq Entry /\ errs[p] \subseteq CatalogError
        /\ \A r \in errs[p] : r.path # f
    BY <1>3, <1>4 DEF TypeInv, TypeOK, Indexes
  <2>1. CASE disk[f].readable /\ disk[f].content \in Named
    <3>1. /\ entries'[p] = entries[p] \cup {[path |-> f, content |-> disk[f].content]}
          /\ errs'[p] = errs[p]
      BY <1>1, <1>4, <2>1 DEF Opens, TypeInv, TypeOK
    <3> DEFINE F == Present(p) \ todo[p]
    <3>2. /\ Indexes(entries[p], errs[p], F, disk) /\ Refuses(errs[p], F, disk) /\ f \notin F
      BY <1>3, <1>4
    <3> HIDE DEF F
    <3>3. /\ Indexes(entries[p] \cup {[path |-> f, content |-> disk[f].content]}, errs[p],
                     F \cup {f}, disk)
          /\ Refuses(errs[p], F \cup {f}, disk)
      BY <1>4, <2>0, <2>1, <3>2, IndexesAddEntry
    <3> QED
      BY <3>1, <3>3 DEF F
  <2>2. CASE ~disk[f].readable
    <3>1. errs'[p] = errs[p] \cup {Refused(f)} /\ entries'[p] = entries[p]
      BY <1>1, <1>4, <2>2 DEF Opens, ParseError, Refused, TypeInv, TypeOK
    <3> QED
      BY <1>3, <1>4, <2>0, <2>2, <3>1, IndexesAddRefused
  <2>3. CASE disk[f].readable /\ disk[f].content \notin Named
    <3>1. /\ errs'[p] = errs[p] \cup {[path |-> f, reason |-> "invalid"]}
          /\ entries'[p] = entries[p]
      BY <1>1, <1>4, <2>3 DEF Opens, ParseError, TypeInv, TypeOK
    <3> QED
      BY <1>3, <1>4, <2>0, <2>3, <3>1, IndexesAddInvalid
  <2> QED
    BY <1>4, <2>1, <2>2, <2>3
<1>7. Present(p)' = Present(p)
  BY <1>2 DEF Present, Candidates
<1>8. /\ Indexes(entries[p], errs[p], Present(p) \ todo[p], disk)'
      /\ Refuses(errs[p], Present(p) \ todo[p], disk)'
  BY <1>2, <1>5, <1>6, <1>7 DEF Indexes, Refuses
<1>9. Refreshed(p)'
  BY <1>2, <1>3, <1>7, <1>8 DEF Refreshed, Validating, Building, Kept
<1>10. \A q \in Proc : q # p =>
         todo'[q] = todo[q] /\ entries'[q] = entries[q] /\ errs'[q] = errs[q]
  BY <1>1 DEF Visit, TypeInv, TypeOK
<1> QED
  BY <1>2, <1>9, <1>10, ProcessRefreshed DEF ParseFile, cacheDir

\* The rest of BuildIndex.
LEMMA BuildRefreshed ==
  ASSUME TypeInv, AccountInv, RefreshInv, NEW p \in Proc,
         DiscoverFails(p) \/ DiscoverDone(p) \/ BeginSave(p)
  PROVE  RefreshInv'
<1>0. Refreshed(p)
  BY DEF RefreshInv
<1>1. CASE DiscoverDone(p)
  <2>1. /\ pc[p] = "discover" /\ todo[p] = {} /\ pc'[p] = "parse" /\ todo'[p] = found[p]
        /\ UNCHANGED <<disk, snapshot, found, entries, errs, quiet>>
    BY <1>1 DEF DiscoverDone, Reached, files, cacheDir, index, TypeInv, TypeOK
  <2>2. entries[p] = {} /\ errs[p] = {}
    BY <2>1 DEF AccountInv, ProcessAccounted, Unparsed
  <2>3. found[p] = Present(p) /\ Present(p)' = Present(p)
    BY <1>0, <2>1 DEF Refreshed, Validating, Present, Candidates
  <2>4. Refreshed(p)'
    BY <2>1, <2>2, <2>3 DEF Refreshed, Validating, Building, Kept, Indexes, Refuses
  <2> QED
    BY <1>1, <2>1, <2>4, ProcessRefreshed DEF DiscoverDone, Reached, cacheDir, index, TypeInv, TypeOK
<1>2. CASE BeginSave(p)
  <2>1. /\ pc[p] = "parse" /\ todo[p] = {} /\ pc'[p] = "rewalk" /\ todo'[p] = Candidates(p)
        /\ snap'[p].paths = {} /\ snap'[p].entries = entries[p] /\ snap'[p].errors = errs[p]
        /\ UNCHANGED <<disk, snapshot, entries, errs, quiet>>
    BY <1>2 DEF BeginSave, Reached, files, cacheDir, index, TypeInv, TypeOK
  <2>2. Present(p)' = Present(p) /\ Present(p) \subseteq Candidates(p)
    BY <2>1 DEF Present, Candidates
  <2>3. Refreshed(p)'
    BY <1>0, <2>1, <2>2
       DEF Refreshed, Validating, Building, Kept, Indexes, Refuses, Candidates
  <2> QED
    BY <1>2, <2>1, <2>3, ProcessRefreshed DEF BeginSave, Reached, cacheDir, TypeInv, TypeOK
<1>3. CASE DiscoverFails(p)
  <2>1. pc'[p] = "done" /\ origin'[p] = "failed" /\ UNCHANGED <<disk, snapshot>>
    BY <1>3 DEF DiscoverFails, Reached, files, cacheDir, TypeInv, TypeOK
  <2>2. Refreshed(p)'
    BY <2>1 DEF Refreshed, Validating, Building, Kept
  <2> QED
    BY <1>3, <2>1, <2>2, ProcessRefreshed DEF DiscoverFails, Reached, cacheDir, TypeInv, TypeOK
<1> QED
  BY <1>1, <1>2, <1>3

\* saveSnapshot: while it walks and stats the files again they are still those
\* that were parsed, so what it writes is faithful.
LEMMA SaveRefreshed ==
  ASSUME TypeInv, RefreshInv, NEW p \in Proc, saveSnapshot(p)
  PROVE  RefreshInv'
<1>0. Refreshed(p)
  BY DEF RefreshInv
<1>1. CASE RewalkFile(p)
  <2>1. PICK f \in todo[p] : RewalkFile(p)!2!(f)
    BY <1>1 DEF RewalkFile
  <2>2. snap[p] \in catalogSnapshot
    BY <1>1 DEF RewalkFile, Holding, TypeInv
  <2>3. /\ pc[p] = "rewalk" /\ pc'[p] = "rewalk" /\ todo'[p] = todo[p] \ {f}
        /\ snap'[p].paths = IF disk[f] = Absent THEN snap[p].paths ELSE snap[p].paths \cup {f}
        /\ snap'[p].entries = snap[p].entries /\ snap'[p].errors = snap[p].errors
        /\ UNCHANGED <<disk, snapshot, entries, errs, quiet>>
    BY <1>1, <2>1, <2>2
       DEF RewalkFile, Visit, files, cacheDir, index, catalogSnapshot, TypeInv, TypeOK
  <2>4. todo[p] \subseteq Candidates(p) /\ snap[p].paths = Present(p) \ todo[p]
    BY <1>0, <2>3 DEF Refreshed, Building
  <2>5. Present(p)' = Present(p)
    BY <2>3 DEF Present, Candidates
  <2>6. snap'[p].paths = Present(p) \ (todo[p] \ {f})
    <3>1. f \in Present(p) <=> disk[f] # Absent
      BY <2>4 DEF Present
    <3> QED
      BY <2>3, <2>4, <3>1
  <2>7. Refreshed(p)'
    BY <1>0, <2>3, <2>4, <2>5, <2>6
       DEF Refreshed, Validating, Building, Kept, Indexes, Refuses, Candidates
  <2> QED
    BY <1>1, <2>1, <2>3, <2>7, ProcessRefreshed DEF RewalkFile, Visit, cacheDir, index, TypeInv, TypeOK
<1>2. CASE RewalkDone(p)
  <2>1. /\ pc[p] = "rewalk" /\ todo[p] = {} /\ pc'[p] = "restat" /\ todo'[p] = snap[p].paths
        /\ UNCHANGED <<disk, snapshot, snap, entries, errs, quiet>>
    BY <1>2 DEF RewalkDone, Reached, files, cacheDir, index, TypeInv, TypeOK
  <2>2. Present(p)' = Present(p)
    BY <2>1 DEF Present, Candidates
  <2>3. Refreshed(p)'
    BY <1>0, <2>1, <2>2 DEF Refreshed, Validating, Building, Kept, Indexes, Refuses
  <2> QED
    BY <1>2, <2>1, <2>3, ProcessRefreshed DEF RewalkDone, Reached, cacheDir, index, TypeInv, TypeOK
<1>3. CASE RestatFile(p)
  <2>1. PICK f \in todo[p] : RestatFile(p)!2!(f)
    BY <1>3 DEF RestatFile
  <2>2. snap[p] \in catalogSnapshot
    BY <1>3 DEF RestatFile, Holding, TypeInv
  <2>3. /\ pc[p] = "restat" /\ pc'[p] = "restat" /\ todo'[p] = todo[p] \ {f}
        /\ UNCHANGED <<disk, snapshot, entries, errs, quiet>>
    BY <1>3, <2>1 DEF RestatFile, Visit, files, cacheDir, index, TypeInv, TypeOK
  <2>4. /\ todo[p] \subseteq Present(p) /\ snap[p].paths = Present(p)
        /\ \A g \in Present(p) \ todo[p] : snap[p].stats[g].content = disk[g].content
    BY <1>0, <2>3 DEF Refreshed, Building
  <2>5. f \in Path /\ disk[f] # Absent
    BY <2>4 DEF Present, Candidates
  <2>6. snap' = [snap EXCEPT ![p].stats[f] = StatOf(f)]
    BY <2>1, <2>5
  <2>7. /\ snap'[p].paths = snap[p].paths /\ snap'[p].entries = snap[p].entries
        /\ snap'[p].errors = snap[p].errors
        /\ snap'[p].stats = [snap[p].stats EXCEPT ![f] = StatOf(f)]
    BY <2>2, <2>6 DEF catalogSnapshot, TypeInv, TypeOK
  <2>8. \A g \in Path : snap'[p].stats[g] = IF g = f THEN StatOf(f) ELSE snap[p].stats[g]
    BY <2>2, <2>7 DEF catalogSnapshot
  <2>9. \A g \in Present(p) \ (todo[p] \ {f}) : snap'[p].stats[g].content = disk[g].content
    BY <2>4, <2>8 DEF StatOf, Present, Candidates
  <2>10. Present(p)' = Present(p)
    BY <2>3 DEF Present, Candidates
  <2>11. Refreshed(p)'
    BY <1>0, <2>3, <2>4, <2>7, <2>9, <2>10
       DEF Refreshed, Validating, Building, Kept, Indexes, Refuses
  <2>12. \A q \in Proc : q # p => snap'[q] = snap[q] /\ todo'[q] = todo[q]
    BY <2>1, <2>6 DEF Visit, TypeInv, TypeOK
  <2> QED
    BY <1>3, <2>3, <2>11, <2>12, ProcessRefreshed DEF RestatFile, cacheDir, index
<1>4. CASE CreateTemp(p)
  <2>1. /\ pc[p] = "restat" /\ todo[p] = {} /\ pc'[p] = "encode"
        /\ UNCHANGED <<disk, snapshot, snap, entries, errs, quiet>>
    BY <1>4 DEF CreateTemp, Reached, files, index, TypeInv, TypeOK
  <2>2. Present(p)' = Present(p)
    BY <2>1 DEF Present, Candidates
  <2>3. Indexes(snap[p].entries, snap[p].errors, Present(p), disk)
    BY <1>0, <2>1 DEF Refreshed, Building
  <2>4. Faithful(snap[p], disk)
    <3>1. snap[p].paths = Present(p) /\ Refuses(snap[p].errors, Present(p), disk)
      BY <1>0, <2>1 DEF Refreshed, Building
    <3>2. \A g \in Present(p) : disk[g].content = snap[p].stats[g].content
      BY <1>0, <2>1 DEF Refreshed, Building
    <3> QED
      BY <2>3, <3>1, <3>2, IndexesSame DEF Faithful, Refuses
  <2>5. Refreshed(p)'
    BY <1>0, <2>1, <2>2, <2>4
       DEF Refreshed, Validating, Building, Kept, Indexes, Refuses, Faithful
  <2> QED
    BY <1>4, <2>1, <2>5, ProcessRefreshed DEF CreateTemp, Reached, index, TypeInv, TypeOK
<1>5. CASE EncodeTemp(p)
  <2>1. /\ pc[p] = "encode" /\ pc'[p] = "rename" /\ temp'[p] = snap[p]
        /\ UNCHANGED <<disk, snapshot, entries, errs, origin, quiet>>
    BY <1>5 DEF EncodeTemp, Reached, files, index, TypeInv, TypeOK
  <2>2. Present(p)' = Present(p)
    BY <2>1 DEF Present, Candidates
  <2>3. Refreshed(p)'
    BY <1>0, <2>1, <2>2 DEF Refreshed, Validating, Building, Kept, Indexes, Refuses, Faithful
  <2> QED
    BY <1>5, <2>1, <2>3, ProcessRefreshed DEF EncodeTemp, Reached, index, TypeInv, TypeOK
<1>6. CASE RenameTemp(p) \/ SaveFails(p)
  <2>1. /\ pc'[p] = "done" /\ UNCHANGED <<disk, entries, errs, origin, quiet>>
        /\ pc[p] \in {"rewalk", "restat", "encode", "rename"}
    BY <1>6 DEF RenameTemp, SaveFails, Saved, Reached, files, index, TypeInv, TypeOK
  <2>2. Present(p)' = Present(p)
    BY <2>1 DEF Present, Candidates
  <2>3. quiet[p] /\ origin[p] # "failed" =>
          /\ Indexes(entries[p], errs[p], Present(p), disk)
          /\ Refuses(errs[p], Present(p), disk)
    BY <1>0, <2>1 DEF Refreshed, Building, Kept
  <2>4. Refreshed(p)'
    <3>1. quiet'[p] /\ origin'[p] # "failed" =>
            /\ Indexes(entries[p], errs[p], Present(p), disk)'
            /\ Refuses(errs[p], Present(p), disk)'
      BY <2>1, <2>2, <2>3 DEF Indexes, Refuses
    <3> QED
      BY <2>1, <3>1 DEF Refreshed, Validating, Building, Kept
  <2>5. snapshot' = snapshot \/ Faithful(snapshot', disk')
    BY <1>0, <1>6, <2>1 DEF RenameTemp, SaveFails, Refreshed, Kept
  <2> QED
    BY <1>6, <2>1, <2>4, <2>5, ProcessRefreshed
       DEF RenameTemp, SaveFails, Saved, Reached, index, TypeInv, TypeOK
<1> QED
  BY <1>1, <1>2, <1>3, <1>4, <1>5, <1>6 DEF saveSnapshot

\* A faithful snapshot stays so: a file that is written gets a time its stat
\* does not have, and one whose permissions change is excepted.
LEMMA EditFaithful ==
  ASSUME FreshMtimes, TypeOK, NEW f \in Path, WriteFile(f) \/ DeleteFile(f) \/ ChangeMode(f),
         NEW s \in catalogSnapshot, Vouches(s.stats, disk, clock), Faithful(s, disk)
  PROVE  Faithful(s, disk')
<1> SUFFICES ASSUME NEW g \in s.paths, s.stats[g] # Absent, disk'[g] # Absent,
                    disk'[g].mtime = s.stats[g].mtime
             PROVE  Refuses(s.errors, {g}, disk')
  BY DEF Faithful
<1>1. g \in Path /\ s.stats[g] \in Stat /\ s.stats[g].mtime <= clock
  BY DEF catalogSnapshot, Vouches
<1>2. s.stats[g].mtime \in Nat /\ clock \in Nat
  BY <1>1, CatalogAssumption DEF Stat, TypeOK
<1>3. CASE disk'[g] = disk[g]
  BY <1>3 DEF Faithful, Refuses
<1>4. CASE disk'[g] # disk[g]
  <2>1. g = f
    BY <1>1, <1>4 DEF WriteFile, DeleteFile, ChangeMode, TypeOK
  <2>2. CASE WriteFile(f)
    <3>1. PICK c, m, file :
            /\ c \in Content /\ m \in {clock, clock + 1} /\ file \in NewFiles(f, c, m)
            /\ FreshMtimes => m = clock + 1
            /\ disk' = [disk EXCEPT ![f] = file]
      BY <2>2 DEF WriteFile
    <3>2. m = clock + 1 /\ m \in Nat
      BY <1>2, <3>1
    <3>3. file.mtime = clock + 1
      BY <3>1, <3>2, NewFileType
    <3>4. disk'[g].mtime = clock + 1
      BY <2>1, <3>1, <3>3 DEF TypeOK
    <3> QED
      BY <1>1, <1>2, <3>4
  <2>3. CASE DeleteFile(f)
    BY <2>1, <2>3 DEF DeleteFile, TypeOK
  <2>4. CASE ChangeMode(f)
    BY <1>1, <2>1, <2>4, ModeChanged DEF Refuses
  <2> QED
    BY <2>2, <2>3, <2>4
<1> QED
  BY <1>3, <1>4

\* Nobody edits a file that is being indexed, and an edit of another leaves
\* what a process found of its own files as it is, or it is not quiet.
\* Permissions may change at any time: the index still has the contents.
LEMMA EditRefreshed ==
  ASSUME FreshMtimes, QuietBuilds, TypeInv, StatsInv, RefreshInv, NEW f \in Path,
         WriteFile(f) \/ DeleteFile(f) \/ ChangeMode(f)
  PROVE  RefreshInv'
<1>1. UNCHANGED <<snapshot, temp, pc, todo, found, snap, entries, errs, origin>>
  BY DEF WriteFile, DeleteFile, ChangeMode, cacheDir, index
<1>2. \A g \in Path : g # f => disk'[g] = disk[g]
  BY DEF WriteFile, DeleteFile, ChangeMode, TypeInv, TypeOK
<1>5. \A s \in catalogSnapshot :
        Vouches(s.stats, disk, clock) /\ Faithful(s, disk) => Faithful(s, disk')
  BY EditFaithful DEF TypeInv
<1>3. ASSUME NEW p \in Proc PROVE Refreshed(p)'
  <2>0. Refreshed(p)
    BY DEF RefreshInv
  <2>1. quiet'[p] <=> quiet[p] /\ f \notin Candidates(p)
    BY DEF WriteFile, DeleteFile, ChangeMode, Touched
  <2>5. /\ pc'[p] \in {"within", "walk", "stat", "encode"} => Faithful(snap'[p], disk')
        /\ pc'[p] = "rename" => Faithful(temp'[p], disk')
    <3>1. CASE pc[p] \in {"within", "walk", "stat", "encode"}
      <4>1. snap[p] \in catalogSnapshot /\ Faithful(snap[p], disk)
        BY <2>0, <3>1 DEF Refreshed, Kept, TypeInv, Holding
      <4>2. Faithful(snap[p], disk')
        BY <1>5, <4>1 DEF StatsInv
      <4> QED
        BY <1>1, <3>1, <4>2
    <3>2. CASE pc[p] = "rename"
      <4>1. temp[p] \in catalogSnapshot /\ Faithful(temp[p], disk)
        BY <2>0, <3>2 DEF Refreshed, Kept, TypeInv
      <4>2. Faithful(temp[p], disk')
        BY <1>5, <4>1 DEF StatsInv
      <4> QED
        BY <1>1, <3>2, <4>2
    <3> QED
      BY <1>1, <3>1, <3>2
  <2>2. CASE f \in Candidates(p) /\ ~ChangeMode(f)
    <3>1. ~quiet'[p] /\ pc[p] \notin {"discover", "parse", "rewalk", "restat"}
      BY <2>1, <2>2 DEF WriteFile, DeleteFile, MayEdit, IndexingPhase
    <3> QED
      BY <1>1, <2>0, <2>5, <3>1 DEF Refreshed, Validating, Building, Kept, Candidates
  <2>3. CASE f \notin Candidates(p) \/ ChangeMode(f)
    <3>1. \A g \in Candidates(p) : disk'[g] = Absent <=> disk[g] = Absent
      BY <1>2, <2>3, ModeChanged DEF Candidates, TypeInv
    <3>2. Present(p)' = Present(p)
      BY <3>1 DEF Present, Candidates
    <3>3. \A g \in Present(p) : /\ disk[g].content = disk'[g].content
                                /\ disk'[g] = disk[g] \/ disk'[g].switched
      BY <1>2, <2>3, ModeChanged DEF Present, Candidates, TypeInv
    <3>4. quiet'[p] => quiet[p] /\ \A g \in Present(p) : disk'[g] = disk[g]
      BY <1>2, <2>1 DEF Present, Candidates
    <3>5. \A E, X, F : F \subseteq Present(p) /\ Indexes(E, X, F, disk) => Indexes(E, X, F, disk')
      BY <3>3, IndexesSame
    <3>6. \A X, F : F \subseteq Present(p) /\ Refuses(X, F, disk) => Refuses(X, F, disk')
      BY <3>3 DEF Refuses
    <3>7. Validating(p)'
      BY <1>1, <2>0, <3>2, <3>4 DEF Refreshed, Validating, Candidates
    <3>8. Building(p)'
      <4>1. CASE pc[p] = "parse"
        <5>1. /\ Indexes(entries[p], errs[p], Present(p) \ todo[p], disk')
              /\ Refuses(errs[p], Present(p) \ todo[p], disk')
          BY <2>0, <3>5, <3>6, <4>1 DEF Refreshed, Building
        <5> QED
          BY <1>1, <2>0, <3>2, <4>1, <5>1 DEF Refreshed, Building, Indexes, Refuses
      <4>2. CASE pc[p] \in {"rewalk", "restat"}
        <5>1. /\ Indexes(entries[p], errs[p], Present(p), disk')
              /\ Refuses(errs[p], Present(p), disk')
          BY <2>0, <3>5, <3>6, <4>2 DEF Refreshed, Building
        <5>2. /\ Indexes(entries[p], errs[p], Present(p), disk)'
              /\ Refuses(errs[p], Present(p), disk)'
          BY <1>1, <3>2, <5>1 DEF Indexes, Refuses
        <5>3. pc[p] = "restat" =>
                \A g \in Present(p) \ todo[p] : snap[p].stats[g].content = disk'[g].content
          BY <2>0, <3>3 DEF Refreshed, Building
        <5> QED
          BY <1>1, <2>0, <3>2, <4>2, <5>2, <5>3 DEF Refreshed, Building, Candidates
      <4>3. CASE pc[p] \notin {"parse", "rewalk", "restat"}
        BY <1>1, <4>3 DEF Building
      <4> QED
        BY <4>1, <4>2, <4>3
    <3>9. Kept(p)'
      <4>1. quiet'[p] /\ pc[p] \in {"encode", "rename", "done"} /\ origin[p] # "failed" =>
              /\ Indexes(entries[p], errs[p], Present(p), disk')
              /\ Refuses(errs[p], Present(p), disk')
        BY <2>0, <2>1, <3>5, <3>6 DEF Refreshed, Kept
      <4>2. quiet'[p] /\ pc[p] \in {"encode", "rename", "done"} /\ origin[p] # "failed" =>
              /\ Indexes(entries[p], errs[p], Present(p), disk)'
              /\ Refuses(errs[p], Present(p), disk)'
        BY <1>1, <3>2, <4>1 DEF Indexes, Refuses
      <4> QED
        BY <1>1, <2>5, <4>2 DEF Kept
    <3> QED
      BY <3>7, <3>8, <3>9 DEF Refreshed
  <2> QED
    BY <2>2, <2>3
<1>4. snapshot' \in catalogSnapshot => Faithful(snapshot', disk')
  BY <1>1, <1>5 DEF RefreshInv, StatsInv
<1> QED
  BY <1>3, <1>4 DEF RefreshInv

\* Every step keeps snapshots faithful and indexes fresh.
LEMMA NextRefresh ==
  ASSUME FreshMtimes, QuietBuilds
  PROVE  TypeInv /\ StatsInv /\ AccountInv /\ RefreshInv /\ [Next]_vars => RefreshInv'
<1> SUFFICES ASSUME TypeInv, StatsInv, AccountInv, RefreshInv, [Next]_vars
             PROVE  RefreshInv'
  OBVIOUS
<1>1. ASSUME NEW p \in Proc, SnapshotUnusable(p) \/ WalkFails(p) PROVE RefreshInv'
  BY <1>1, RejectRefreshed DEF SnapshotUnusable, WalkFails
<1>2. ASSUME NEW p \in Proc, Exit(p) \/ Crash(p) PROVE RefreshInv'
  <2>1. pc'[p] = "idle" /\ found'[p] = {} /\ UNCHANGED <<disk, snapshot>>
    BY <1>2 DEF Exit, Crash, Forget, Reached, files, cacheDir, TypeInv, TypeOK
  <2>2. Refreshed(p)'
    BY <2>1 DEF Refreshed, Validating, Building, Kept
  <2> QED
    BY <1>2, <2>1, <2>2, ProcessRefreshed DEF Exit, Crash, Forget, Reached, cacheDir, TypeInv, TypeOK
<1>3. CASE UNCHANGED vars
  <2>1. UNCHANGED <<disk, snapshot, temp, pc, todo, found, snap, entries, errs, origin, quiet>>
    BY <1>3 DEF vars, files, cacheDir, index
  <2>2. \A p \in Proc : Refreshed(p)'
    BY <2>1, OthersRefreshed DEF RefreshInv
  <2>3. snapshot' \in catalogSnapshot => Faithful(snapshot', disk')
    BY <2>1 DEF RefreshInv
  <2> QED
    BY <2>2, <2>3 DEF RefreshInv
<1> QED
  BY <1>1, <1>2, <1>3, WalkRefreshed, ValidateRefreshed, ParseRefreshed, BuildRefreshed,
     SaveRefreshed, EditRefreshed
     DEF Next, tryLoadIndex, loadSnapshot, BuildIndex

\* What an index of the present files holds.
LEMMA IndexEntries ==
  ASSUME TypeInv, NEW p \in Proc,
         Indexes(entries[p], errs[p], Present(p), disk), Refuses(errs[p], Present(p), disk)
  PROVE  /\ entries[p] \subseteq WrittenEntries(p)
         /\ Steady(entries[p]) = Steady(CurrentEntries(p))
<1>1. \A f \in Present(p) : f \in Path /\ disk[f] # Absent /\ disk[f].content \in Content
                            /\ disk[f].readable \in BOOLEAN
  BY DEF Present, Candidates, TypeInv, TypeOK, File
<1>2. ASSUME NEW e \in entries[p]
      PROVE  e \in WrittenEntries(p) /\ e.path \in Present(p) /\ Refused(e.path) \notin errs[p]
  <2>1. e \in Entry
    BY DEF TypeInv, TypeOK
  <2>2. e = [path |-> e.path, content |-> disk[e.path].content]
    BY <2>1 DEF Indexes, Entry
  <2>3. e.path \in {g \in Present(p) : disk[g].content \in Named}
    BY <2>1, <2>2 DEF Indexes
  <2> QED
    BY <2>1, <2>2, <2>3 DEF WrittenEntries, Indexes
<1>3. ASSUME NEW e \in WrittenEntries(p)
      PROVE  /\ e.path \in Present(p)
             /\ Refused(e.path) \notin errs[p] => e \in entries[p]
  <2>1. PICK f \in Present(p) : /\ disk[f].content \in Named
                                /\ e = [path |-> f, content |-> disk[f].content]
    BY DEF WrittenEntries
  <2>2. e \in Entry /\ e.path = f /\ e.content = disk[f].content
    BY <1>1, <2>1 DEF Entry
  <2> QED
    BY <2>1, <2>2 DEF Indexes
<1>4. ASSUME NEW e, e.path \in Present(p), ~disk[e.path].switched
      PROVE  Refused(e.path) \in errs[p] <=> ~disk[e.path].readable
  BY <1>4 DEF Refuses
<1>5. ASSUME NEW e \in Steady(entries[p]) PROVE e \in Steady(CurrentEntries(p))
  BY <1>1, <1>2, <1>4 DEF Steady, CurrentEntries
<1>6. ASSUME NEW e \in Steady(CurrentEntries(p)) PROVE e \in Steady(entries[p])
  BY <1>1, <1>3, <1>4 DEF Steady, CurrentEntries
<1> QED
  BY <1>2, <1>5, <1>6

LEMMA IndexErrors ==
  ASSUME TypeInv, NEW p \in Proc,
         Indexes(entries[p], errs[p], Present(p), disk), Refuses(errs[p], Present(p), disk)
  PROVE  /\ Steady(errs[p]) = Steady(CurrentErrors(p))
         /\ {e.path : e \in entries[p]} \cup {r.path : r \in errs[p]} = Present(p)
         /\ {e.path : e \in entries[p]} \cap {r.path : r \in errs[p]} = {}
<1>1. \A f \in Present(p) : f \in Path /\ disk[f] # Absent /\ disk[f].content \in Content
                            /\ disk[f].readable \in BOOLEAN
  BY DEF Present, Candidates, TypeInv, TypeOK, File
<1>2. entries[p] \subseteq Entry /\ errs[p] \subseteq CatalogError
  BY DEF TypeInv, TypeOK
<1> DEFINE Invalid(f) == [path |-> f, reason |-> "invalid"]
<1>3. \A f \in Path : /\ Refused(f) \in CatalogError /\ Invalid(f) \in CatalogError
                      /\ Refused(f).path = f /\ Invalid(f).path = f
                      /\ Invalid(f).reason = "invalid" /\ Refused(f) # Invalid(f)
  BY DEF Refused, CatalogError
<1>4. \A r \in CatalogError : r.reason = "invalid" => r = Invalid(r.path)
  BY DEF CatalogError
<1>5. \A f \in Present(p) :
        ParseError(f) = IF disk[f].readable THEN Invalid(f) ELSE Refused(f)
  BY <1>1 DEF ParseError, Refused
<1> HIDE DEF Invalid
<1>6. \A f \in Present(p) :
        Invalid(f) \in errs[p] <=> disk[f].content \notin Named /\ Refused(f) \notin errs[p]
  BY <1>1, <1>3 DEF Indexes
<1>7. \A r \in errs[p] : r.path \in Present(p) /\ (r = Refused(r.path) \/ r = Invalid(r.path))
  BY <1>2, <1>4 DEF Indexes
<1>8. \A f \in Present(p) :
        ~disk[f].switched => (Refused(f) \in errs[p] <=> ~disk[f].readable)
  BY DEF Refuses
<1>9. ASSUME NEW r \in Steady(errs[p]) PROVE r \in Steady(CurrentErrors(p))
  <2>1. /\ r \in errs[p] /\ r.path \in Present(p) /\ disk[r.path] # Absent
        /\ ~disk[r.path].switched
    BY <1>1, <1>7 DEF Steady
  <2>2. r = ParseError(r.path)
    BY <1>1, <1>3, <1>5, <1>6, <1>7, <1>8, <2>1
  <2>3. ~(Opens(r.path) /\ disk[r.path].content \in Named)
    BY <1>1, <1>3, <1>6, <1>7, <1>8, <2>1 DEF Opens
  <2>4. r \in CurrentErrors(p)
    BY <2>1, <2>2, <2>3 DEF CurrentErrors
  <2> QED
    BY <2>1, <2>4 DEF Steady
<1>10. ASSUME NEW r \in Steady(CurrentErrors(p)) PROVE r \in Steady(errs[p])
  <2>1. PICK f \in Present(p) : r = ParseError(f) /\ ~(Opens(f) /\ disk[f].content \in Named)
    BY DEF Steady, CurrentErrors
  <2>2. r.path = f
    BY <2>1 DEF ParseError
  <2>3. ~disk[f].switched
    BY <1>1, <2>1, <2>2 DEF Steady
  <2>4. r \in errs[p]
    BY <1>1, <1>5, <1>6, <1>8, <2>1, <2>3 DEF Opens
  <2> QED
    BY <2>2, <2>3, <2>4 DEF Steady
<1>11. \A e \in entries[p] : /\ e.path \in Present(p) /\ disk[e.path].content \in Named
                             /\ Refused(e.path) \notin errs[p]
  BY <1>2 DEF Indexes
<1>12. ASSUME NEW f \in Present(p), disk[f].content \in Named, Refused(f) \notin errs[p]
       PROVE  \E e \in entries[p] : e.path = f
  <2>1. [path |-> f, content |-> disk[f].content] \in Entry
    BY <1>1 DEF Entry
  <2>2. [path |-> f, content |-> disk[f].content] \in entries[p]
    BY <1>12, <2>1 DEF Indexes
  <2> QED
    BY <2>2
<1>13. \A f \in Present(p) :
         f \in {e.path : e \in entries[p]} \/ f \in {r.path : r \in errs[p]}
  <2> SUFFICES ASSUME NEW f \in Present(p), f \notin {e.path : e \in entries[p]}
               PROVE  \E r \in errs[p] : r.path = f
    OBVIOUS
  <2>1. Refused(f) \in errs[p] \/ Invalid(f) \in errs[p]
    BY <1>6, <1>12
  <2> QED
    BY <1>1, <1>3, <2>1
<1>14. ASSUME NEW e \in entries[p], NEW r \in errs[p] PROVE e.path # r.path
  BY <1>6, <1>7, <1>11
<1> QED
  BY <1>7, <1>9, <1>10, <1>11, <1>13, <1>14

\* The invariants together.
LEMMA RefreshInvariant ==
  ASSUME FreshMtimes, QuietBuilds
  PROVE  Spec => [](TypeInv /\ RefreshInv)
<1>1. TypeInv /\ StatsInv /\ AccountInv /\ RefreshInv /\ [Next]_vars => RefreshInv'
  BY NextRefresh
<1> QED
  BY <1>1, InitType, NextType, InitStats, NextStats, InitAccount, NextAccount, InitRefresh,
     PTL DEF Spec

\* Where a write always gets a modification time of its own and nobody edits a
\* file while it is being indexed, a restart refreshes the metadata
\* (docs/MCP_CONTRACT.md:143), whatever snapshot any number of other processes,
\* crashes and earlier edits left in the cache directory, and with permissions
\* that come and go: every entry has the content of its file, and nothing is
\* missing or too much but for files whose permissions changed since they were
\* written, which no stat shows (snapshot.go:92).
THEOREM RestartAlwaysRefreshes == FreshMtimes /\ QuietBuilds => (Spec => []RestartRefreshes)
<1> SUFFICES ASSUME FreshMtimes, QuietBuilds PROVE Spec => []RestartRefreshes
  OBVIOUS
<1>1. TypeInv /\ RefreshInv => RestartRefreshes
  BY IndexEntries DEF RefreshInv, Refreshed, Kept, RestartRefreshes, Undisturbed
<1>2. Spec => [](TypeInv /\ RefreshInv)
  BY RefreshInvariant
<1> QED
  BY <1>1, <1>2, PTL

\* The same of the errors that a start logs as catalog warnings; and each file
\* is listed or warned about, whatever became of its permissions.
THEOREM RestartAlwaysRefreshesErrors ==
  FreshMtimes /\ QuietBuilds => (Spec => []RestartRefreshesErrors)
<1> SUFFICES ASSUME FreshMtimes, QuietBuilds PROVE Spec => []RestartRefreshesErrors
  OBVIOUS
<1>1. TypeInv /\ RefreshInv => RestartRefreshesErrors
  BY IndexErrors DEF RefreshInv, Refreshed, Kept, RestartRefreshesErrors, Undisturbed
<1>2. Spec => [](TypeInv /\ RefreshInv)
  BY RefreshInvariant
<1> QED
  BY <1>1, <1>2, PTL

-----------------------------------------------------------------------------
(* A start never goes back *)

Advances(p) ==
  \/ Place[pc[p]] < Place[pc'[p]]
  \/ pc'[p] = pc[p] /\ todo'[p] \subseteq todo[p] /\ todo'[p] # todo[p]

LEMMA ReachesLater ==
  ASSUME TypeInv, NEW p \in Proc, NEW phase \in Phase, NEW work, Reached(p, phase, work),
         Place[pc[p]] < Place[phase]
  PROVE  Advances(p)
BY DEF TypeInv, TypeOK, Reached, Advances

LEMMA VisitsLess ==
  ASSUME TypeInv, NEW p \in Proc, NEW f \in todo[p], Visit(p, f), UNCHANGED pc
  PROVE  Advances(p)
BY DEF TypeInv, TypeOK, Visit, Advances

LEMMA StartAdvances ==
  ASSUME TypeInv, NEW p \in Proc, tryLoadIndex(p)
  PROVE  Advances(p)
<1>1. \A work : Reached(p, "discover", work) /\ pc[p] \in {"open", "within", "walk", "stat"}
                  => Advances(p)
  BY ReachesLater DEF Place, Phase
<1>2. ASSUME Reject(p), pc[p] \in {"open", "within", "walk", "stat"} PROVE Advances(p)
  BY <1>1, <1>2 DEF Reject
<1>3. CASE loadSnapshot(p)
  <2>1. CASE OpenSnapshot(p)
    BY <2>1, ReachesLater DEF OpenSnapshot, Place, Phase
  <2>2. CASE SnapshotUnusable(p)
    BY <1>2, <2>2 DEF SnapshotUnusable
  <2>3. CASE CheckEntryWithin(p)
    BY <1>2, <2>3, VisitsLess DEF CheckEntryWithin
  <2>4. CASE EntriesWithin(p)
    BY <2>4, ReachesLater DEF EntriesWithin, Place, Phase
  <2>8. CASE WalkFails(p)
    BY <1>2, <2>8 DEF WalkFails
  <2>5. CASE CompareFiles(p)
    BY <1>2, <2>5, ReachesLater DEF CompareFiles, Place, Phase
  <2>6. CASE CheckFile(p)
    BY <1>2, <2>6, VisitsLess DEF CheckFile
  <2>7. CASE AcceptSnapshot(p)
    BY <2>7, ReachesLater DEF AcceptSnapshot, Place, Phase
  <2> QED
    BY <1>3, <2>1, <2>2, <2>3, <2>4, <2>5, <2>6, <2>7, <2>8 DEF loadSnapshot
<1>4. CASE WalkFile(p)
  BY <1>4, VisitsLess DEF WalkFile
<1>5. CASE BuildIndex(p)
  <2>1. CASE DiscoverDone(p)
    BY <2>1, ReachesLater DEF DiscoverDone, Place, Phase
  <2>4. CASE DiscoverFails(p)
    BY <2>4, ReachesLater DEF DiscoverFails, Place, Phase
  <2>2. CASE ParseFile(p)
    BY <2>2, VisitsLess DEF ParseFile
  <2>3. CASE BeginSave(p)
    BY <2>3, ReachesLater DEF BeginSave, Place, Phase
  <2> QED
    BY <1>5, <2>1, <2>2, <2>3, <2>4 DEF BuildIndex
<1>6. CASE saveSnapshot(p)
  <2>1. CASE RewalkFile(p)
    BY <2>1, VisitsLess DEF RewalkFile
  <2>2. CASE RewalkDone(p)
    BY <2>2, ReachesLater DEF RewalkDone, Place, Phase
  <2>3. CASE RestatFile(p)
    BY <2>3, VisitsLess DEF RestatFile
  <2>4. CASE CreateTemp(p)
    BY <2>4, ReachesLater DEF CreateTemp, Place, Phase
  <2>5. CASE EncodeTemp(p)
    BY <2>5, ReachesLater DEF EncodeTemp, Place, Phase
  <2>6. CASE RenameTemp(p)
    BY <2>6, ReachesLater DEF RenameTemp, Saved, Place, Phase
  <2>7. CASE SaveFails(p)
    BY <2>7, ReachesLater DEF SaveFails, Saved, Place, Phase
  <2> QED
    BY <1>6, <2>1, <2>2, <2>3, <2>4, <2>5, <2>6, <2>7 DEF saveSnapshot
<1> QED
  BY <1>3, <1>4, <1>5, <1>6 DEF tryLoadIndex

\* What a step of one process does to the place of another: nothing.
LEMMA OthersStay ==
  ASSUME TypeInv, NEW p \in Proc, Start(p) \/ tryLoadIndex(p) \/ Exit(p) \/ Crash(p),
         NEW q \in Proc, q # p
  PROVE  pc'[q] = pc[q] /\ todo'[q] = todo[q]
<1>1. \/ \E phase, work : Reached(p, phase, work)
      \/ \E f : Visit(p, f) /\ UNCHANGED pc
  <2>1. CASE Start(p) \/ Exit(p) \/ Crash(p)
    BY <2>1 DEF Start, Exit, Crash, Forget
  <2>2. CASE loadSnapshot(p)
    BY <2>2 DEF loadSnapshot, OpenSnapshot, SnapshotUnusable, CheckEntryWithin, EntriesWithin,
                WalkFails, CompareFiles, CheckFile, AcceptSnapshot, Reject
  <2>3. CASE WalkFile(p) \/ BuildIndex(p)
    BY <2>3 DEF WalkFile, BuildIndex, DiscoverFails, DiscoverDone, ParseFile, BeginSave
  <2>4. CASE saveSnapshot(p)
    BY <2>4 DEF saveSnapshot, RewalkFile, RewalkDone, RestatFile, CreateTemp, EncodeTemp,
                RenameTemp, SaveFails, Saved
  <2> QED
    BY <2>1, <2>2, <2>3, <2>4 DEF tryLoadIndex
<1> QED
  BY <1>1 DEF TypeInv, TypeOK, Reached, Visit

\* For any number of processes and files, and whatever is edited, replaced or
\* killed meanwhile: a start goes from phase to phase, never back, and in each
\* visits a file at most once.  So it ends after finitely many steps.
THEOREM StartsAlwaysAdvance == Spec => StartsOnlyAdvance
<1>1. TypeInv /\ [Next]_vars =>
        [\A p \in Proc : tryLoadIndex(p) \/ <<pc'[p], todo'[p]>> # <<pc[p], todo[p]>> =>
           \/ pc[p] = "idle"
           \/ Place[pc[p]] < Place[pc'[p]]
           \/ pc'[p] = pc[p] /\ todo'[p] \subseteq todo[p] /\ todo'[p] # todo[p]]_vars
  <2> SUFFICES ASSUME TypeInv, Next, NEW p \in Proc,
                      tryLoadIndex(p) \/ <<pc'[p], todo'[p]>> # <<pc[p], todo[p]>>,
                      pc[p] # "idle"
               PROVE  Advances(p)
    BY DEF vars, Advances
  <2>1. CASE tryLoadIndex(p)
    BY <2>1, StartAdvances
  <2>2. CASE <<pc'[p], todo'[p]>> # <<pc[p], todo[p]>>
    <3>1. PICK q \in Proc : Start(q) \/ tryLoadIndex(q) \/ Exit(q) \/ Crash(q)
      BY <2>2 DEF Next, WriteFile, DeleteFile, ChangeMode
    <3>2. q = p
      BY <2>2, <3>1, OthersStay
    <3>3. CASE Exit(p) \/ Crash(p)
      <4>1. Reached(p, "idle", {})
        BY <3>3 DEF Exit, Crash, Forget
      <4>2. Place[pc[p]] < Place["idle"]
        BY DEF TypeInv, TypeOK, Phase, Place
      <4> QED
        BY <4>1, <4>2, ReachesLater DEF Phase
    <3> QED
      BY <3>1, <3>2, <3>3, StartAdvances DEF Start
  <2> QED
    BY <2>1, <2>2
<1>2. Spec => []TypeInv
  BY InitType, NextType, PTL DEF Spec
<1> QED
  BY <1>1, <1>2, PTL DEF Spec, StartsOnlyAdvance

\* How many steps a start has left at most: a loop over all files in each of
\* the later phases.
StepsLeft(p) == (12 - Place[pc[p]]) * (Cardinality(Path) + 1) + Cardinality(todo[p])

LEMMA PhasesCount ==
  ASSUME NEW a \in Nat, NEW b \in Nat, a < b, NEW n \in Nat, NEW k \in 0 .. n, NEW l \in Nat
  PROVE  a * (n + 1) + k < b * (n + 1) + l
<1>1. PICK d \in Nat : b = a + 1 + d
  <2>1. b - a - 1 \in Nat /\ b = a + 1 + (b - a - 1)
    OBVIOUS
  <2> QED
    BY <2>1
<1>2. b * (n + 1) = a * (n + 1) + (n + 1) + d * (n + 1)
  BY <1>1
<1>3. d * (n + 1) \in Nat /\ a * (n + 1) \in Nat
  OBVIOUS
<1> QED
  BY <1>2, <1>3

StepsCounted(p) ==
  /\ 12 - Place[pc[p]] \in Nat /\ Cardinality(Path) \in Nat
  /\ IsFiniteSet(todo[p]) /\ Cardinality(todo[p]) \in 0 .. Cardinality(Path)
  /\ StepsLeft(p) \in 0 .. 12 * (Cardinality(Path) + 1)

LEMMA StepsLeftType == TypeInv => \A p \in Proc : StepsCounted(p)
<1> SUFFICES ASSUME TypeInv, NEW p \in Proc PROVE StepsCounted(p)
  OBVIOUS
<1>1. Place[pc[p]] \in 1 .. 12
  BY DEF TypeInv, TypeOK, Phase, Place
<1>2. IsFiniteSet(Path) /\ Cardinality(Path) \in Nat
  BY CatalogAssumption, FS_CardinalityType
<1>3. todo[p] \in SUBSET Path
  BY DEF TypeInv, TypeOK
<1>4. IsFiniteSet(todo[p]) /\ Cardinality(todo[p]) <= Cardinality(Path)
  BY <1>2, <1>3, FS_Subset
<1>5. Cardinality(todo[p]) \in Nat
  BY <1>4, FS_CardinalityType
<1> DEFINE n == Cardinality(Path)
<1> DEFINE a == 12 - Place[pc[p]]
<1>6. a \in 0 .. 11 /\ n \in Nat
  BY <1>1, <1>2
<1>7. a * (n + 1) + Cardinality(todo[p]) < 12 * (n + 1) + 0
  BY <1>4, <1>5, <1>6, PhasesCount
<1>8. a * (n + 1) \in Nat
  BY <1>6
<1> HIDE DEF a
<1> QED
  BY <1>2, <1>4, <1>5, <1>6, <1>7, <1>8 DEF StepsLeft, StepsCounted, a

\* Each step of a start leaves fewer, and it has at most twelve times as many
\* as there are files and one: what fairness has to provide is finite.
THEOREM StartsAreBounded ==
  Spec => [][\A p \in Proc : tryLoadIndex(p) =>
               /\ StepsLeft(p) \in 0 .. 12 * (Cardinality(Path) + 1)
               /\ StepsLeft(p)' \in 0 .. StepsLeft(p) - 1]_vars
<1>0. TypeInv' => (\A p \in Proc : StepsCounted(p))'
  BY StepsLeftType, PTL
<1>1. ASSUME TypeInv, TypeInv', NEW p \in Proc, tryLoadIndex(p)
      PROVE  /\ StepsLeft(p) \in 0 .. 12 * (Cardinality(Path) + 1)
             /\ StepsLeft(p)' \in 0 .. StepsLeft(p) - 1
  <2> DEFINE n == Cardinality(Path)
  <2> DEFINE a == 12 - Place[pc[p]]
  <2> DEFINE b == 12 - Place[pc'[p]]
  <2> DEFINE k == Cardinality(todo[p])
  <2> DEFINE l == Cardinality(todo'[p])
  <2>1. /\ a \in Nat /\ n \in Nat /\ k \in 0 .. n
        /\ StepsLeft(p) \in 0 .. 12 * (n + 1) /\ IsFiniteSet(todo[p])
    BY <1>1, StepsLeftType DEF StepsCounted
  <2>2. b \in Nat /\ l \in 0 .. n /\ StepsLeft(p)' \in Nat
    BY <1>0, <1>1 DEF StepsCounted
  <2>3. StepsLeft(p) = a * (n + 1) + k /\ StepsLeft(p)' = b * (n + 1) + l
    BY DEF StepsLeft
  <2>4. Advances(p)
    BY <1>1, StartAdvances
  <2>5. CASE Place[pc[p]] < Place[pc'[p]]
    <3>1. b < a
      BY <1>1, <2>5 DEF TypeInv, TypeOK, Phase, Place
    <3> HIDE DEF n, a, b, k, l
    <3>2. b * (n + 1) + l < a * (n + 1) + k
      BY <2>1, <2>2, <3>1, PhasesCount
    <3> QED
      BY <2>1, <2>2, <2>3, <3>2 DEF n
  <2>6. CASE pc'[p] = pc[p] /\ todo'[p] \subseteq todo[p] /\ todo'[p] # todo[p]
    <3>1. b = a
      BY <2>6
    <3>2. l < k
      <4>1. todo'[p] \in SUBSET todo[p]
        BY <2>6
      <4>2. l <= k /\ l # k
        BY <2>1, <2>6, <4>1, FS_Subset
      <4> QED
        BY <2>1, <2>2, <4>2
    <3>3. a * (n + 1) \in Nat
      BY <2>1
    <3> HIDE DEF n, a, b, k, l
    <3> QED
      BY <2>1, <2>2, <2>3, <3>1, <3>2, <3>3 DEF n
  <2> QED
    BY <2>4, <2>5, <2>6 DEF Advances
<1>2. Spec => []TypeInv
  BY InitType, NextType, PTL DEF Spec
<1>3. TypeInv /\ TypeInv' =>
        \A p \in Proc : tryLoadIndex(p) =>
          /\ StepsLeft(p) \in 0 .. 12 * (Cardinality(Path) + 1)
          /\ StepsLeft(p)' \in 0 .. StepsLeft(p) - 1
  BY <1>1
<1> QED
  BY <1>2, <1>3, PTL
=============================================================================
