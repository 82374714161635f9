# A TLA+ verification project for SkillLoader

SkillLoader serves agent skills (`SKILL.md` files) over MCP: `search_skills` finds a skill by
its metadata, `load_skill` returns the whole document. Beside the Go program the repository keeps
the Gate 6 runners, Python programs that run a client over a task fixture, score what it did and
keep the evidence. This directory holds TLA+ models of both, TLC configurations, and proofs.

## 1. The system

| Component | Source | State | Operations | Talks to |
|---|---|---|---|---|
| Discovery and parsing | `catalog.go` | none of its own | `DiscoverSkills`, `ParseSkill`, `BuildIndex`, `tryLoadIndex`, `readTrustedFile` | skill files, snapshot |
| Catalog snapshot | `snapshot.go` | `catalog.gob` in the user's cache directory | `loadSnapshot`, `saveSnapshot`, `clearSnapshot` | skill files; every other SkillLoader process of the user |
| Document cache | `cache.go` | `docs`, `indexHash`, a mutex | `GetDocument`, `SetDocument`, two invalidations, `StoreIndex` | loader, server |
| Skill loader | `loader.go` | index, roots | `Load`, `lookup` | cache, skill files |
| Search engine | `search.go` | index | eight layers from `tokenize` to the ranked answer | server |
| MCP server | `main.go` | the above, for one process | two tool handlers, each with a known hash sent by the client | client |
| `list`, `doctor` | `main.go`, `doctor.go` | none | print the catalog, or a report on it | discovery, snapshot |
| Codex runner: scoring | `scripts/run_gate6_codex.py` | none | `score_run` | event streams |
| Codex runner: evidence | same | a directory of seven kinds of files | `main`, `rescore_existing` | the client, the repository's fixtures |
| Claude Code runner | `scripts/run_gate6_claude_code.py` | a directory of evidence | `main` | the client |
| Parity verifier | `scripts/verify_parity.py` | none | compares answers | the binary |
| Packaging | `scripts/*.sh`, `packages/` | none | build, install, smoke test | |

What is hard, and what makes each part correct:

* **Catalog and snapshot.** Files change between the walk and the parse, between the parse and
  the stats that go into the snapshot, and between the checks that accept one. Processes share one
  snapshot file without a lock, and any of them can be killed. Correct: a start ends with the
  index of the files as they are; no discovered file is lost; nobody reads half a snapshot;
  temporary files go away.
* **Loader and cache.** Tool calls run concurrently. `GetDocument` gives up its lock between finding
  a document stale and evicting it, and a cache hit skips the frontmatter checks. Correct: each
  answer is one the files called for at some moment of the call, as if there were no cache.
* **Search.** Filters, an unstable sort, deduplication and the limit follow one another, and the
  order matters. Correct: one answer for one index and query, and the best entries in it.
* **Server.** A client keeps hashes across restarts and edits. Correct: "cached" is said only when
  what the client holds is current, and a name a search offers can be loaded.
* **Reading a file.** `readTrustedFile` resolves links by name for its check and again from a handle
  for the read, and anybody may switch them in between. Correct: what is read is inside a root, and
  a refusal has a reason.
* **Scoring.** Events of parallel calls come in any order and may be cut off by the timeout.
  Correct: a run scores a success exactly when it was one.
* **Evidence.** The Go files and the catalog are edited while the binary is built and the catalog
  copied; a directory is written in many steps, rescored under other fixtures and redaction
  rules, and either may be killed. Correct: runs use the inputs that are recorded, scores are of what
  the client printed, a summary is complete, records survive, and what was scored before is recorded.

The individual hazards, at their lines, are in `PROJECT.json`.

## 2. The modules

```
CatalogSnapshot ── CatalogSnapshot_proofs
TrustedFile ────── TrustedFile_proofs
LoadOutcome ── AtomicLoad (promise)
      │  └──── SkillLoader ── SkillLoader_proofs
      └─ (INSTANCE) ─ SkillServer ── SkillServer_proofs
SearchEngine ─────────────┘                  │
   └────── SearchCall ───────────────────────┘

Gate6Answer ── Gate6Answer_proofs (what both scorings use)
      ├─────── Gate6Scoring ── Gate6Scoring_proofs
      └─────── ClaudeScoring ── ClaudeRunner ── ClaudeRunner_proofs
Gate6Build ─────────────────────────┘
      └─────── Gate6Evidence ── Gate6Evidence_proofs
```

Each module that TLC runs has an `MC…` module with the values of the instances.

**CatalogSnapshot.** Any number of processes run `tryLoadIndex`. A program counter per process goes
through `loadSnapshot` (open and decode; check the roots; walk; compare the sets of files; stat
each), `BuildIndex` (walk, parse each) and `saveSnapshot` (walk again, stat each, create a
temporary file, encode, rename, or fail at any of these). Every file system call is one step, so
writes and deletions of skill files, other processes and crashes fall between any two. A content
is a value and its checksum is itself. Opening and decoding the snapshot is one step because a
rename never changes a file that is open. A walk may return an error: one of `loadSnapshot` rejects
the snapshot (`WalkFails`), one of `BuildIndex` ends the start with no entries and nothing saved
(`DiscoverFails`). A file may be there and not be readable: `Guarded` files are written with or without
that permission, and `ChangeMode` switches it at any time without touching content, modification
time or size, by which alone a snapshot is checked. Two switches are a passing failure to open
the file. `switched` is a history: the permission changed since the file was written. `doctor` calls `BuildIndex` only (doctor.go:23), so it is
an action of SkillServer and not a process of this model.

**TrustedFile.** One call of `readTrustedFile` on `<root>/<skill>/SKILL.md`: resolve the root,
resolve the skill's directory, resolve the document, check, open the root, walk again to the
directory and to the document through `os.Root`. Between any two steps the root, which is a name,
the skill's directory or the document is switched, removed or made into something else. An item is
what a name stands for: a directory, a file, a file nobody may read, reached directly, by a relative
link or by an absolute one. `os.Root` follows relative links that stay inside and no others. The
history `past` keeps the file systems there were. Directories themselves do not move, and a chain of
links is followed as one. Three things the code does that a reader may not expect, and that
`RefusalHasCause` allows: absolute links inside the root, and documents that are directories or
cannot be read, are refused as outside the root and not as unreadable (catalog.go:207); and so may
be a read during which the root was switched.

**LoadOutcome, AtomicLoad, SkillLoader.** `LoadOutcome` says what one state of the files calls for:
how a name resolves (`lookup`), the error codes, the frontmatter checks. `AtomicLoad` is the
promise: each call is answered from one state the files had between request and answer.
`SkillLoader` is the code: `Load` in steps (resolve, read, `GetDocument` in two critical sections,
parse, `SetDocument`), over a shared cache, with edits and invalidations at any time. It implements
`AtomicLoad` under the mapping `result <- Decided`: a call's answer is decided when it reads the
file.

**SearchEngine, SearchCall.** The eight layers as operators over abstract tokens and texts (`Kept` is
the loop that copies the entries a layer lets through): `Holds`
stands for `strings.Contains` and `Is` for equality, so any strings that stand in these relations
are covered. An unstable sort is the set of all sequences it may produce. `SearchCall` asks every
query of every index, and asks again. Its properties speak of a ranking written without the layers
(`Worth`, `Eligible`).

**SkillServer.** Both tool handlers, restarts, edits and moves, and one client that keeps the last
full answers with their hashes. It composes `SearchEngine` and `LoadOutcome`; that concurrent loads
through the cache answer as its atomic `load_skill` does is what `SkillLoader` shows, and that a
restart yields the index of the files is what `CatalogSnapshot` is about. `Doctor` makes an index of its own from the files and
reports on that.

**Gate6Answer, Gate6Build.** What the two runners have in common: the checks of the answer a client
ends with, and the build of the binary between two readings of the Go files. A version of the Go
files is the number of edits, so an edit never restores what was there; files that are changed and
restored while the compiler reads them escape the code and are outside the model.

**Gate6Scoring.** The steps build an event stream (starts, completions, one odd event), which may be
cut off anywhere; then `run_codex` scores it with `score_run`.

**Gate6Evidence.** The files of one directory. `main` reads the catalog and the Go files, copies the one
and builds the other while both are edited, then writes them one by one, `rescore_existing`
reads everything, refuses or computes, then writes four files. A file opened for writing and not
closed is `Torn`. `Killed` stops either process anywhere. Records carry the history `printed`, what
the client really wrote, against which scores are judged. A rescore stores the task it scored by
(`scoring_task`), and `summarize` classifies by that one, or by the recorded task where there is none,
as in records of an earlier version. A fixture may lack a recorded task: its rescore is refused. `Init` also starts from evidence of an
earlier version of the runner, which lacks the scoring fixture and the version of the arguments.

**ClaudeScoring, ClaudeRunner.** The second runner scores a stream of tool uses and results by rules of its
own: what follows the search was issued after it was, not after it had ended; a load must have a
result, whatever it says; a load whose input is no object names nothing; `ToolSearch` is allowed. So a success of this runner says less than one of
the Codex runner, and `Earned` says exactly what. A use is identified by its position; an event has
one block, as in the recorded streams. ClaudeRunner composes this with the build, the alternation of
the modes, the timeout and the results. Its files are written once and never read back, so each write
is one step. The history `earned` in a record says whether the run deserved a success.

## 3. The runs

| Run | Question | Bounds, and why they are enough |
|---|---|---|
| `catalog_restart` | Does a start that saw no change end with the index and the errors of the files? | one process after another, two files, three contents of which two have one size, two modification times, one crash. Two files make every set comparison differ in both directions; two times cover a file replaced once after a snapshot, and a deletion followed by a new file. The permissions of one of the files change at any time and without end, beside a file whose permissions stay. `QuietBuilds` is `TRUE`, so nobody writes or deletes a file while it is indexed: `catalog_race` shows what happens otherwise |
| `catalog_processes` | What survives two processes on one snapshot? Is a start ever sent back? | two processes, one file, one crash, one write and any deletion of the file, at any point. `StartsOnlyAdvance` speaks of single steps, so more edits and processes only repeat what this has |
| `catalog_race` (violated) | The same as the first run, with edits during indexing | the smallest instance that shows it |
| `concurrent_loads` | Do concurrent loads implement `AtomicLoad`? | two calls, two paths, a name that matches one, two or no entry, two good versions and one with another name. An eviction race takes two calls and two versions |
| `search_ranking` | Is the answer unique, and the best? | all indexes of up to three of eight entries, all subsets of five raw tokens, limits 0, 1 and 2: pairs of duplicates with and without tags, equal scores, and a third entry for the cut to fall on |
| `search_ambiguous` (violated) | Are duplicate names always rejected? | as above |
| `server_sessions` | Is "cached" always true? Does doctor name what the server refuses? | two places, three contents of two names (one a suffix of the other), limits omitted, in and out of range |
| `server_offers` (violated) | Can offered names be loaded? | as above |
| `trusted_file` | Does a read stay inside the root, and has a refusal a reason? | two roots, of which one has two skill directories, and one directory outside; every kind of item and link in at least one place; two changes, which is what a switch there and back takes |
| `gate6_scores` | Does a Codex run score a success exactly when it was one? | tasks of one, two and no skills; streams of up to six events, which is what a run with two loads takes, three call ids; up to four events when one of them is odd |
| `evidence_life` | What survives edits, runs, kills and rescores? | runs of one or two of three tasks, four records in all; three fixtures of which one asks something else of one task and lacks another; two catalogs; two sets of redaction rules of which one changes a stream; three streams of which one is unusable; one edit of the Go files. Kills and rescores are not bounded |
| `claude_runs` | Does a Claude run score a success exactly when it was one, and is a summary of the runs? | one task of two skills, or two tasks of one and of none; a search and the loads with their results, one use of another tool in shorter streams, two uses of either tool of SkillLoader; right and wrong answers; one edit of the Go files |

Named bounds: `MaxClock`, `MaxCrashes` and `Guarded` (CatalogSnapshot), `MaxIndex` (SearchCall), `MaxEvents`,
`MaxOdd`, `MaxOddEvents` (Gate6Scoring), `MaxEvents`, `MaxOther` and `MaxUses` (ClaudeRunner), `MaxEdits` (Gate6Build),
`MaxChanges` (TrustedFile). `CHECK_DEADLOCK FALSE` appears where scoring, a run of a runner or a call really ends.
Symmetry is used over values the specification does not tell apart, never in a run with a liveness
property.

`server_sessions` orders entries of one name by path. `sort.Slice` does so below twelve entries,
where it sorts by insertion; above that two starts of one version of the program still agree,
since the algorithm is deterministic, but not on path order.

**Fairness.** `EveryCallAnswered` assumes weak fairness of each call: a call is a goroutine, and the
cache's lock is held for one step only, so no call can keep another from its next step. Nothing is
assumed of edits or other calls. Fairness is needed only for a call to be scheduled: that no step
of anybody sends it back is proved (`CallsOnlyAdvance`). That every start of a process ends is stated
without fairness, as a property of steps (`StartsOnlyAdvance`), because a bounded number of edits would
make "eventually" say little: no step of anybody sends a start back, and a start that goes on takes a
bounded number of steps (`StartsAreBounded`), whatever is edited, replaced or killed meanwhile. The
runners and `readTrustedFile` have safety properties only: a runner waits for a client and may be
killed, and nothing in the code makes it end.

**Mutants.** Every property of a passing run has a mutant: a variant of a modelled definition with a
plausible bug (`Unmodified_SizeOnly`, `Evict_NotMine`, `Answer_CutFirst`, …) under which TLC finds
the property violated.

## 4. What the violated runs show

1. `catalog_race`: `saveSnapshot` stats the files after `BuildIndex` parsed them. A file that
   changes in between is recorded with its new stats next to its old entry, and every later start
   accepts that, although docs/MCP_CONTRACT.md:144 says to restart in order to refresh.
2. `search_ambiguous`: the strong-match filter runs before names are counted, so "Reject ambiguous
   logical names instead of selecting a source" (search.go:87) fails when one of the two entries
   matches by description only.
3. `server_offers`: `demo` is offered when `plugin:demo` exists, and `load_skill` refuses it as
   ambiguous (loader.go:100, main.go:123).

Met while modelling, without a run of their own: a document that cannot be opened is cached as an
error without an entry, a `chmod` that makes it readable leaves its time and size as they were, and
so every later start accepts the snapshot (snapshot.go:92) and the document stays missing until some file is
written or deleted; likewise one that is readable no more stays listed (this is why
`RestartRefreshes` excepts files whose permissions were switched: without `Steady` it fails, and with it
docs/MCP_CONTRACT.md:143); the catalog revision leaves out the source, so
a skill moved to another root keeps a cached search valid that names its old one (cache.go:43; this
is why `CachedSearchCurrent` speaks of everything but the source); a rescore killed while it
overwrites `environment.json` leaves evidence that can never be rescored (run_gate6_codex.py:1557),
although its records survive (`RecordsSurvive`); a rescore under stricter redaction rules that is
killed half way leaves records no later one accepts.

Met while reading, not modelled: a quoted name with spaces around it is indexed as it stands while
`Load` trims its argument (loader.go:43), so it cannot be loaded; the comment at loader.go:39 speaks
of stripping namespace prefixes, which `lookup` does not do; on a file system with coarse times,
two contents of one size and one tick are not told apart by the snapshot; docs/BENCHMARK.md:169 measures
a second `doctor` as a warm start that hits the snapshot, but `Doctor` calls `BuildIndex` and never
reads one (doctor.go:23).

## 5. What is proved

All proofs hold for every value of the constants that satisfies the named assumptions.

**CatalogSnapshot_proofs**, from `CatalogAssumption` and `SnapshotAssumption`:

* `CatalogTypes`: `TypeOK`. The inductive invariant `TypeInv` adds that `snap[p]` is a snapshot in
  the phases that use it, and `temp[p]` in the one that renames it.
* `SnapshotAlwaysComplete`, `TempsAlwaysRemoved`: from `TempInv`, that a temporary file belongs to a
  process that encodes or renames it. Without this a rename could publish a partial file.
* `AcceptanceIsCurrent`: where a write gets a modification time of its own (`FreshMtimes`), a
  file that passed the validation has the content it had when the snapshot's builder statted it.
  `StatsInv` says that every recorded stat *vouches*: a file that still has the recorded time still
  has that content. It holds of the snapshot, of temporary files and of those decoded or being
  built, and every step hands it from one to the next. `CheckInv` collects what a validation has
  seen so far. The property fails without `FreshMtimes`, by design of the check.
* `NoFileLost`: `DiscoveredFilesAccounted`. `AccountInv` adds that a process has no entry, no error and
  no origin before it parses its first document, so that parsing starts from an empty index; each
  `ParseFile` then moves one path from what is pending to the entries or to the errors.
* `RestartAlwaysRefreshes`, `RestartAlwaysRefreshesErrors`, under `FreshMtimes` and `QuietBuilds`: a
  start during which nothing changed has entries of the contents the files have and no others, and
  the very entries and errors of all files whose permissions did not change after they were written,
  after any number of earlier starts, edits, changes of permissions and crashes. Every other file has
  an entry or an error, by what it was when it was parsed. `RefreshInv` says that every snapshot is
  *faithful*: its entries (`Indexes`) and errors (`Refuses`) are of the very contents it has the stats of. A builder establishes it because
  nothing changes until it has statted its files, a rename hands it on, and a validation that passes
  finds the files with those contents (`AcceptanceIsCurrent`). Without `QuietBuilds` this is false,
  which is what `catalog_race` shows.
* `StartsAlwaysAdvance`: `StartsOnlyAdvance`. Each action of `tryLoadIndex` reaches a later phase or
  visits a file of its loop, and no other process moves either. `StartsAreBounded` counts: what
  `StepsLeft` says of a start is at most twelve times one more than there are files, and each of its
  steps leaves less.

**SkillLoader_proofs**, from the assumptions of `LoadOutcome` and `SkillLoader`:

* `TypeCorrect`, `CacheValid`: from `LoaderInv`, which says what a call knows at each step. The
  cache holds only valid documents because a call about to store one has validated it (`CallOK` at
  `set`).
* `EvictionExact`: an eviction removes the document its call found stale or nothing. It rests on a
  checksum identifying a content and on cached documents carrying their own.
* `CallsAlwaysAdvance`: a call never takes a step again, so it replies after at most seven. A retry after
  an eviction (`Evict_Retry`) would make this depend on the other calls.
* `LoaderKeepsPromise`: `SkillLoader` implements `AtomicLoad`. Reading the file is the step that
  answers; a hit later gives the same answer because the cached content has the checksum of the
  content that was read and was valid for that entry (`HitIsOutcome`).

**Gate6Evidence_proofs**, from `EvidenceAssumption`, `UnreadableAssumption` and `BuildAssumption`. The
inductive invariant `IInv` has five parts: `WorkOk`, what a process knows has its types; `FilesOk`,
each file that can be read is what it should be, and a summary stands beside complete records;
`MainOk`, while `main` works the files are those it has written so far; `BuildOk`, what was
compiled lies between the two readings of the Go files; `RescoreOk`, what a rescore is going to write
agrees with what it read, whichever of its files are already replaced.

* `TypeCorrect`, `ScoresStayOfTheRun`, `SummariesAreComplete`, `PriorScoringIsRetained`,
  `RecordsAreKept`, `RunsUseWhatIsRecorded`: for any tasks, fixtures, catalogs, redaction rules that
  are idempotent, and any number of kills and rescores. That scores stay those of the run rests on
  the flag `redacted`: a record without it holds what was printed.
* `FilesAlwaysAgree`, `InterruptedRescoresRetry`: from `AgreeInv`, which adds to `IInv` that until a
  rescore is killed the summary is that of the records, each under the task it is classified by, and
  all of them have one fixture
  (`SummaryAgrees`, `OneFixture`); that what a rescore is going to write agrees with itself
  (`NewAgrees`); and, after a kill, that each record has the form a rescore accepts whether or not it
  was replaced (`RetryOk`). `NoProcessAssumption` says that the value for "nobody runs" is not a process.

**TrustedFile_proofs**, from `TrustedAssumption`:

* `ReadsStayInside`: what is read is inside a directory the configured root stood for during the
  call, for any number of changes. What makes it inductive (`HandleOk`) is the handle: once the root
  is open, the walk only comes to directories inside that one. The check by name is not needed for
  it. `TypeCorrect`: the types of the walk.
* `RefusalsHaveCause`: a refusal has its reason among what the names on the path stood for during the
  read. `WalkOk` says that everything the walk goes through was seen at some moment of it, and what
  was seen only grows.

**Gate6Answer_proofs**, from `FixtureAssumption`, has no specification of its own. Its `AnswerScored` is what
both scorings rest on: the counts the code compares (as many names as loads, each as often as the
other, none twice) hold exactly when the message is the right one and each required skill, and no
other, was loaded once.

**Gate6Scoring_proofs**, from `FixtureAssumption` and `BoundAssumption`, for streams of any length with any
number of odd events. The inductive invariant `IInv` says that every event has what its tool gives
it (`StreamOk`) and that a score is that of what was printed:

* `SuccessAlwaysEarned`: the code looks at sets of events, the property at their places. One search
  start before one search completion before every load start, and each load completion after a
  load start of its id, leaves the search only the first two places (`SuccessPlaces`); as many load
  starts as completions, and as many completions as required names, gives the length (`Filled`).
* `EarnedAlwaysSuccess`: the loads that `Routed` asks for have places of their own, because an id
  belongs to one start and one completion (`LoadsApart`), so they fill the stream and there is
  nothing else in it (`RoutedCovers`); then the sets are known and pass (`RoutedScored`), whatever the
  order of parallel loads.
* `TypeCorrect`: a score is a truth value or, where the code means it, None.

**ClaudeRunner_proofs**, from `FixtureAssumption`, `RunnerAssumption` and `BuildAssumption`:

* `MeasuredBinaryIsRecorded`: versions of the Go files only grow, what was compiled lies between the
  first reading and the second, and the second makes those two the same.
* `TypeCorrect`: from `TurnsOk`, which says which mode is ahead after how many runs, so that the
  two modes are paired by task whatever the number of tasks.
* `SuccessAlwaysEarned`, `EarnedAlwaysSuccess`: a run is scored a success exactly when it deserves it,
  for streams of any length. `AnswerScored` does it for the message and the loaded names,
  `StreamScored` for the stream, and needs what `StreamOk` says of every stream a client can
  have printed by any moment: a use has at most one result, and the result comes after it. So the
  last result of the first search, which the code reads, is the only one.
* `SummariesAreOfTheRuns`: a summary is of one run of every task in either mode, none of which
  failed, counts those that deserved a success, and has a percentage exactly where it counted
  something. `RecordsOk` relates each record to the task in its place.

**SkillServer_proofs**, for catalogs of any length and queries of finitely many tokens, in three parts.

The layers of a search, from `SearchAssumption`. An element of a finite set has a rank, the number
of those before it and one, so that a strict order has exactly one listing (`ListingExists`,
`ListingUnique`). The entries that pass the last layers have distinct names, hence are strictly
ordered by score and name, and whatever permutation the sort makes of equal entries, what is left
of it is that listing (`AnswerIs`, `SearchIs`).

A call, from that and `CallAssumption`:

* `AlwaysOneAnswer`, `DescriptionAlwaysFallback`, `AlwaysBestFirst`, `CallTypeCorrect`: from `CallInv`,
  that an answer is one `Search` gives. `WorthIs` and `EligibleIs` compare the ranking a reader would
  state with what the layers add up and let through.

The server, from `ServerAssumption` and `NoHashAssumption` (what stands for "no hash" is not a hash):

* `BuildIndex` chooses an index sorted by name and path; that there is exactly one follows from the
  lemmas on listings.
* `CachedSearchAlwaysCurrent`: what a client holds *fits* (`Fits`): it is the answer of some earlier
  index, and its hash is of that index. A server that recognises the hash has an index with the
  same names and checksums in the same places, hence, a checksum identifying a content, the same
  names, descriptions and tags; and two such indexes have answers that differ in the sources alone
  (`AlikeAnswers`).
* `CachedLoadAlwaysCurrent`, `OfferedNamesAlwaysLoadThemselves`, `DoctorAlwaysExplains`, `TypeCorrect`: from
  `ServerInv`, whose `ReplyFits` says what each kind of reply means while it is the last one.

**Only model-checked:** the liveness property `EveryCallAnswered`, which rests on fairness and is out of
the prover's reach; what it says of safety, that a call takes a bounded number of steps, is proved
(`CallsAlwaysAdvance`). Every other property of a passing run is a theorem.

## 6. What is not modelled

* The frontmatter parser, the regular expression of `tokenize`, JSON and gob encoding, the text of
  redaction rules: abstracted to the outcomes the properties tell apart.
* Directories that cannot be read: they hide their files, so those are absent. The deferred `os.Remove` of
  `saveSnapshot` is taken to succeed; the code ignores its error, and a failure would leave a temporary file
  (snapshot.go:140).
* In SkillServer every content parses: files that do not, and the catalog errors `doctor` reports of
  them, are those of CatalogSnapshot. `InvalidateAll` also clears the index and its hash (cache.go:101), which
  no load looks at; only tests call it.
* The text of `doctor` and its look at the roots (`os.Stat`), which change no state.
* Of the runners: the isolation of the client's home, the arguments and the environment of the client,
  usage and cost arithmetic other than one percentage.
* The Claude runner serves the live catalog, not a copy (run_gate6_claude_code.py:1168): a skill
  edited during a run is served with one content and scored by another. The catalog of ClaudeRunner
  does not change. Go files that are changed and restored during the build escape both runners.
* The parity verifier and the packaging, which keep no state.

## 7. The plan

Written so far, in order of importance: CatalogSnapshot, SkillLoader with its promise, SearchEngine,
SkillServer, Gate6Scoring, Gate6Evidence with its preparation, ClaudeRunner, TrustedFile. Next:

1. The walk of `DiscoverSkills` (catalog.go:46) over links and directories that change, with the
   items of TrustedFile.
2. The loader over TrustedFile: SkillLoader takes a read for one step, which the history of
   TrustedFile could be shown to allow.
