# aicx in TLA+

aicx reads the transcripts that coding agents leave on a machine, keeps a
catalog of their sessions, cuts every session into an extract that respects the
operator's `.aicxignore`, publishes the extracts as a searchable index, and
answers CLI, MCP and dashboard queries from it. There is no daemon that owns the
store: any number of short-lived CLI processes and long-lived servers share
`~/.aicx`, the agents keep writing their transcripts, and every process may be
killed at any write. This directory models that shared, crash-prone core.

Paths are those of the repository, seen from its root (`src/catalog.rs`).

## The system and its components

| Component | State it keeps | Operations | What makes it correct |
|---|---|---|---|
| advisory locks (`src/locks.rs`) | lock file, POSIX record lock, in-process `LocalLock`, `.holder` sidecar | acquire shared or exclusive with a deadline, recover a dead holder's sidecar, drop | an exclusive handle excludes all others; nothing leaks on an error path; a live pid in the sidecar really is the holder; every request ends |
| session catalog (`src/catalog.rs`, `src/session_catalog.rs`) | `sessions.jsonl`, the remote memo, `catalog.lock` | `rebuild`, `refresh_hot`, attribution of rows to git origins | no refresh loses a row; the memo does not vouch for a superseded origin; refreshes reach a fixed point |
| source index (`src/source_index.rs`) | extracts, parse ledger, digest and documents of CURRENT | `aicx index`, incremental or `--full-rescan` | nothing hidden by the rules is published; ledger never ahead of CURRENT; a rescan repairs everything |
| validated extract reader (`src/source_index.rs`) | a receipt per query | validate, check, read, check | a body that is served was cut by the rules in force |
| generation store (`src/vector_index.rs`, `crates/aicx-retrieve`) | `generations/<name>/`, `CURRENT` | publish lexical or semantic, carry dense vectors forward, flip, prune | CURRENT is complete and atomically replaced, never downgraded; the last dense generation survives; disk is bounded |
| generation readers (`src/search_engine.rs`, orchestrator) | none; file-by-file, lock-free reads | lexical query, deep query | an answer comes from one consistent generation, or there is an error |
| MCP sessions (`src/mcp.rs`) | rmcp's session map, `last_seen` | create, restore, use, close, sweep | every session is subject to the sweep; the cap is exceeded by concurrent creations at most; a session nobody uses goes away |
| MCP server, the rest (`src/mcp.rs`) | idle-memory state | auto-refresh tick, tools, reclaim memory | the index catches up with the catalog |
| index status (`src/api.rs`) | none | readiness and pending counts from catalog and manifest | "ready" means the sources are indexed |
| overlay (`src/overlay.rs`, `src/overlay/cache.rs`) | feed cache, per-source slots, side index, receipts, owner marker | build a feed under a producer lock with snapshots before and after | no feed mixes two states of the sources; a slot is reused only for the bytes it was made from; a build that nobody raced succeeds |
| extraction (`src/main.rs`, `src/extraction/mod.rs`, `src/state.rs`) | watermarks, seen hashes, `state.json` and its backup | run (incremental, full rescan, forced), reset; load, migrate, mark, save under the state lock | what is remembered as seen went through the output step of a run (and was output, if that run outputs at all); a watermark passes no message that was not dealt with; no save takes a watermark back |
| live delta (`src/catalog.rs`, `src/intents.rs`, `src/continuity.rs`) | a process-wide cache of 30 s | unadmitted sessions for queries | a query sees what the catalog lacks, at most 30 s late |
| orchestrator refill (`crates/aicx-retrieve/src/orchestrator.rs`) | none | window doubling to a budget, fusion | exhausted and saturated are told apart |
| dashboard server (`src/dashboard_server.rs`, `operator.rs`) | snapshot, `rebuilding` flag | rebuild, browse on demand, index operations | one scan or build at a time; the flag is always freed |

The rest is stateless or reporting: transcript adapters and parser engine,
chunker, segmentation and sanitizer, redaction and ignore patterns, intent and
continuity extraction, ranking, oracle and search evaluation, embeddings,
session browsing and bulk extraction, legacy archive and migration, importers,
doctor and corpus repair, onboarding and wizard, authentication and CORS,
progress and monitor, report and HTML rendering, command-line dispatch. Each is
a `not_modelled` component of `PROJECT.json` with its reason.

How they interact: `aicx index` and the MCP auto-refresh run `refresh_hot`
(catalog.lock, briefly), then a source-index build under `lance.lock`, which
publishes through the generation store. The dashboard's index operation runs the
same build without `lance.lock`. Readers take none of these locks. The overlay
reads catalog and transcripts under locks of its own, which no writer of those
takes. Extraction runs (`aicx claude`, `aicx all`, ...) read the transcripts
directly and share nothing but `state.json` with each other, under the state
lock. Files are replaced by writing a temporary file and renaming it, so the unit
of failure is the kill of a process between two replaced files, not a torn file.
`atomic_write`, the manifest and CURRENT fsync before the rename; the parse ledger
(`source_index.rs:2856`) and the extracts (`source_index.rs:3174`) do not. After a
loss of power these two may be torn: a ledger that cannot be read counts as none,
and an extract is used only with the checksum its row records. The models have
the kill of a process, not the loss of power.

Hard behaviours: lock-free readers beside a writer; scans of minutes that end in
a short locked write; a transcript that grows while it is parsed; rules edited in
the middle of a build; kills between flip and ledger; POSIX record locks, which
belong to processes and not to handles; an unlocked memo file that processes
overwrite; two maps of the same sessions with an await between them; one
watermark for agents that are scanned one after the other. `PROJECT.json` lists them as hazards, each at its line.

## The modules

| Module | Models | Extends |
|---|---|---|
| `ReadWriteLock` | abstract: what a lock file promises its users | |
| `AicxLocks` | one lock file and all threads that use it; instantiates `ReadWriteLock` | |
| `SourceIndex` | one build at a time beside agents, operator and checkouts | |
| `ExtractReader` | a validated intent read composed with all of that | `SourceIndex` |
| `PublishedView` | abstract: a view replaced whole, never by an older schema | |
| `HybridGenerations` | publisher, retention, and a query; instantiates `PublishedView` | |
| `DashboardIndex` | the dashboard's publish beside another one: a second instance of the publisher over the same store | `HybridGenerations` |
| `SessionCatalog` | refreshes and rebuilds of several processes | |
| `Extraction` | extraction runs of several processes beside writing agents | |
| `OverlayFeed` | overlay builds of several processes in one index root | |
| `McpSessions` | requests and the cleanup task over the two session maps | |
| `*Proofs` | the theorems about each, checked by TLAPS | the module and `TLAPS` |
| `MC*` | finite values of the constants for TLC | the module |

### AicxLocks and ReadWriteLock

`pc[t]` is where a thread is in `acquire_with_timeout` or in `Drop`; `osLock` is
the kernel's record lock per process, `local` the `LocalState`, `sidecar` the
`.holder` file, identified by the token in it. `Open`, `AcquireLocal`,
`LocalTimeout`, `OsLock`, `OsTimeout`, `OsError`, `RemoveStaleHolder`, `WriteHolder`
and `WriteHolderFails` are the steps of the acquire, `DropSidecar`, `Unlock`,
`ReleaseLocal` and `CloseFile` those of the drop in the order of the struct's
fields. The code ignores the error of both removals of the sidecar: for the threads
in `Hindered` they may fail, which is `RemoveFails` (the request tries again at
once) and `DropSidecarFails` (`left` records that the file outlived its handle). `DropRecordLock` is what POSIX does on any `F_UNLCK` or `close`: the whole
lock of the process goes. Deadlines are not clocks: a blocked acquirer may find at
any moment that its deadline has passed. `Die` kills a process; its sidecar stays.
The model is of the Unix build; `LockFileEx` on Windows belongs to the handle.
`ReadWriteLock` is the lock without descriptors, sidecars and deadlines: one client
at a time is admitted beside compatible rivals, and clients let go, all threads of
a dead process at once. `Lock` maps `AicxLocks` to it: a thread has the lock in its
mode while it has a handle or is writing the holder record. Rivals are two lone
threads or two threads of one process (`KeptApart`); between a process with several
threads and another process the lock of the code keeps no promise, which is the run
`locks_shared_process`.

### SourceIndex and ExtractReader

A transcript is a version number, a privacy rule is what it hides of a session
(`Effect`: nothing, some frames, all), a repository layout is a value. `Begin`
reads catalog and rules, `Digest` is `source_fingerprint`, `ReportUnchanged` the
short-circuit, `Reuse`, `Skip` and `ParseSource` what a session may meet, `Stamp`
the ledger row, taken after the parse, `Publish` the flip of CURRENT (one step
here: `HybridGenerations` has its parts), `WriteParseState` the ledger, `Abort` a
kill. `Append`, `ToggleReadable`, `Census`, `EditRules` and `MoveCheckout` are the
world, at any moment. A parse does not have to succeed (`Skip`), and one that
meets a file in the middle of a write is `uncacheable`. `ExtractReader` adds one
reader with its receipt; two readers do not influence each other.

### HybridGenerations and PublishedView

A directory has a lexical index (which knows its commit), a dense payload (which
embeds the corpus hash) and a manifest. `BeginPublish` to `EndPublish` are the
writes of a publish in order, `RemoveFile` and `RemoveDir` a `remove_dir_all` in
any order, `Abort` a kill or a failed write anywhere. A directory name is any
unused one: names carry a timestamp and a random suffix, so their order is not the
order of the publishes. `OpenQuery` to `EndQuery` are a lexical or a deep query,
one file at a time; `OpenLexical` creates what it does not find, as
`TantivyAdapter::new` does. `PublishedView` says that the content of CURRENT is
replaced as a whole by a complete one; `View` maps the store to it.

### DashboardIndex

`Dashboard == INSTANCE HybridGenerations WITH writer <- dashboard` gives the
store a second publisher that shares directories and CURRENT with the first, which
is what `post_index` is: the `rebuilding` flag keeps it single within its server,
nothing keeps it apart from a CLI or MCP build. The steps are those of
`HybridGenerations`; they are coarser than the code (flip and listing of the prune
are one), so the run shows a subset of the interference. `SourceIndex`,
`HybridGenerations` and their theorems are about the builders that hold
`lance.lock`.

### SessionCatalog

`file` and `version` are transcripts, `origin` and `stamp` what git reports and
the mtimes the memo is keyed by. `RefreshScan`, `RefreshPreview`,
`RefreshUnchanged` or `RefreshPending`, `RefreshLock`, `RefreshWrite` follow
`refresh_hot` through its three reads of the catalog; `RebuildScan`,
`RebuildAttributed`, `RebuildPublish` follow the rebuild. Attribution of a row is
two steps, `Stamp` and `Ask`, because the order of reading the mtime and asking
git is what the memo's correctness rests on. `Persisted` replaces the memo file
without a lock. `Opaque` sessions are those whose path does not tell the working
directory (Junie), `Linked` checkouts those whose `.git` is a link file; the run
keeps both empty, for the behaviours listed below.

### Extraction

A run takes the state lock and loads `state.json`, from the backup when it is
damaged (`BeginRun`, `Loadable`, `Healed`), moves the watermark of an older
composition of agents under its own key (`MigratedMark`, `Covered`), then lists
the transcripts of one agent after the other (`Discover`) and parses each
(`Parse`) or is refused by it (`Skip`), while the agents go on writing
(`Write`). `ExitAllSkipped` is the error when nothing could be parsed. `Dedup`
drops what was seen, marks the rest in memory and picks the watermark: the newest
entry extracted, and only if no transcript was refused (`RawExtractLatest`).
`Parse` keeps what is newer than cutoff and watermark (`Ingested`) and, with
`--user-only`, only the user's messages (`Wanted`). `Output` applies the self-echo
filter (`Reportable`) and writes the entries if the command outputs any
(`Reported`): stdout gets entries for `--emit json` only, reports are written with
`-o` only, and by default a run outputs nothing. Either way `Output` moves the
watermark and marks the hashes. `SaveBackup` copies the old state over the backup,
`SavePrimary` replaces `state.json`. `Abort` kills a run anywhere, `Damage` makes
`state.json` unreadable, `ManualRecovery` is what the error message tells the
operator to do when both files are, `BeginReset` is `aicx state --reset`.
Timestamps are ticks of one clock, an overlap hash rounds them to `Minute`, and
`MaxHashes` stands for the 50,000 hashes a bucket keeps. `emitted` is what was
output, `unsaid` what reached the output step and was not (a silent run, an echo),
and `Processed` both; `declined` is what `--user-only` left out. `behind` and `cut`
are history too: the messages a running scan had already passed, and the lookback
limit.

### OverlayFeed

A build claims the index root for its repository (`CheckOwner` under the shared
lock, `ClaimOwner` under the exclusive one) and takes the producer lock
(`TakeLock`). It reads rules, rows and the state of each transcript
(`SnapPolicy`, `SnapRows`, `SnapState`, `FirstSnapshot`), takes the cached feed
(`FeedHit`) or goes through the rows: `ReuseRow` from a slot, or `OpenRow`,
`Parse`, `LoadIgnore`, `TakeReceipt` and `Restat`, in the order in which the
parse reads file, rules and checkouts. `KeepRow` writes the slot, `SkipRow` gives
up the row. Then come the second snapshot and its comparison (`SecondSnapshot`), the
receipts (`CheckReceipts`), `PublishFeed` and `PruneSlot`. `Kill` ends a build
anywhere. The world (`Touch`, `Admit`, `EditRules`, `MoveCheckout`) takes no lock.
Why two snapshots are enough: each reads its parts at different moments, but
versions only grow, so what is equal in both has been so from the end of the first
to the beginning of the second, and that stretch contains a moment at which
everything held together. The argument needs `~Reverts`: rules that were replaced, and
transcripts that went away, do not come back, neither during a build nor between
builds.

### McpSessions

`live` is rmcp's map (external), `lastSeen` the manager's; no operation holds
both locks, or one of them over an await, so every await is a step of its own.
An entry is `fresh` or `idle` (older than `idle_ttl`; `Idle` is the passage of
time). A sweep (`ListExpired`, `Recheck`, `Forget`, `CloseInner`, `SweepDone`)
judges every entry against the moment it began: `expired` holds the entries it
has still to close and that nobody has touched since. `Count` is the check of the
cap, `Create` and `Restore` what follows it, `HasSession`, `UseSession`, `Touch`
and `RemoveEntry` the request path, `CloseFails` and `InnerFails` rmcp's errors.
`Cancel` drops a request's future at one of the awaits in `Cancellable`.
rmcp's `Restored` outcome is left out: it needs a session store, which the server
does not configure.

## The runs

| Run | Result | Shows |
|---|---|---|
| `locks` | passes | a server with two threads beside two commands: handles of the single-threaded processes exclude each other, `LocalLock` keeps the server's threads apart, no leaked or lost record lock, sound kill advice while sidecars can be removed, refinement of `ReadWriteLock`, every request returns unless a dead holder's sidecar cannot be removed |
| `locks_shared_process` | violation | a sibling thread's close drops the process's record lock: a command gets in beside the server's handle |
| `source_index` | passes | two sessions, two rules, kills anywhere, a lock-free reader: neither CURRENT nor a reader shows what the rules hide |
| `source_rescan` | passes | appends, a vanishing file, a moving layout: ledger not ahead of CURRENT; full rescans that get through repair CURRENT for good |
| `source_stale` | violation | an append between parse and stamp hides frames behind a matching digest |
| `generations` | passes | three publishes of two corpora and two schemas, kills, half prunes, both kinds of query: completeness, refinement of `PublishedView`, survival of dense, bounded disk, deep queries fail closed (they compare counts), lexical ones keep to their manifest, carried vectors are of the corpus the manifest names |
| `dashboard_index` | violation | the dashboard's prune deletes the generation that a concurrent publish makes CURRENT |
| `catalog` | passes | two processes, one kill or failed git call, one moved origin, one rebuild: memo, cold rows, an up-to-date catalog is left alone, and settling |
| `extraction` | passes | two processes, three commands out of incremental, `--full-rescan --user-only` with a lookback limit, `--force` without output, and reset; an agent that joins the composition, refused transcripts, an echo, one kill or damaged file: what dedup holds back went through the output step, watermarks are honest and never retreat |
| `extraction_watermark` | violation | a message written behind the scan is older than the saved watermark: no incremental run extracts it |
| `overlay_feed` | passes | two processes and two repositories in one index root, kills anywhere, two changes of the world: one moment per feed, faithful slots, one owner, failures only when raced |
| `mcp_sessions` | passes | two requests and the cleanup task over two ids, cap one, failing closes and dropped requests: every live session is tracked, bounded overshoot, quiet sessions vanish |

### Bounds

- `locks`: three processes are needed for a holder, a waiter that recovers a dead
  holder's sidecar, and one that overtakes it; one of them has two threads, the
  least that share a process's record lock. `Hindered` is one of the two commands:
  its removals of the sidecar may fail. Nothing else is bounded.
- `source_index`: two sessions, since a build refuses an empty result: one must be
  publishable while the rules withhold the other. One version each; growth is
  the subject of the other two runs.
- `source_rescan`, `source_stale`: the gates are per session, so one session; a
  second version is what a stale row needs, a third shows that the digest matches
  in the end. Two layouts to move between.
- `generations`: three directories (`MaxGen`) are the least with which a
  generation is pruned while the two before CURRENT's successor remain, and names
  in any order give every position of the last dense one. Two schemas for the
  downgrade, two corpora of different sizes for the bindings. `dashboard_index`
  needs one schema only.
- `catalog`: one session, two versions, one checkout with two origins: rows of
  different sessions do not interact except through the memo, which the theorem
  covers for all sessions. `MaxMoves`, `MaxRebuilds` and `MaxFaults` are 1: one
  overtaking move, one rebuild that races two refreshes, one kill.
- `extraction`: three agents with a transcript each, so that one is scanned before
  and one after a message is written, and a third joins the composition; agent 2
  is scanned without a watermark, its messages are echoes, and agent 3's messages
  are the assistant's. Each command has its own options, so that a silent run and a
  `--user-only` run both precede and follow a run with output. `MaxClock` 3 messages in buckets of two ticks
  make overlap hashes collide and differ, `MaxHashes` 2 makes pruning bite,
  `MaxRuns` 3 gives a run after a run that failed after a run that saved.
- `overlay_feed`: two transcripts, so that one can change while the other is read;
  two repositories, so that a claim can be contested; two rules and two layouts;
  `MaxEdits` 2, since one change can be undone by no other (`Reverts` is false)
  and two changes are what makes a snapshot that was true at no moment.
- `mcp_sessions`: a cap of one and two requests are the least with an overshoot;
  two ids, since a creation closes another session in its sweep. An id is never
  handed out twice, so behaviours have at most two creations.

Two kinds of deadlock check are off (`CHECK_DEADLOCK FALSE`): in `locks` every
process may be dead; in `generations`, `dashboard_index`, `catalog` and the
extraction runs the bounds on names, events and commands run out, and a process may
have nothing left to do. The other runs check deadlock.

### Fairness

- `AcquireReturns`: weak fairness of the steps of a thread that is inside acquire
  or drop. The loops poll with a sleep and compare a deadline; nothing in them
  waits on another process without one. Nobody is obliged to ask or to let go.
  One branch of the loop has no deadline: past it, a dead holder's sidecar is
  removed and the lock tried again at once, and an error of the removal is ignored
  (`locks.rs:136`, `346`). The property therefore has the premise that from some
  moment on the removals of the request do not fail; without it a request spins
  beside a holder that keeps the lock.
- `RescanRepairs`: no fairness in the specification; it is a property of the form
  "if the world is quiet in the end, and full rescans get through again and
  again" (`RescanDone`: CURRENT flipped and the ledger written, nothing said of
  what was parsed). The code never starts a rescan by itself.
- `RefreshesSettle`: weak fairness of attribution, refresh and an already
  started rebuild, per process. Each interactive command and each tick of the
  auto-refresh runs `refresh_hot`. No rebuild, no failure and no event of the
  world is assumed to happen.
- `QuietSessionsVanish`: weak fairness of each actor's next step (the tokio
  runtime polls what is ready, and rmcp's calls return), of `Tick` (an interval
  timer in a loop that never ends) and of `Idle` (time passes). No client is
  obliged to do anything: the property is about a session nobody asks for again.

## The theorems

TLAPS proves these for every value of the constants that satisfies the modules'
`ASSUME`s (types of the parameters; `None` is none of the values it stands
beside; bounds are naturals). The sets of processes, sessions, checkouts and
corpora may be of any size, and the bounds any naturals.

| Theorem | Statement |
|---|---|
| `LocksTypeOK` | type correctness |
| `LoneThreadsExclude` | processes with one thread on the file exclude each other, whatever the others do |
| `LockFollowsLoneHandle` | record lock and handle of such a process go together |
| `LocalLockExcludes` | no two threads of one process hold conflicting handles |
| `HandlesImplementLock` | `AicxLocks` implements `ReadWriteLock` |
| `KillAdviceIsSound` | a live pid in the sidecar has the lock, for any spread of threads, unless its handle failed to remove it |
| `SourceIndexTypeOK` | type correctness |
| `PublishedTextRespectsRules` | CURRENT shows nothing that the rules of its digest hide |
| `LedgerStaysBehindCurrent` | where CURRENT has a document of a session, the ledger never vouches for newer frames than that document has |
| `ServedTextRespectsRules` | nor does a validated read |
| `RescansRepair` | once the world is quiet, rescans that get through make CURRENT right for good (a temporal theorem, without fairness) |
| `GenerationsTypeOK` | type correctness |
| `CurrentStaysComplete` | CURRENT is complete |
| `StoreImplementsView` | `HybridGenerations` implements `PublishedView` |
| `LastDenseSurvives` | no step takes the last dense generation away |
| `RetentionIsBounded` | after a prune two complete generations are left, or three of which one is dense |
| `DeepQueriesFailClosed` | a deep answer has a committed index and as many vectors (the code compares counts; that they are of the same corpus is not claimed) |
| `LexicalQueriesKeepToTheirManifest` | a lexical answer comes from the index of its manifest, or from an empty one once CURRENT has moved on |
| `CarriedVectorsFit` | index and vectors beside a manifest are of texts built under its fingerprint |
| `VectorsEmbedTheTexts` | under `FingerprintsTell`: the vectors embed the very texts of the index |
| `CatalogTypeOK` | type correctness; only the lock's holder merges |
| `MemoIsTrustworthy` | a memo entry with the present stamp names the present origin or none |
| `ColdRowsSurviveRefresh` | a refresh keeps every row outside its delta |
| `UpToDateCatalogStays` | an up-to-date catalog is a fixed point of any number of refreshes |
| `ExtractionTypeOK` | type correctness |
| `SeenIsProcessed` | a hash in `state.json` or its backup belongs to an entry that went through the output step of a run |
| `SeenIsOutput` | if every command outputs (`AllReport`), to one that was output or is an echo |
| `WatermarksNeverRetreat` | no save takes back a watermark of the file it replaces |
| `SkippedIsAccountedFor` | under `[]UpgradedInOrder`: a message up to a watermark was processed, left out by `--user-only`, beyond a lookback limit, written behind a running scan, or may be refused with the transcript of an agent that just joined |
| `WatermarksAreHonest` | the same without the last exception, under `NewcomersParse` |
| `WatermarksAreReported` | the same if every command outputs and none is `--user-only`: such a message was output or is an echo, beyond a lookback limit, or written behind a running scan |
| `OverlayTypeOK` | type correctness |
| `CachesHaveOneOwner` | slots, feeds and builds belong to the repository of the marker |
| `SlotsAreFaithful` | a slot holds the frames of the bytes its fingerprint stands for |
| `BuildsServeOneMoment` | under `~Reverts`: a build returns the feed of one moment |
| `FeedsMatchTheirKey` | under `~Reverts`: a published feed is what its key digests |
| `VersionsNeverMix` | for any `Reverts`: a feed has the versions of its snapshot, a published one all of them |
| `OnlyRacedBuildsFail` | a build fails only if something changed since it took the lock |
| `SessionsTypeOK` | type correctness; the ticker never creates |
| `DropsAloneLoseTrack` | for any `Cancellable`: only a request dropped before its first touch or within a close loses a session to the sweep |
| `LiveSessionsStayTracked` | under `Safe`: every live session is subject to the sweep, or about to be, or being closed |
| `CapIsExceededByTheConcurrent` | with n requests at most n - 1 sessions beyond the cap |

The invariants behind them (TLC checks the properties of the runs on the small
instances; the strengthenings below are what makes them inductive):

- `LocksInv`. Mutual exclusion is not inductive: a handle says nothing of the
  kernel. `LockFollowsHandle` ties the handle of a process's only thread to its
  record lock, `KernelExclusion` says that record locks of different processes are
  compatible, and the two give the result. With two threads the first part fails,
  which is the run `locks_shared_process`.
- `LocalInv`. The counters of `LocalState` are the cardinalities of the sets of
  guards that are out; the set of threads is assumed finite.
- `HandleStep`. The refinement of `ReadWriteLock`: the step that grants a handle is
  `OsLock`, and it is compatible because the two exclusion invariants hold after
  it; failing, dropping and dying release; every other step leaves all handles as
  they are.
- `RulesInv`. CURRENT gets its text from a reused extract, so the ledger's rows,
  the rows loaded by the build and those it has made so far must each be allowed
  by the rules they were cut under (`LedgerAllowed`, `BuildAllowed`). The gate
  that makes it work is that the ledger is dropped when its rules differ, and
  that an extract is used only with the checksum its row records.
- `VersionsInv`. During a build no row in the making is behind the ledger, and
  between flip and ledger CURRENT is what the build made.
- `ThisMoment`, `Repaired`. The argument of `RescansRepair`. In a quiet world a
  build that has begun stays one of this moment (`MomentStep`); when such a build
  is a full rescan and writes the ledger, all rows and documents are right
  (`RescanStep`, `AllRight`), and from then on every incremental build reuses right
  rows or parses again, and a kill leaves what was there (`RepairedStep`). The
  temporal part needs no fairness, so the propositional prover does it.
- `ReceiptAllowed`. The text a receipt names was allowed under the rules the
  receipt holds; the body must have that text's checksum.
- `StoreInv`. `NamesAreUsed` (a directory that exists has a used name, so a
  publish never writes into CURRENT) and `PublishProtocol` (what has been written
  at each step of the publish) give completeness; `OpenLexicalIsHarmless` shows
  that a late query never changes a directory that has an index.
- `DenseIsWhole`, `DenseIsSpared`. A dense generation is never a half-written
  one, and a prune in progress does not doom all of them; `LastName` picks the
  greatest name of a finite non-empty set.
- `RetentionInv`. From the flip on, what is not doomed is CURRENT, its predecessor
  and at most one dense generation beside them (`Kept`), and nothing a prune or a
  late query does adds to it.
- `ReaderHolds`. What a deep query has in hand at each step. `OwnInv` is its
  counterpart for the lexical query: a manifest names the commit of the directory
  it lies in, no publish writes into the directory a query reads, and a directory
  that was pruned is not CURRENT again.
- `PayloadsAreBuilt`. A dense payload, wherever it was copied to, is one that some
  build made of its corpus; a carried one has the fingerprint of the manifest it is
  put beside. That fingerprints tell contents apart (`FingerprintsTell`) is an
  assumption only of `VectorsEmbedTheTexts`: finding 2 is how it fails.
- `CatalogInv`. Types and, in `PassOK`, that a session still to be attributed has
  a working directory.
- `MemoInv`. The memo on disk is overwritten by copies, so the claim must hold of
  every copy in every process, and of the stamp a question carries: no copy is
  ahead of the present stamp (`Behind`), and one that equals it is right
  (`Trusted`).
- `MergeInv`. Under the lock, the rows in memory agree with the catalog on disk
  outside the delta, up to the project.
- `UpToDate`. Nothing hot is missing, the memo answers for every checkout, and each
  process that runs has found nothing (`FoundNothing`, step by step through its
  refresh); it is kept by every step that is not the world's and not a rebuild's.
- `SaveInv`. One run holds the state lock; the hashes in its memory are of entries
  that were processed or are about to be, and its watermarks are not behind the file
  it will replace.
- `HonestInv`. The watermark in force during a scan is honest for the agents it
  covers (`ScanInv`), and before the output every message the next watermark
  passes is safe or among the entries (`OutputInv`). A key may inherit from several
  older compositions: `migrate_watermark_aliases` takes the newest watermark and
  counts the agents of all of them as covered. That is right when the one with the
  older watermark is part of the one with the newer (`UpgradedInOrder`, a
  hypothesis on the states of a behaviour). That transcripts which may be refused
  do not belong to newcomers (`NewcomersParse`) is assumed by `WatermarksAreHonest`
  alone; `SkippedIsAccountedFor` names them as the exception instead.
- `OptionsInv`, `UnsaidInv`, `DeclinedInv`. A run keeps the options of its command
  until its output, so a run that outputs holds back echoes only, and without
  `--user-only` nothing is left out. Together with the two results above they give
  `SeenIsOutput` and `WatermarksAreReported`.
- `OverlayInv`. For each build: what a snapshot has read is behind the world or
  still true (`Behind`), frames are at least as new as the first snapshot
  (`DraftInv`, `ItemsInv`), every readable row is covered or still to come
  (`CoverInv`), a first snapshot that was not of one moment differs from the
  second one or will (`WholeInv`), and as long as nothing has changed all a build
  holds is true (`QuietInv`); `SlotInv` and `FeedInv` say the same of the files.
- `SessionsInv`. What an actor has in hand at each await. `Safe` says that a
  request is dropped neither before its first touch nor within a close.
- `CapInv`. The live sessions are finitely many and, with the admitted requests,
  few enough.

Only model-checked: the liveness properties under fairness (`AcquireReturns`,
`RefreshesSettle`, `QuietSessionsVanish`), which the prover does not reach.
`RescanRepairs` is temporal but needs no fairness, and is proved.

## What the checks found

Each of these has a run that shows it and an entry under `findings` with the line
of the repository that says otherwise.

1. `src/locks.rs:49`. With two threads of one process on a lock file, the
   first drop takes the process's record lock away from the other handle.
2. `src/source_index.rs:1046`. The ledger row is stamped after the parse: an
   append in between is invisible until the file changes again or a full rescan.
3. `src/dashboard_server/operator.rs:97`. The dashboard's index operation builds
   and publishes without `lance.lock`; beside a CLI or MCP build CURRENT can be
   left on a deleted or half-deleted generation.
4. `src/main.rs:8895`. The watermark is the newest entry of any agent of the run;
   a message written to a transcript that the run had already scanned may be older
   and is never extracted incrementally.

### Known behaviours without a run of their own

They were met while modelling; the models contain them, and the properties are
stated so that a reader sees where they stop.

- `src/search_engine.rs:803`. A lexical query that two publishes overtake opens,
  and thereby creates, an empty index and reports no hits; the directory is left
  for a later prune. `LexicalServesItsManifest` names this as the only exception.
- `src/vector_index.rs:747`. Carry-forward takes fingerprint and count for the
  identity of the texts; after a repair of finding 2 by a rescan the vectors embed
  the old ones. `VectorsFitTheManifest` says what holds regardless, and
  `VectorsEmbedTheTexts` that this is the only way.
- `src/catalog.rs:823`. A hot refresh replaces the row of a Junie session
  (`Opaque`) by one without working directory and project.
- `src/catalog.rs:1912`. The stamp of a linked worktree or submodule (`Linked`) is
  the mtime of its link file: a re-pointed origin goes unnoticed. `MemoNamesOrigin`
  and `RefreshesSettle` leave such checkouts out.
- `src/catalog.rs:1945`. A git call that fails is memoized as "no origin" until
  the checkout's metadata changes; the memo's theorem allows `None` for it.
- `src/catalog.rs:332`. A rebuild replaces rows written since its scan with what
  it scanned; a row comes back when a refresh or rebuild meets its transcript again.
- `src/state.rs:525`. The inherited watermark is stored under the new key by the
  first run even when that run holds its own watermark because a newcomer's
  transcript was refused; that newcomer's history is then skipped. With
  `Fragile = {s3}` TLC finds it in the run `extraction`; `SkippedIsAccountedFor`
  has it as an exception.
- `src/main.rs:9046`, `9120`, `9211`. A run that outputs nothing (no `--emit` and
  no `-o` is the default, and `--emit paths` has no paths to print) moves the
  watermark and remembers the hashes like any other: a later incremental run does
  not report what the silent one extracted. The properties count its entries as
  processed; `SeenIsOutput` and `WatermarksAreReported` say what holds without
  such runs.
- `src/extraction/mod.rs:298`, `src/main.rs:8334`. `--user-only` drops the
  assistant's messages before the watermark is taken, and the key of the watermark
  does not record the option: later runs without it do not report them
  (`declined`).
- `src/main.rs:8895`, `8966`. The watermark and, in incremental runs, the hashes
  are taken before the self-echo filter: echoes are remembered and never output,
  which is what the comment at line 9209 asks for.
- `src/locks.rs:136`, `346`. See the fairness of `AcquireReturns`: with a dead
  holder's sidecar that cannot be deleted a request spins past its deadline.
- `src/locks.rs:47`. A handle whose removal of its sidecar fails leaves a sidecar
  that names a process which has let go; a later time-out advises to kill it.
  `KillAdviceNamesHolder` excepts it (`left`).
- `src/search_engine.rs:1759`. A deep query compares counts and the source hash of
  its first manifest: a corpus replaced by another of the same size may pair the
  index of one with the vectors of the other. `DeepFailsClosed` compares counts, as
  the code does, and the corpora of the run differ in size: neither says anything
  of such a mix.
- `src/catalog.rs:674`. For Copilot, omp and agy a root that cannot be read ends
  the refresh with an error, at every tick as long as it lasts. `RefreshesSettle`
  is about refreshes that read the sources.
- `src/main.rs:8393`, `src/state.rs:529`. When an older release is run again after
  a newer one, the smaller of two compositions in `state.json` has the newer
  watermark; the next composition inherits that one for the agents of both, also
  for those the older release did not scan. `UpgradedInOrder` is the hypothesis
  that excludes it.
- `src/state.rs:430`. The save copies `state.json` over the backup unread: damage
  during a run and a kill before the replace lose both files, and the operator has
  to recover by hand (`ManualRecovery`).
- `src/overlay/cache.rs:419`. A slot is kept under the policy digest of the first
  snapshot although the parse reads the rules again. If rules are edited and
  edited back around the parse, the slot holds frames of the rules in between.
  With `Reverts = TRUE` TLC finds it in the run `overlay_feed`; `VersionsNeverMix`
  shows that the rules are all that can be wrong.
- `src/source_index.rs:2059`. The scope receipt is taken after the verdicts it
  stands for; a checkout that moves in between is attributed by the old layout
  under a receipt of the new one. The properties compare versions, rules and
  receipts and say nothing about the layout a verdict was made under.
- `src/mcp.rs:429`. A request dropped between creation and first touch, or within
  a close, leaves a session that counts against the cap and that no sweep sees.
  With `"first touch"` or `"close"` in `Cancellable` TLC finds it in the run
  `mcp_sessions`, and `DropsAloneLoseTrack` shows that nothing else does it; whether rmcp's HTTP layer can drop the future there is outside
  this repository.

## Not modelled, and why

Within the modelled components:

- catalog: rows of runtime runs and codescribe imports, the classes of `catalog
  status`, the 30 s live-delta cache of queries, rows whose directory is relative or
  in no repository (`project_for` returns before it looks at the memo), and a kill
  between the write of the memo and that of the catalog (`RefreshWrite` does both);
- generations: legacy root layouts, the retired NDJSON build and
  `incremental_materialize_hybrid`, which publish through the same step;
- source index: dry runs; colliding session ids that share an extract path; the
  embedder's identity (fixed), and with it the two conditions of the short-circuit
  about dense vectors (`source_index.rs:596`, `602`): a semantic build without them
  goes through the steps of any other build;
- extraction: `--project` filters and per-project reset (one bucket),
  segmentation, the denoising of `--conversation` (a run with output outputs every
  entry that is not an echo), roles other than user and assistant, the migration
  of hash algorithms;
- overlay: rows leaving the catalog or attributed to another repository
  (`Project` is a constant), the residual C6 feed, the anchoring of claims
  to symbols, the side index and materialization, the output receipt, the
  read-only reader of the slots (`load_source_conversation`), and the comparison
  of a source's resolved path;
- MCP sessions: transports and messages, which are rmcp's;
- locks: the Windows build, another protocol;
- dashboard: the corpus scans that share its `rebuilding` flag. They only read.

Clocks are not modelled: a deadline, a window or a time to live may run out at any
moment, which includes every real timing.

Components without a module. Most of the repository's lines are text: transcript
adapters and parser engine, scope evidence, chunker and sanitizer, redaction
patterns, intent and continuity heuristics, rendering, importers, doctor, wizard
and command line. They are deterministic functions of one file or one query over
unbounded strings, or prompts and reports; they share no state, and a model of
them would be a copy. Ranking, fusion and the window of the refill are
computations on floating-point scores within one query. Embeddings are calls to a
model. Index status is a projection of catalog and manifest.

The auto-refresh of the MCP server is the one writer without a module of its own.
Its tick runs `refresh_hot` and then a build under `lance.lock`: the operations
of `SessionCatalog` and `SourceIndex`, in turn. What is its own is the decision
to skip: it builds when its own refresh changed the catalog or the status reports
pending rows. A change that another process's refresh admitted, or whose build
failed after the refresh, and that was made before CURRENT was completed is
neither, and waits for the next change of any session. Composed with both modules
the instance exceeds what TLC finishes in minutes.

## Possible continuations

1. The skip decision of the auto-refresh over an abstract catalog and index, with
   `RefreshesSettle` and `RescanRepairs` as what the two promise.
2. `LiveDelta`: the 30 s cache as an extension of `SessionCatalog`, and a run for
   linked worktrees against the comment at `src/catalog.rs:1800`.
3. The orchestrator's window as a recursive function against its reference (the
   first `limit` matches of the first `budget` candidates).
4. The parse ledger under the two unserialised builders of `DashboardIndex`.
5. The overlay's reader of the slots beside a build, and rows that leave the
   catalog.
