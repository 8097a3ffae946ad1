--------------------------- MODULE SessionCatalog ---------------------------
(***************************************************************************)
(* The session catalog (src/src/catalog.rs): the explicit full rebuild,    *)
(* and the hot refresh that `index`, `continuity`, the wizard and the MCP  *)
(* auto-refresh run.  Both scan without a lock, ask git for the origin of  *)
(* each row's checkout through a memo file nobody locks, and replace       *)
(* sessions.jsonl under catalog.lock, while agents append to transcripts   *)
(* and operators re-point remotes.  Any process may be killed.             *)
(*                                                                         *)
(* A transcript's fingerprint is a version number; the rows of one session *)
(* do not depend on another's, so a scan is one step.  `catalog status`    *)
(* and the live delta of queries are the read-only half of a refresh.  The *)
(* rows of runtime runs and codescribe takes name no checkout and those of *)
(* codescribe bus ledgers copy their listener's: they are left out.        *)
(***************************************************************************)
EXTENDS Naturals

CONSTANTS
    Session,        \* agent sessions
    Growing,        \* those whose agent writes to them again
    Opaque,         \* those whose path tells no cwd (Junie): only a rebuild,
                    \* which reads the transcript, knows it
    Checkout,       \* working directories
    Linked,         \* those whose .git is a link file (worktree, submodule)
    RepoOf,         \* the checkout each transcript records
    Origin,         \* owner/repo slugs
    First,          \* what each checkout's origin is at first
    Guess,          \* the slug read off a directory layout
    Proc,           \* aicx processes
    MaxVersion,     \* bound on the versions of a transcript
    MaxMoves,       \* bound on the number of `git remote set-url`
    MaxRebuilds,    \* bound on the number of rebuilds
    MaxFaults,      \* bound on killed processes and failed git calls
    None            \* no cwd, no origin, no process, nothing

ASSUME RepoOfType == RepoOf \in [Session -> Checkout]
ASSUME FirstType == First \in [Checkout -> Origin \cup {None}]
ASSUME BoundsType == MaxVersion \in Nat \ {0} /\ MaxMoves \in Nat
ASSUME NoneIsNothing == None \notin Checkout \cup Origin \cup Proc \cup {Guess}

VARIABLES
    \* the world: transcripts and git metadata
    file,       \* none, hot (written inside the refresh window) or cold
    version,    \* how often each transcript was written
    origin,     \* the origin git reports for each checkout
    stamp,      \* the mtimes of its .git and .git/config
    \* what the catalog keeps on disk
    census,     \* sessions.jsonl exists
    catalog,    \* its rows
    memo,       \* the remote memo
    lock,       \* who holds catalog.lock
    \* each process
    pc,
    seen,       \* the census its delta is computed against
    delta,      \* the rows it will merge
    rows,       \* the rows it is attributing,
    todo,       \*   the sessions left of this pass,
    asked,      \*   and the one git is being asked about
    touched,    \* the pass changed the project of some row
    mem, dirty, \* its copy of the memo
    moves, rebuilds, faults     \* what the bounds count

world == <<file, version, origin, stamp, moves>>
disk  == <<census, catalog, memo, lock>>
pass  == <<rows, todo, asked, touched, mem, dirty>>
vars  == <<world, disk, pc, seen, delta, pass, rebuilds, faults>>

-----------------------------------------------------------------------------
\* The row of a session; version 0 stands for no row.
Row    == [version : 0..MaxVersion, cwd : Checkout \cup {None},
           project : Origin \cup {Guess, None}]
NoRow  == [version |-> 0, cwd |-> None, project |-> None]
NoRows == [s \in Session |-> NoRow]
Has(table, s) == table[s].version # 0

\* A memo entry; stamp 0 stands for no entry.
Memo == [Checkout -> [stamp : 0..MaxMoves + 1, project : Origin \cup {None}]]
NoMemo == [c \in Checkout |-> [stamp |-> 0, project |-> None]]

\* What the bounded header and the path of a transcript tell.
EntryFromSource(s) ==
    [version |-> version[s],
     cwd     |-> IF s \in Opaque THEN None ELSE RepoOf[s],
     project |-> IF s \in Opaque THEN None ELSE Guess]

\* What a rebuild adds by reading the transcript through.
EntryFromDiscovery(s) ==
    [version |-> version[s],
     cwd     |-> RepoOf[s],
     project |-> IF origin[RepoOf[s]] # None THEN origin[RepoOf[s]] ELSE Guess]

\* A hot transcript whose fingerprint the census does not hold.
Fresh(s) == file[s] = "hot" /\ catalog[s].version # version[s]

\* The rows of p's scan that differ from the census it read.
Changed(p) ==
    [s \in Session |-> IF Has(rows[p], s) /\ rows[p][s] # seen[p][s]
                       THEN rows[p][s] ELSE NoRow]

\* Mutants: the merge into the rows read before the lock, and one that only
\* admits sessions the census lacks.
MergedIntoPreview(p) ==
    [s \in Session |-> IF Has(delta[p], s) THEN delta[p][s] ELSE rows[p][s]]
MergedIfAbsent(p) ==
    [s \in Session |-> IF Has(catalog, s) THEN catalog[s] ELSE delta[p][s]]

\* The census under the lock, with the rows of p's delta.
Merged(p) ==
    [s \in Session |-> IF Has(delta[p], s) THEN delta[p][s] ELSE catalog[s]]

InProject(row, project) == [version |-> row.version, cwd |-> row.cwd, project |-> project]

\* Starts a reattribution of these rows, in p's memory.
Reattribute(p, table, loaded) ==
    /\ rows' = [rows EXCEPT ![p] = table]
    /\ todo' = [todo EXCEPT ![p] = {s \in Session : table[s].cwd # None}]
    /\ touched' = [touched EXCEPT ![p] = FALSE]
    /\ mem' = [mem EXCEPT ![p] = loaded]
    /\ dirty' = [dirty EXCEPT ![p] = FALSE]
    /\ UNCHANGED asked

\* p has gone through all its rows.
Attributed(p) == todo[p] = {} /\ asked[p] = None

\* The memo file is replaced when p asked git anything; last writer wins.
Persisted(p) == IF dirty[p] THEN mem[p] ELSE memo

\* The process ends, or goes on to its next command.
Finish(p) ==
    /\ pc' = [pc EXCEPT ![p] = "idle"]
    /\ seen' = [seen EXCEPT ![p] = NoRows]
    /\ delta' = [delta EXCEPT ![p] = NoRows]
    /\ rows' = [rows EXCEPT ![p] = NoRows]
    /\ todo' = [todo EXCEPT ![p] = {}]
    /\ asked' = [asked EXCEPT ![p] = None]
    /\ touched' = [touched EXCEPT ![p] = FALSE]
    /\ mem' = [mem EXCEPT ![p] = NoMemo]
    /\ dirty' = [dirty EXCEPT ![p] = FALSE]

Goto(p, from, to) == pc[p] = from /\ pc' = [pc EXCEPT ![p] = to]

-----------------------------------------------------------------------------
Init ==
    /\ file = [s \in Session |-> "none"]
    /\ version = [s \in Session |-> 0]
    /\ origin = First
    /\ stamp = [c \in Checkout |-> 1]
    /\ census = FALSE /\ catalog = NoRows /\ memo = NoMemo /\ lock = None
    /\ pc = [p \in Proc |-> "idle"]
    /\ seen = [p \in Proc |-> NoRows] /\ delta = seen /\ rows = seen
    /\ todo = [p \in Proc |-> {}]
    /\ asked = [p \in Proc |-> None]
    /\ touched = [p \in Proc |-> FALSE] /\ dirty = touched
    /\ mem = [p \in Proc |-> NoMemo]
    /\ moves = 0 /\ rebuilds = 0 /\ faults = 0

\* An agent writes to its transcript.
Append(s) ==
    /\ version[s] < IF s \in Growing THEN MaxVersion ELSE 1
    /\ version' = [version EXCEPT ![s] = @ + 1]
    /\ file' = [file EXCEPT ![s] = "hot"]
    /\ UNCHANGED <<origin, stamp, moves, disk, pc, seen, delta, pass, rebuilds, faults>>

\* It leaves the window, or the agent removes it.
Age(s) ==
    /\ file[s] # "none"
    /\ \E f \in {"cold", "none"} \ {file[s]} : file' = [file EXCEPT ![s] = f]
    /\ UNCHANGED <<version, origin, stamp, moves, disk, pc, seen, delta, pass, rebuilds, faults>>

\* `git remote set-url` or `remote remove`.  The config of a linked checkout
\* is in another directory, and its link file stays as it is.
Repoint(c) ==
    /\ moves < MaxMoves
    /\ moves' = moves + 1
    /\ \E o \in (Origin \cup {None}) \ {origin[c]} : origin' = [origin EXCEPT ![c] = o]
    /\ stamp' = IF c \in Linked THEN stamp ELSE [stamp EXCEPT ![c] = @ + 1]
    /\ UNCHANGED <<file, version, disk, pc, seen, delta, pass, rebuilds, faults>>

-----------------------------------------------------------------------------
\* The memo's entry for the checkout of a row has its present stamp.
Hit(p, s) == LET c == rows[p][s].cwd IN mem[p][c].stamp = stamp[c]

\* Mutant: a row without an origin goes back to the layout's guess.
KnownOrGuess(p, s) ==
    LET known == mem[p][rows[p][s].cwd].project IN
    IF ~Hit(p, s) THEN rows[p][s].project ELSE IF known = None THEN Guess ELSE known

\* What the memo tells of a row: its project stays when git has no origin.
Known(p, s) ==
    LET known == mem[p][rows[p][s].cwd].project IN
    IF Hit(p, s) /\ known # None THEN known ELSE rows[p][s].project

\* RemoteMemo::project_for of one row: the stamp first...
Stamp(p, s) ==
    LET c == rows[p][s].cwd
        project == Known(p, s)
    IN  /\ asked[p] = None /\ s \in todo[p]
        /\ rows' = [rows EXCEPT ![p][s] = InProject(@, project)]
        /\ touched' = [touched EXCEPT ![p] = @ \/ project # rows[p][s].project]
        /\ todo' = [todo EXCEPT ![p] = @ \ {s}]
        /\ asked' = [asked EXCEPT ![p] = IF Hit(p, s) THEN None ELSE [session |-> s, stamp |-> stamp[c]]]
        /\ UNCHANGED <<mem, dirty, world, disk, pc, seen, delta, rebuilds, faults>>

\* Mutant: the last known origin is kept when git reports none.
RememberedLastKnown(p, answer) ==
    [stamp |-> asked[p].stamp,
     project |-> IF answer = None
                 THEN mem[p][rows[p][asked[p].session].cwd].project ELSE answer]

\* What p memoizes: the answer under the stamp taken before git was asked.
Remembered(p, answer) == [stamp |-> asked[p].stamp, project |-> answer]

\* ... then git, when the memo has no entry with that stamp.
Answer(p, answer) ==
    LET s == asked[p].session
        project == IF answer # None THEN answer ELSE rows[p][s].project
    IN  /\ mem' = [mem EXCEPT ![p][rows[p][s].cwd] = Remembered(p, answer)]
        /\ dirty' = [dirty EXCEPT ![p] = TRUE]
        /\ rows' = [rows EXCEPT ![p][s] = InProject(@, project)]
        /\ touched' = [touched EXCEPT ![p] = @ \/ project # rows[p][s].project]
        /\ asked' = [asked EXCEPT ![p] = None]
        /\ UNCHANGED <<todo, world, disk, pc, seen, delta, rebuilds>>

Ask(p) ==
    /\ asked[p] # None
    /\ Answer(p, origin[rows[p][asked[p].session].cwd])
    /\ UNCHANGED faults

\* A git call that cannot be spawned or fails counts as "no origin".
AskFails(p) ==
    /\ asked[p] # None
    /\ faults < MaxFaults
    /\ faults' = faults + 1
    /\ Answer(p, None)

-----------------------------------------------------------------------------
\* refresh_hot, when there is a census, reads it, walks the hot window, and
\* attributes what it finds there.
RefreshScan(p) ==
    /\ census
    /\ Goto(p, "idle", "fresh")
    /\ seen' = [seen EXCEPT ![p] = catalog]
    /\ Reattribute(p, [s \in Session |-> IF Fresh(s) THEN EntryFromSource(s) ELSE NoRow], memo)
    /\ UNCHANGED <<world, disk, delta, rebuilds, faults>>

\* It compares that with the census it has read, and reads the catalog again
\* to see whether the origin of any other row moved.
RefreshPreview(p) ==
    /\ Goto(p, "fresh", "preview")
    /\ Attributed(p)
    /\ delta' = [delta EXCEPT ![p] = Changed(p)]
    /\ seen' = [seen EXCEPT ![p] = NoRows]
    /\ memo' = Persisted(p)
    /\ Reattribute(p, catalog, Persisted(p))
    /\ UNCHANGED <<world, census, catalog, lock, rebuilds, faults>>

NothingToDo(p) == delta[p] = NoRows /\ ~touched[p]

RefreshUnchanged(p) ==
    /\ pc[p] = "preview" /\ Attributed(p) /\ NothingToDo(p)
    /\ Finish(p)
    /\ memo' = Persisted(p)
    /\ UNCHANGED <<world, census, catalog, lock, rebuilds, faults>>

RefreshPending(p) ==
    /\ Goto(p, "preview", "lock")
    /\ Attributed(p) /\ ~NothingToDo(p)
    /\ memo' = Persisted(p)
    /\ dirty' = [dirty EXCEPT ![p] = FALSE]
    /\ UNCHANGED <<world, census, catalog, lock, seen, delta, rows, todo, asked, touched, mem, rebuilds, faults>>

\* Mutant: the refresh does not wait for catalog.lock.
RefreshLockUnguarded(p) ==
    /\ Goto(p, "lock", "merge")
    /\ lock' = p
    /\ Reattribute(p, Merged(p), mem[p])
    /\ UNCHANGED <<world, census, catalog, memo, seen, delta, rebuilds, faults>>

\* Under catalog.lock it reads the catalog a third time, merges, attributes
\* with the memo it has, and replaces the file.
RefreshLock(p) ==
    /\ Goto(p, "lock", "merge")
    /\ lock = None
    /\ lock' = p
    /\ Reattribute(p, Merged(p), mem[p])
    /\ UNCHANGED <<world, census, catalog, memo, seen, delta, rebuilds, faults>>

RefreshWrite(p) ==
    /\ pc[p] = "merge" /\ Attributed(p)
    /\ memo' = Persisted(p)
    /\ catalog' = rows[p]
    /\ lock' = None
    /\ Finish(p)
    /\ UNCHANGED <<world, census, rebuilds, faults>>

-----------------------------------------------------------------------------
\* `aicx catalog rebuild` scans everything,
RebuildScan(p) ==
    /\ rebuilds < MaxRebuilds
    /\ rebuilds' = rebuilds + 1
    /\ Goto(p, "idle", "rebuild")
    /\ Reattribute(p, [s \in Session |-> IF file[s] # "none" THEN EntryFromDiscovery(s) ELSE NoRow], memo)
    /\ UNCHANGED <<world, disk, seen, delta, faults>>

RebuildAttributed(p) ==
    /\ Goto(p, "rebuild", "publish")
    /\ Attributed(p)
    /\ memo' = Persisted(p)
    /\ dirty' = [dirty EXCEPT ![p] = FALSE]
    /\ UNCHANGED <<world, census, catalog, lock, seen, delta, rows, todo, asked, touched, mem, rebuilds, faults>>

\* and takes catalog.lock for the write alone.
RebuildPublish(p) ==
    /\ pc[p] = "publish"
    /\ lock = None
    /\ census' = TRUE
    /\ catalog' = rows[p]
    /\ Finish(p)
    /\ UNCHANGED <<world, memo, lock, rebuilds, faults>>

\* A process dies; the kernel drops its lock, nothing is half written.
Kill(p) ==
    /\ pc[p] # "idle"
    /\ faults < MaxFaults
    /\ faults' = faults + 1
    /\ lock' = IF lock = p THEN None ELSE lock
    /\ Finish(p)
    /\ UNCHANGED <<world, census, catalog, memo, rebuilds>>

-----------------------------------------------------------------------------
Attribute(p) == (\E s \in Session : Stamp(p, s)) \/ Ask(p)

Refresh(p) ==
    \/ RefreshScan(p) \/ RefreshPreview(p) \/ RefreshUnchanged(p)
    \/ RefreshPending(p) \/ RefreshLock(p) \/ RefreshWrite(p)

Rebuild(p) == RebuildAttributed(p) \/ RebuildPublish(p)

World == \/ \E s \in Session : Append(s) \/ Age(s)
         \/ \E c \in Checkout : Repoint(c)

Next == \/ World
        \/ \E p \in Proc : \/ Attribute(p) \/ AskFails(p)
                           \/ Refresh(p) \/ Rebuild(p) \/ RebuildScan(p) \/ Kill(p)

\* A process that runs goes on, and refreshes keep coming (each interactive
\* command runs one, and so does every tick of the auto-refresh); whether
\* a rebuild is ever run again is the operator's choice.
Fairness == \A p \in Proc : WF_vars(Attribute(p)) /\ WF_vars(Refresh(p)) /\ WF_vars(Rebuild(p))

Spec == Init /\ [][Next]_vars /\ Fairness
-----------------------------------------------------------------------------
\* Every variable has the values the code can give it, and the process that
\* is merging is the one that holds catalog.lock.
TypeOK ==
    /\ file \in [Session -> {"none", "hot", "cold"}]
    /\ version \in [Session -> 0..MaxVersion]
    /\ origin \in [Checkout -> Origin \cup {None}]
    /\ stamp \in [Checkout -> 1..MaxMoves + 1]
    /\ census \in BOOLEAN
    /\ catalog \in [Session -> Row]
    /\ memo \in Memo
    /\ lock \in Proc \cup {None}
    /\ pc \in [Proc -> {"idle", "fresh", "preview", "lock", "merge", "rebuild", "publish"}]
    /\ seen \in [Proc -> [Session -> Row]]
    /\ delta \in [Proc -> [Session -> Row]]
    /\ rows \in [Proc -> [Session -> Row]]
    /\ todo \in [Proc -> SUBSET Session]
    /\ asked \in [Proc -> [session : Session, stamp : 1..MaxMoves + 1] \cup {None}]
    /\ touched \in [Proc -> BOOLEAN]
    /\ dirty \in [Proc -> BOOLEAN]
    /\ mem \in [Proc -> Memo]
    /\ moves \in 0..MaxMoves
    /\ \A p \in Proc : pc[p] = "merge" <=> lock = p

\* A memo entry that the next refresh will trust names the present origin, or
\* none when git failed: RemoteMemo::project_for stamps before it asks, and
\* writers overwrite each other's memo file.  A linked checkout's stamp does
\* not follow its origin.
Trusted(m) == \A c \in Checkout \ Linked :
    m[c].stamp = stamp[c] => m[c].project \in {origin[c], None}
MemoNamesOrigin == Trusted(memo)

\* refresh_hot "merges hot rows under the same catalog write lock and never
\* deletes cold rows": whatever was written since it scanned, its write keeps
\* every row outside its delta, at most with another project.
RefreshKeepsColdRows == [][
    \A p \in Proc : pc[p] = "merge" /\ catalog' # catalog =>
        \A s \in Session : Has(catalog, s) =>
            /\ Has(catalog', s)
            /\ ~Has(delta[p], s) => /\ catalog'[s].version = catalog[s].version
                                    /\ catalog'[s].cwd = catalog[s].cwd]_vars

\* Nothing is left for a refresh: the census has every hot transcript as it
\* is, the memo has an answer for the present stamp of every checkout, and
\* the processes that run have found nothing.
FoundNothing(p) ==
    /\ delta[p] = NoRows /\ asked[p] = None /\ ~touched[p] /\ ~dirty[p]
    /\ \/ pc[p] = "idle"
       \/ pc[p] = "fresh" /\ rows[p] = NoRows /\ mem[p] = memo
       \/ pc[p] = "preview" /\ rows[p] = catalog /\ mem[p] = memo
UpToDate ==
    /\ census
    /\ \A s \in Session :
           /\ file[s] = "hot" => catalog[s].version = version[s]
           /\ LET c == catalog[s].cwd IN
              c # None => /\ memo[c].stamp = stamp[c]
                          /\ memo[c].project \in {catalog[s].project, None}
    /\ \A p \in Proc : FoundNothing(p)

\* The fixed point stays one (live_delta_uncached: "A fixed point was
\* unreachable by construction"): until a transcript is written, a stamp moves
\* or a rebuild begins, any number of refreshes find nothing and replace
\* neither file, kills included.
RefreshesLeaveItAlone == [][
    UpToDate /\ UNCHANGED <<version, stamp, rebuilds>> =>
        UpToDate' /\ UNCHANGED <<catalog, memo>>]_vars

\* The delta reaches a fixed point: once the world is quiet, refreshes stop
\* rewriting the catalog, which then holds the version of every hot
\* transcript, and the present origin unless the memo has none for it.
Current(s) ==
    /\ file[s] = "hot" => catalog[s].version = version[s]
    /\ LET c == catalog[s].cwd IN
       c # None => \/ origin[c] \in {None, catalog[s].project}
                   \/ c \in Linked \/ memo[c].project = None
RefreshesSettle ==
    [](census => <>[](/\ \A p \in Proc : pc[p] # "merge"
                      /\ \A s \in Session : Current(s)))
=============================================================================
