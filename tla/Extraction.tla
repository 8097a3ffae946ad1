------------------------------ MODULE Extraction ------------------------------
(***************************************************************************)
(* Incremental extraction (`aicx claude`, `aicx codex`, `aicx all`) and    *)
(* its state.json: run_extraction and run_state of src/src/main.rs, the    *)
(* session scan of src/src/extraction/mod.rs and StateManager of           *)
(* src/src/state.rs.                                                       *)
(*                                                                         *)
(* A run takes the state lock, loads state.json, reads the transcripts of  *)
(* its agents one after the other while those agents go on writing, keeps  *)
(* what is newer than its watermark and not yet seen, outputs it if it was *)
(* told to (--emit json, or -o; by default a run outputs nothing), and     *)
(* saves the moved watermark and the hashes of what it kept.  A watermark  *)
(* is kept per KEY, the set of agents a run scans, not per agent.          *)
(*                                                                         *)
(* One repository bucket and no -p filter.  The clock ticks with every     *)
(* message; an agent outside FullWindow writes in timestamp order.         *)
(***************************************************************************)
EXTENDS Naturals, FiniteSets, FiniteSetsExt

CONSTANTS
    Agent,          \* numbered in the order a run scans them
    Session,        \* transcripts
    AgentOf,        \* the agent that writes each
    FullWindow,     \* agents scanned without a watermark (copilot, omp)
    Key,            \* the agent sets that commands scan
    AliasesOf,      \* older compositions whose watermark a key inherits
    Fragile,        \* transcripts that may be refused by the parser
    Command,        \* the invocations: key, mode, lookback limit (0 is all time),
                    \* whether entries are output, and --user-only
    Text,           \* what is said
    Speech,         \* what may be said in each transcript, and by whom
    Echo,           \* texts that are aicx's own output (is_self_echo)
    Minute,         \* clock ticks per overlap bucket
    MaxHashes,      \* what prune_old_hashes keeps per bucket (50_000)
    Proc,           \* CLI processes
    MaxClock, MaxRuns, MaxFaults,   \* bounds: messages, commands, things that go wrong
    Malformed, None

Time == 0..MaxClock
Mode == {"incremental", "full_rescan", "force"}
Role == {"user", "assistant"}
Entry == [session : Session, ts : Time \ {0}, role : Role, text : Text]

\* content_hash forgets the session and the role, overlap_hash the agent too,
\* and rounds the timestamp.
Exact(e) == <<AgentOf[e.session], e.ts, e.text>>
Overlap(e) == <<e.ts \div Minute, e.text>>
ExactHash == Agent \X Time \X Text
OverlapHash == Nat \X Text

\* last_processed (0 where a key has none) and the two seen_hashes buckets.
StateManager == [mark : [Key -> Time], exact : SUBSET ExactHash,
                 overlap : SUBSET OverlapHash]
Default == [mark |-> [k \in Key |-> 0], exact |-> {}, overlap |-> {}]

ASSUME AgentsAreNumbered == Agent \subseteq Nat
ASSUME AgentOfType == AgentOf \in [Session -> Agent]
ASSUME KeyType == Key \subseteq SUBSET Agent /\ AliasesOf \in [Key -> SUBSET Key]
ASSUME CommandType == Command \subseteq [key : Key, mode : Mode, cutoff : Time,
                                         emits : BOOLEAN, userOnly : BOOLEAN]
ASSUME SpeechType == Speech \subseteq Session \X Role \X Text
ASSUME BoundsType == /\ {MaxClock, MaxRuns, MaxFaults} \subseteq Nat
                     /\ Minute \in Nat \ {0}
ASSUME NoneIsNew == /\ None \notin Proc /\ Malformed # None
                    /\ None \notin StateManager /\ Malformed \notin StateManager

VARIABLES
    clock,      \* messages written so far
    log,        \* the transcripts
    mtime,      \* of each transcript; 0 while it does not exist
    primary,    \* state.json
    backup,     \* state.json.bak
    lock,       \* state.lock
    run,        \* what each process is doing
    emitted,    \* what went to stdout and to reports
    unsaid,     \* history: what a run had ready and did not output
    declined,   \* history: what the assistant said and --user-only left out
    behind,     \* history: messages a running scan had already passed
    cut,        \* history: the tightest lookback limit a run was given
    runs, faults    \* commands started, things gone wrong

world == <<clock, log, mtime>>
disk == <<primary, backup>>
results == <<emitted, unsaid>>
history == <<behind, cut, declined>>
vars == <<world, disk, lock, run, results, history, runs, faults>>

Init ==
    /\ clock = 0 /\ log = {} /\ mtime = [s \in Session |-> 0]
    /\ primary = None /\ backup = None
    /\ lock = None
    /\ run = [p \in Proc |-> None]
    /\ emitted = {} /\ unsaid = {} /\ declined = {}
    /\ behind = {} /\ cut = 0
    /\ runs = 0 /\ faults = 0

-----------------------------------------------------------------------------
\* The agents.

\* The scan of r is done with session s: its agent was listed, and s is not
\* waiting to be parsed.
Passed(r, s) == /\ r # None /\ r.phase = "scan"
                /\ AgentOf[s] \in r.key \ r.agents
                /\ \A q \in r.queue : q.session # s

\* A message is written.  Agents of FullWindow may append one with the time of
\* the message before it.
Write(s, ts, role, text) ==
    LET e == [session |-> s, ts |-> ts, role |-> role, text |-> text] IN
    /\ <<s, role, text>> \in Speech
    /\ clock < MaxClock
    /\ ts = clock + 1 \/ (AgentOf[s] \in FullWindow /\ ts = clock)
    /\ e \notin log
    /\ ts # 0
    /\ clock' = clock + 1
    /\ log' = log \union {e}
    /\ mtime' = [mtime EXCEPT ![s] = clock + 1]
    /\ behind' = IF \E p \in Proc : Passed(run[p], s) THEN behind \union {e} ELSE behind
    /\ UNCHANGED <<disk, lock, run, results, cut, declined, runs, faults>>

-----------------------------------------------------------------------------
\* StateManager::load: a malformed state.json is replaced by the backup.

Loadable == primary # Malformed \/ backup \notin {None, Malformed}

Loaded == IF primary = None THEN Default
          ELSE IF primary = Malformed THEN backup ELSE primary

Healed == IF primary = Malformed THEN backup ELSE primary

\* migrate_watermark_aliases: a key without a watermark inherits the newest
\* one of the older compositions.
MigratedMark(st, k) ==
    IF st.mark[k] # 0 THEN st.mark[k]
    ELSE Max({0} \union {st.mark[a] : a \in AliasesOf[k]})

\* Mutant: an inherited watermark covers the whole composition.
CoveredAll(st, k) == k

\* watermark_covered_agents: whom the stored watermark speaks for.
Covered(st, k) ==
    IF st.mark[k] # 0 THEN k
    ELSE UNION {a \in AliasesOf[k] : st.mark[a] # 0}

\* Mutant: two runs at a time.
LockStateUnguarded(p) ==
    /\ run[p] = None /\ Loadable /\ lock' = p
    /\ runs < MaxRuns /\ runs' = runs + 1

\* The state lock, and a load that does not fail.
LockState(p) ==
    /\ run[p] = None /\ Loadable /\ lock = None /\ lock' = p
    /\ runs < MaxRuns /\ runs' = runs + 1

\* run_extraction up to the scan: lock, load, migrate, choose the watermark.
BeginRun(p, c) ==
    LET st == Loaded
        mark == MigratedMark(st, c.key)
    IN  /\ LockState(p)
        /\ primary' = Healed
        /\ run' = [run EXCEPT ![p] =
              [phase |-> "scan", key |-> c.key, mode |-> c.mode, cutoff |-> c.cutoff,
               emits |-> c.emits, userOnly |-> c.userOnly,
               state |-> [st EXCEPT !.mark[c.key] = mark],
               watermark |-> IF c.mode = "incremental" THEN mark ELSE 0,
               covered |-> Covered(st, c.key),
               agents |-> c.key, queue |-> {}, entries |-> {}, latest |-> 0,
               ingested |-> FALSE, skipped |-> FALSE]]
        /\ cut' = Max({cut, c.cutoff})
        /\ UNCHANGED <<world, backup, results, behind, declined, faults>>

\* `aicx state --reset`: the hashes go, the watermarks stay.
BeginReset(p) ==
    /\ LockState(p)
    /\ primary' = Healed
    /\ run' = [run EXCEPT ![p] =
          [phase |-> "save", key |-> {}, mode |-> "reset", cutoff |-> 0,
           emits |-> FALSE, userOnly |-> FALSE,
           state |-> [Loaded EXCEPT !.exact = {}, !.overlap = {}],
           watermark |-> 0, covered |-> {}, agents |-> {}, queue |-> {},
           entries |-> {}, latest |-> 0, ingested |-> FALSE, skipped |-> FALSE]]
    /\ UNCHANGED <<world, backup, results, history, faults>>

-----------------------------------------------------------------------------
\* The scan, one agent after the other.

Scanning(p) == run[p] # None /\ run[p].phase = "scan"

\* The watermark agent a is scanned against; 0 is none.
Floor(r, a) ==
    IF a \notin r.covered \/ a \in FullWindow THEN 0 ELSE r.watermark

\* The transcripts of the next agent that were modified since.
Discover(p) ==
    LET r == run[p]
        a == Min(r.agents)
        bound == IF Floor(r, a) # 0 THEN Floor(r, a) ELSE r.cutoff
    IN  /\ Scanning(p) /\ r.queue = {} /\ r.agents # {}
        /\ run' = [run EXCEPT
              ![p].agents = @ \ {a},
              ![p].queue = {[session |-> s, mtime |-> mtime[s]] :
                              s \in {u \in Session : AgentOf[u] = a /\ mtime[u] > bound}}]
        /\ UNCHANGED <<world, disk, lock, results, history, runs, faults>>

\* Freshest first, by the mtimes of the listing.
NextSource(p, q) == /\ Scanning(p) /\ q \in run[p].queue
                    /\ \A u \in run[p].queue : u.mtime <= q.mtime

\* What a transcript holds when it is parsed, cut by cutoff and watermark.
Ingested(r, s) == {e \in log : /\ e.session = s
                               /\ e.ts >= r.cutoff
                               /\ e.ts > Floor(r, AgentOf[s])}

\* --user-only leaves out what the assistant said.
Wanted(r, E) == {e \in E : r.userOnly => e.role = "user"}

Parse(p) ==
    \E q \in run[p].queue :
        LET E == Ingested(run[p], q.session) IN
        /\ NextSource(p, q)
        /\ run' = [run EXCEPT
              ![p].queue = @ \ {q},
              ![p].ingested = TRUE,
              ![p].entries = @ \union Wanted(run[p], E)]
        /\ declined' = declined \union (E \ Wanted(run[p], E))
        /\ UNCHANGED <<world, disk, lock, results, behind, cut, runs, faults>>

\* The parser refuses it (half-written, or broken); the batch goes on.
Skip(p) ==
    \E q \in run[p].queue :
        /\ NextSource(p, q)
        /\ q.session \in Fragile /\ faults < MaxFaults
        /\ faults' = faults + 1
        /\ run' = [run EXCEPT ![p].queue = @ \ {q}, ![p].skipped = TRUE]
        /\ UNCHANGED <<world, disk, lock, results, history, runs>>

Scanned(p) == Scanning(p) /\ run[p].queue = {} /\ run[p].agents = {}

\* Everything selected was refused: the process exits and saves nothing.
ExitAllSkipped(p) ==
    /\ Scanned(p) /\ run[p].skipped /\ ~run[p].ingested
    /\ run' = [run EXCEPT ![p] = None]
    /\ lock' = None
    /\ UNCHANGED <<world, disk, results, history, runs, faults>>

-----------------------------------------------------------------------------
\* Dedup, output, save.

\* What the seen hashes leave of the extracted entries: --full-rescan and
\* --force do not look at them.
Fresh(r) ==
    IF r.mode # "incremental" THEN r.entries
    ELSE {e \in r.entries : /\ Exact(e) \notin r.state.exact
                            /\ Overlap(e) \notin r.state.overlap}

\* dedup_segments_per_repo keeps one of the entries with one overlap hash,
\* the first in segment order; --force keeps them all.
Survivors(r) ==
    IF r.mode = "force" THEN {r.entries}
    ELSE {K \in SUBSET Fresh(r) :
             \A e \in Fresh(r) : Cardinality({d \in K : Overlap(d) = Overlap(e)}) = 1}

\* Mutant: the time of the run, not of its newest entry.
LatestIsNow(r) == IF r.skipped \/ r.entries = {} THEN 0 ELSE clock + 1

\* The watermark candidate: the newest raw entry, unless a session was skipped.
RawExtractLatest(r) ==
    IF r.skipped \/ r.entries = {} THEN 0 ELSE Max({e.ts : e \in r.entries})

\* prune_old_hashes: at most MaxHashes are kept (which ones are the newest is
\* left open).
Pruned(hashes) ==
    IF Cardinality(hashes) <= MaxHashes THEN {hashes}
    ELSE {kept \in SUBSET hashes : Cardinality(kept) = MaxHashes}

Marked(st, kept) ==
    [st EXCEPT !.exact = @ \union {Exact(e) : e \in kept},
               !.overlap = @ \union {Overlap(e) : e \in kept}]

\* Mutant: the state is saved before the output is written.
DedupSaves(p) ==
    LET r == run[p] IN
    /\ Scanned(p) /\ ~(r.skipped /\ ~r.ingested)
    /\ \E kept \in Survivors(r) :
           /\ run' = [run EXCEPT
                 ![p].phase = "output",
                 ![p].latest = RawExtractLatest(r),
                 ![p].entries = kept,
                 ![p].state = IF r.mode = "incremental" THEN Marked(@, kept) ELSE @]
           /\ primary' = Marked(r.state, kept)
    /\ UNCHANGED <<world, backup, lock, results, history, runs, faults>>

\* The candidate is taken from the raw entries; the survivors of an
\* incremental run are marked seen at once, in memory.
Dedup(p) ==
    LET r == run[p] IN
    /\ Scanned(p) /\ ~(r.skipped /\ ~r.ingested)
    /\ \E kept \in Survivors(r) :
           run' = [run EXCEPT
               ![p].phase = "output",
               ![p].latest = RawExtractLatest(r),
               ![p].entries = kept,
               ![p].state = IF r.mode = "incremental" THEN Marked(@, kept) ELSE @]
    /\ UNCHANGED <<world, disk, lock, results, history, runs, faults>>

\* What the self-echo filter lets through, and what of it is output: stdout
\* has entries for --emit json only, reports are written with -o only.
Reportable(r) == {e \in r.entries : e.text \notin Echo}
Reported(r) == IF r.emits THEN Reportable(r) ELSE {}

\* The self-echo filter, stdout and reports; then, output or not, the
\* watermark, the marks of the other modes and the pruning, in memory.
Output(p) ==
    LET r == run[p]
        st == Marked(r.state, Reportable(r))
    IN  /\ r # None /\ r.phase = "output"
        /\ emitted' = emitted \union Reported(r)
        /\ unsaid' = unsaid \union (r.entries \ Reported(r))
        /\ \E exact \in Pruned(st.exact), overlap \in Pruned(st.overlap) :
              run' = [run EXCEPT
                  ![p].phase = "save",
                  ![p].state = [mark |-> [st.mark EXCEPT ![r.key] = Max({@, r.latest})],
                                exact |-> exact, overlap |-> overlap]]
        /\ UNCHANGED <<world, disk, lock, history, runs, faults>>

\* save_to_path: the previous file, whatever it holds, becomes the backup,
SaveBackup(p) ==
    /\ run[p] # None /\ run[p].phase = "save"
    /\ backup' = IF primary = None THEN backup ELSE primary
    /\ run' = [run EXCEPT ![p].phase = "replace"]
    /\ UNCHANGED <<world, primary, lock, results, history, runs, faults>>

\* and is replaced; the lock is dropped when the command returns.
SavePrimary(p) ==
    /\ run[p] # None /\ run[p].phase = "replace"
    /\ primary' = run[p].state
    /\ run' = [run EXCEPT ![p] = None]
    /\ lock' = None
    /\ UNCHANGED <<world, backup, results, history, runs, faults>>

\* A kill, or an error return (a typed refusal, a report that cannot be
\* written, a failed save): nothing more is written, the lock is free.
Abort(p) ==
    /\ run[p] # None
    /\ faults < MaxFaults
    /\ faults' = faults + 1
    /\ run' = [run EXCEPT ![p] = None]
    /\ lock' = None
    /\ UNCHANGED <<world, disk, results, history, runs>>

\* state.json is damaged from outside.
Damage ==
    /\ primary \notin {None, Malformed}
    /\ faults < MaxFaults
    /\ faults' = faults + 1
    /\ primary' = Malformed
    /\ UNCHANGED <<world, backup, lock, run, results, history, runs>>

\* "Manual recovery needed": every command fails until the operator removes it.
ManualRecovery ==
    /\ ~Loadable
    /\ primary' = None
    /\ UNCHANGED <<world, backup, lock, run, results, history, runs, faults>>

-----------------------------------------------------------------------------
\* A process inside a command.
Proceed(p) ==
    /\ run[p] # None
    /\ \/ Discover(p) \/ Parse(p) \/ ExitAllSkipped(p)
       \/ Dedup(p) \/ Output(p) \/ SaveBackup(p) \/ SavePrimary(p)

Next ==
    \/ \E s \in Session, ts \in Time, role \in Role, text \in Text : Write(s, ts, role, text)
    \/ \E p \in Proc :
        \/ \E c \in Command : BeginRun(p, c)
        \/ BeginReset(p)
        \/ Proceed(p)
        \/ run[p] # None /\ Skip(p)
        \/ Abort(p)
    \/ Damage \/ ManualRecovery

Spec == Init /\ [][Next]_vars

-----------------------------------------------------------------------------
\* The run of a process and its phase.
Run == [phase : {"scan", "output", "save", "replace"}, key : SUBSET Agent,
        mode : Mode \union {"reset"}, cutoff : Time, emits : BOOLEAN,
        userOnly : BOOLEAN, state : StateManager,
        watermark : Time, covered : SUBSET Agent, agents : SUBSET Agent,
        queue : SUBSET [session : Session, mtime : Time], entries : SUBSET Entry,
        latest : Time, ingested : BOOLEAN, skipped : BOOLEAN]

\* The types of the variables.
TypeOK ==
    /\ clock \in Time /\ log \subseteq Entry /\ mtime \in [Session -> Time]
    /\ primary \in StateManager \union {None, Malformed}
    /\ backup \in StateManager \union {None, Malformed}
    /\ lock \in Proc \union {None}
    /\ run \in [Proc -> Run \union {None}]
    /\ \A p \in Proc : run[p] # None => \/ run[p].key \in Key
                                        \/ run[p].mode = "reset" /\ run[p].phase \in {"save", "replace"}
    /\ emitted \subseteq Entry /\ unsaid \subseteq Entry
    /\ declined \subseteq Entry /\ behind \subseteq Entry /\ cut \in Time
    /\ runs \in 0..MaxRuns /\ faults \in 0..MaxFaults

\* The entries that went through the output step of a run: output, or held back
\* there because the command asked for no output or the text is an echo.
Processed == emitted \union unsaid

\* e went through it, or the twin that dedup prefers to it.
Handled(e) == \E d \in Processed : Overlap(d) = Overlap(e)

\* Whatever dedup will hold back went through the output step: no file of
\* state.json or its backup names a hash that no run got to output, though runs
\* are killed between dedup, output and the two writes of the save.  What
\* --user-only left out is in neither.
SeenWasProcessed ==
    \A st \in {primary, backup} \ {None, Malformed} :
        /\ \A h \in st.exact : \E e \in Processed : Exact(e) = h
        /\ \A h \in st.overlap : \E e \in Processed : Overlap(e) = h

\* A watermark speaks for every agent of its key: each of their messages up to
\* it was processed, was left out by a --user-only run that read it, was older
\* than a lookback limit, or came to a transcript a scan had already passed.
WatermarkIsHonest ==
    \A st \in {primary, backup} \ {None, Malformed}, k \in Key, e \in log :
        /\ AgentOf[e.session] \in k \ FullWindow
        /\ e.ts <= st.mark[k]
        => Handled(e) \/ e \in declined \/ e \in behind \/ e.ts <= cut

\* The doc comment of `aicx all`, "uses per-source watermarks to skip
\* already-processed entries", taken at its word, where a silent run and
\* --user-only count as processing too: with no lookback limit what a watermark
\* skips was processed.
SkippedWasProcessed ==
    primary \in StateManager =>
        \A k \in Key, e \in log :
            /\ AgentOf[e.session] \in k \ FullWindow
            /\ e.ts <= primary.mark[k]
            => Handled(e) \/ e \in declined \/ e.ts <= cut

\* state.json only moves forward: no save takes back a watermark of the file it
\* replaces, whatever was loaded from the backup and whoever ran meanwhile.
WatermarkNeverRetreats ==
    [][{primary, primary'} \subseteq StateManager =>
          \A k \in Key : primary'.mark[k] >= primary.mark[k]]_vars
=============================================================================
