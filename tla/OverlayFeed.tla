----------------------------- MODULE OverlayFeed -----------------------------
(***************************************************************************)
(* The catalog feed of the intent overlay (src/src/overlay/cache.rs, and   *)
(* the producer's claim and lock in src/src/overlay.rs): the claims of all *)
(* transcripts the catalog lists for one repository, kept in an index root *)
(* as one parse slot per transcript and one feed for all of them.          *)
(*                                                                         *)
(* No lock stops the agents that write the transcripts, the catalog, the   *)
(* ignore rules or the checkouts meanwhile: a build takes a snapshot,      *)
(* reads, takes a second one and compares.  What is made of a transcript   *)
(* is reduced to what it depends on: the version parsed, the rules that    *)
(* filtered it, the checkouts it was attributed by and its scope receipt.  *)
(* Locks are those of AicxLocks; digests and checksums never collide.      *)
(***************************************************************************)
EXTENDS Naturals

CONSTANTS
    Proc,       \* processes that build overlays in this index root
    Repo,       \* the repositories they build for
    Source,     \* transcripts
    Project,    \* the repository each transcript's catalog row names
    Policy,     \* ignore rules
    Reverts,    \* whether rules replaced, or transcripts gone, may come back
    Layout,     \* states of the checkouts on this host
    MaxEdits,   \* bound on the changes of the world
    None        \* no file, no marker, nothing

ASSUME ProjectType == Project \in [Source -> Repo]
ASSUME PolicyType == Policy \subseteq Nat
ASSUME RevertsType == Reverts \in BOOLEAN
ASSUME MaxEditsType == MaxEdits \in Nat

VARIABLES
    file,       \* the transcripts' bytes and what opening them gives
    known,      \* rows of catalog.jsonl
    policy,     \* the ignore rules
    layout,     \* the checkouts
    edits,      \* changes of the above so far
    owner,      \* catalog-cache-owner-v1.json
    slot,       \* catalog-source-v1-*.json
    feed,       \* catalog-feed-v1.json
    build       \* what each process is doing

world == <<file, known, policy, layout, edits>>
vars == <<file, known, policy, layout, edits, owner, slot, feed, build>>

-----------------------------------------------------------------------------
\* A transcript: every change of it, its permissions or its presence makes
\* a new version (inode and ctime).
State == [ver : Nat, kind : {"ready", "missing", "unavailable"}]

\* source_state: the fingerprint of a transcript that can be opened; one that
\* is gone or closed has none.
Seen(s) == IF file[s].kind = "ready" THEN file[s] ELSE [file[s] EXCEPT !.ver = 0]

\* Snapshot: the rows selected for a repository, each with its state.
Snapshot == [policy : Policy, rows : SUBSET Source,
             state : [Source -> State \union {None}]]

\* The frames of one transcript and the receipt of the layout kept with them.
Frames == [ver : Nat, layout : Layout, policy : Policy, receipt : Layout]
Draft == [ver : Nat, layout : Layout, policy : Policy \union {None},
          receipt : Layout \union {None}]

\* ConversationCache and FeedCache; the policy digest covers the repository.
Slot == [repo : Repo, policy : Policy, state : State, frames : Frames]
Feed == [repo : Repo, key : Snapshot,
         items : [Source -> Frames \union {None}]]

ASSUME NoneIsNothing ==
    /\ None \notin Repo /\ None \notin Source
    /\ None \notin Policy /\ None \notin Layout
    /\ None \notin State \union Snapshot \union Draft \union Slot \union Feed

NoRows == [s \in Source |-> None]
Rows(r) == {s \in known : Project[s] = r}
Ready(snap) == {s \in snap.rows : snap.state[s].kind = "ready"}
Unavailable(snap) == {s \in snap.rows : snap.state[s].kind = "unavailable"}

\* The snapshot that stopping the world would give.
WorldOf(r) == [policy |-> policy, rows |-> Rows(r),
               state |-> [s \in Source |-> IF s \in Rows(r) THEN Seen(s)
                                                            ELSE None]]

Idle == [pc |-> "idle", repo |-> None, rebuild |-> FALSE, start |-> 0,
         before |-> None, snap |-> None, todo |-> {}, whole |-> FALSE,
         hit |-> FALSE, cacheable |-> TRUE, memo |-> None,
         at |-> None, frames |-> None, items |-> NoRows]

Init ==
    /\ file = [s \in Source |-> [ver |-> 0, kind |-> "ready"]]
    /\ known \in SUBSET Source
    /\ policy \in Policy
    /\ layout \in Layout
    /\ edits = 0
    /\ owner = None
    /\ slot = NoRows
    /\ feed = None
    /\ build = [p \in Proc |-> Idle]

-----------------------------------------------------------------------------
\* The world: writers that take none of this module's locks.

Edit == edits < MaxEdits /\ edits' = edits + 1

\* An agent appends, a transcript goes away or can no longer be opened.
Touch(s, k) ==
    /\ Edit
    /\ Reverts \/ file[s].kind = "ready"
    /\ file' = [file EXCEPT ![s] = [ver |-> @.ver + 1, kind |-> k]]
    /\ UNCHANGED <<known, policy, layout, owner, slot, feed, build>>

\* A catalog refresh adds a row.
Admit(s) ==
    /\ Edit
    /\ s \notin known
    /\ known' = known \union {s}
    /\ UNCHANGED <<file, policy, layout, owner, slot, feed, build>>

EditRules(q) ==
    /\ Edit
    /\ IF Reverts THEN q # policy ELSE q > policy
    /\ policy' = q
    /\ UNCHANGED <<file, known, layout, owner, slot, feed, build>>

MoveCheckout(l) ==
    /\ Edit
    /\ l # layout
    /\ layout' = l
    /\ UNCHANGED <<file, known, policy, owner, slot, feed, build>>

World == \/ \E s \in Source, k \in {"ready", "missing", "unavailable"} :
                Touch(s, k)
         \/ \E s \in Source : Admit(s)
         \/ \E q \in Policy : EditRules(q)
         \/ \E l \in Layout : MoveCheckout(l)

-----------------------------------------------------------------------------
\* build_overlay up to the producer lock

At(p, pc) == build[p].pc = pc
Becomes(p, b) == build' = [build EXCEPT ![p] = b]
Goes(p, pc) == Becomes(p, [build[p] EXCEPT !.pc = pc])

\* claim_cache_owner under the shared lock: the marker of another repository
\* ends the build; when there is none the lock is dropped.
CheckOwner(p, r) ==
    /\ At(p, "idle")
    /\ owner \in {None, r}
    /\ Becomes(p, [Idle EXCEPT !.repo = r,
                       !.pc = IF owner = None THEN "claim" ELSE "lock"])
    /\ UNCHANGED <<world, owner, slot, feed>>

\* Mutant: the marker is not looked at again under the exclusive lock.
ClaimOwnerBlindly(p) ==
    /\ At(p, "claim")
    /\ owner' = build[p].repo
    /\ Goes(p, "lock")
    /\ UNCHANGED <<world, slot, feed>>

\* ensure_cache_owner under the exclusive lock: the marker of another
\* repository, or slots nobody owns, are refused.
ClaimOwner(p) ==
    LET free == owner = None /\ slot = NoRows
        mine == free \/ owner = build[p].repo
    IN
    /\ At(p, "claim")
    /\ owner' = IF free THEN build[p].repo ELSE owner
    /\ IF mine THEN Goes(p, "lock") ELSE Becomes(p, Idle)
    /\ UNCHANGED <<world, slot, feed>>

\* Past the producer lock.
Producing(p) == build[p].pc \notin {"idle", "claim", "lock"}

TakeLock(p, rebuild) ==
    /\ At(p, "lock")
    /\ \A q \in Proc : Producing(q) => build[q].repo # build[p].repo
    /\ Becomes(p, [build[p] EXCEPT !.pc = "policy", !.start = edits,
                                   !.rebuild = rebuild])
    /\ UNCHANGED <<world, owner, slot, feed>>

-----------------------------------------------------------------------------
\* snapshot: the rules, then the catalog, then one source after the other

SnapPolicy(p) ==
    /\ At(p, "policy")
    /\ Becomes(p, [build[p] EXCEPT !.pc = "rows",
           !.snap = [policy |-> policy, rows |-> {}, state |-> NoRows]])
    /\ UNCHANGED <<world, owner, slot, feed>>

SnapRows(p) ==
    LET rows == Rows(build[p].repo) IN
    /\ At(p, "rows")
    /\ Becomes(p, [build[p] EXCEPT !.pc = "stat", !.todo = rows,
           !.snap = [policy |-> @.policy, rows |-> rows, state |-> NoRows]])
    /\ UNCHANGED <<world, owner, slot, feed>>

SnapState(p, s) ==
    LET b == build[p] IN
    /\ At(p, "stat")
    /\ s \in b.todo
    /\ Becomes(p, [b EXCEPT !.todo = @ \ {s}, !.snap = [b.snap EXCEPT
           !.state = [b.snap.state EXCEPT ![s] = Seen(s)]]])
    /\ UNCHANGED <<world, owner, slot, feed>>

\* `whole` records, for the properties, that nothing moved under the first.
FirstSnapshot(p) ==
    LET b == build[p] IN
    /\ At(p, "stat") /\ b.todo = {} /\ b.before = None
    /\ Becomes(p, [b EXCEPT !.pc = "feed", !.before = b.snap,
                            !.whole = (b.snap = WorldOf(b.repo))])
    /\ UNCHANGED <<world, owner, slot, feed>>

\* Mutant: the rows are compared, not the rules and the sources.
UnchangedRows(before, after) == before.rows = after.rows

\* ensure_unchanged
Unchanged(before, after) == before = after

SecondSnapshot(p) ==
    LET b == build[p] IN
    /\ At(p, "stat") /\ b.todo = {} /\ b.before # None
    /\ Goes(p, IF Unchanged(b.before, b.snap) THEN "receipts" ELSE "failed")
    /\ UNCHANGED <<world, owner, slot, feed>>

-----------------------------------------------------------------------------
\* load_catalog_feed

ReceiptsAreCurrent(items) ==
    \A s \in Source : items[s] # None => items[s].receipt = layout

\* The feed of the last build, if nothing it was made from has moved.
FeedUsable(b) ==
    /\ ~b.rebuild
    /\ Unavailable(b.before) = {}
    /\ feed # None
    /\ feed.repo = b.repo /\ feed.key = b.before
    /\ \A s \in Ready(b.before) : feed.items[s] # None
    /\ ReceiptsAreCurrent(feed.items)

FeedHit(p) ==
    /\ At(p, "feed") /\ FeedUsable(build[p])
    /\ Becomes(p, [build[p] EXCEPT !.pc = "policy", !.hit = TRUE,
                                   !.items = feed.items])
    /\ UNCHANGED <<world, owner, slot, feed>>

FeedMiss(p) ==
    LET b == build[p] IN
    /\ At(p, "feed") /\ ~FeedUsable(b)
    /\ Becomes(p, [b EXCEPT !.pc = "read", !.todo = Ready(b.before),
                            !.cacheable = (Unavailable(b.before) = {})])
    /\ UNCHANGED <<world, owner, slot, feed>>

\* A slot of exactly this row, under these rules.
SlotMatches(b, s) ==
    /\ ~b.rebuild
    /\ slot[s] # None
    /\ slot[s].repo = b.repo
    /\ slot[s].policy = b.before.policy
    /\ slot[s].state = b.before.state[s]

\* ScopeLayoutProbe: a build remembers its first probe.
Probed(b) == IF b.memo = None THEN layout ELSE b.memo
MemoAfter(b, s) == IF SlotMatches(b, s) THEN Probed(b) ELSE b.memo

\* Mutant: a slot is reused whatever its receipt says.
SlotUsableUnproven(b, s) == SlotMatches(b, s)

SlotUsable(b, s) == SlotMatches(b, s) /\ slot[s].frames.receipt = Probed(b)

ReuseRow(p, s) ==
    LET b == build[p] IN
    /\ At(p, "read")
    /\ s \in b.todo /\ SlotUsable(b, s)
    /\ Becomes(p, [b EXCEPT !.items = [@ EXCEPT ![s] = slot[s].frames],
                            !.todo = @ \ {s}, !.memo = MemoAfter(b, s)])
    /\ UNCHANGED <<world, owner, slot, feed>>

OpenRow(p, s) ==
    LET b == build[p] IN
    /\ At(p, "read")
    /\ s \in b.todo /\ ~SlotUsable(b, s)
    /\ Becomes(p, [b EXCEPT !.pc = "parse", !.at = s,
                            !.todo = @ \ {s}, !.memo = MemoAfter(b, s)])
    /\ UNCHANGED <<world, owner, slot, feed>>

\* read_catalog_conversation_checked_with_scope_receipt_at: the transcript
\* is parsed and attributed by the checkouts found meanwhile...
Parse(p) ==
    LET b == build[p] IN
    /\ At(p, "parse")
    /\ file[b.at].kind = "ready"
    /\ Becomes(p, [b EXCEPT !.pc = "ignore",
           !.frames = [ver |-> file[b.at].ver, layout |-> layout,
                       policy |-> None, receipt |-> None]])
    /\ UNCHANGED <<world, owner, slot, feed>>

\* ... or the open or the parser fails ...
ParseFails(p) ==
    /\ At(p, "parse")
    /\ Becomes(p, [build[p] EXCEPT !.pc = "restat", !.frames = None])
    /\ UNCHANGED <<world, owner, slot, feed>>

\* ... filtered by the ignore rules read then ...
LoadIgnore(p) ==
    /\ At(p, "ignore")
    /\ Becomes(p, [build[p] EXCEPT !.pc = "receipt",
                       !.frames = [@ EXCEPT !.policy = policy]])
    /\ UNCHANGED <<world, owner, slot, feed>>

\* ... and the checkouts are fingerprinted last.
TakeReceipt(p) ==
    /\ At(p, "receipt")
    /\ Becomes(p, [build[p] EXCEPT !.pc = "restat",
                       !.frames = [@ EXCEPT !.receipt = layout]])
    /\ UNCHANGED <<world, owner, slot, feed>>

\* Mutant: the state of the source is not compared again.
StillSameAlways(b) == TRUE

\* "Even a parser failure must not hide a source changing underneath us."
StillSame(b) == Seen(b.at) = b.before.state[b.at]

Restat(p) ==
    LET b == build[p] IN
    /\ At(p, "restat")
    /\ Goes(p, IF ~StillSame(b) THEN "failed"
               ELSE IF b.frames = None THEN "skip" ELSE "keep")
    /\ UNCHANGED <<world, owner, slot, feed>>

\* Mutant: a transcript that could not be read does not make the feed
\* uncacheable.
SkipRowSilently(p) ==
    /\ At(p, "skip")
    /\ Becomes(p, [build[p] EXCEPT !.pc = "read", !.at = None])
    /\ UNCHANGED <<world, owner, slot, feed>>

\* A transcript that cannot be read is left out of this build's feed.
SkipRow(p) ==
    /\ At(p, "skip")
    /\ Becomes(p, [build[p] EXCEPT !.pc = "read", !.at = None,
                                   !.cacheable = FALSE])
    /\ UNCHANGED <<world, owner, slot, feed>>

\* Mutant: the slot is written without the receipt.
SlotOfWithoutReceipt(b) == [repo |-> b.repo, policy |-> b.before.policy,
                            state |-> b.before.state[b.at],
                            frames |-> [b.frames EXCEPT !.receipt = None]]

SlotOf(b) == [repo |-> b.repo, policy |-> b.before.policy,
              state |-> b.before.state[b.at], frames |-> b.frames]

\* Frames whose receipt still holds are used; those of a complete read are
\* kept in the slot of their source as well.
KeepRow(p, complete) ==
    LET b == build[p] IN
    /\ At(p, "keep")
    /\ b.frames.receipt = layout
    /\ slot' = IF complete THEN [slot EXCEPT ![b.at] = SlotOf(b)] ELSE slot
    /\ Becomes(p, [b EXCEPT !.pc = "read", !.at = None, !.frames = None,
                            !.items = [@ EXCEPT ![b.at] = b.frames],
                            !.cacheable = @ /\ complete])
    /\ UNCHANGED <<world, owner, feed>>

LayoutMoved(p) ==
    /\ At(p, "keep")
    /\ build[p].frames.receipt # layout
    /\ Goes(p, "failed")
    /\ UNCHANGED <<world, owner, slot, feed>>

EndRead(p) ==
    /\ At(p, "read") /\ build[p].todo = {}
    /\ Goes(p, "policy")
    /\ UNCHANGED <<world, owner, slot, feed>>

\* The last look at the checkouts, after the second snapshot.
CheckReceipts(p) ==
    LET b == build[p] IN
    /\ At(p, "receipts")
    /\ Goes(p, IF ~ReceiptsAreCurrent(b.items) THEN "failed"
               ELSE IF b.hit THEN "prune"
               ELSE IF b.cacheable THEN "publish" ELSE "done")
    /\ UNCHANGED <<world, owner, slot, feed>>

PublishFeed(p) ==
    LET b == build[p] IN
    /\ At(p, "publish")
    /\ feed' = [repo |-> b.repo, key |-> b.before, items |-> b.items]
    /\ Goes(p, "prune")
    /\ UNCHANGED <<world, owner, slot>>

\* prune_obsolete_source_slots, one file after the other
PruneSlot(p, s) ==
    /\ At(p, "prune")
    /\ slot[s] # None /\ s \notin Ready(build[p].before)
    /\ slot' = [slot EXCEPT ![s] = None]
    /\ UNCHANGED <<world, owner, feed, build>>

EndPrune(p) ==
    /\ At(p, "prune")
    /\ \A s \in Source : slot[s] # None => s \in Ready(build[p].before)
    /\ Goes(p, "done")
    /\ UNCHANGED <<world, owner, slot, feed>>

\* The feed goes to the caller, or the caller is told to retry.
EndBuild(p) ==
    /\ build[p].pc \in {"done", "failed"}
    /\ Becomes(p, Idle)
    /\ UNCHANGED <<world, owner, slot, feed>>

\* The process is killed, or a write fails.
Kill(p) ==
    /\ ~At(p, "idle")
    /\ Becomes(p, Idle)
    /\ UNCHANGED <<world, owner, slot, feed>>

Producer(p) ==
    \/ \E r \in Repo : CheckOwner(p, r)
    \/ ClaimOwner(p)
    \/ \E rebuild \in BOOLEAN : TakeLock(p, rebuild)
    \/ SnapPolicy(p) \/ SnapRows(p) \/ \E s \in Source : SnapState(p, s)
    \/ FirstSnapshot(p) \/ SecondSnapshot(p)
    \/ FeedHit(p) \/ FeedMiss(p)
    \/ \E s \in Source : ReuseRow(p, s) \/ OpenRow(p, s)
    \/ Parse(p) \/ ParseFails(p) \/ LoadIgnore(p) \/ TakeReceipt(p)
    \/ Restat(p) \/ SkipRow(p)
    \/ \E complete \in BOOLEAN : KeepRow(p, complete)
    \/ LayoutMoved(p) \/ EndRead(p) \/ CheckReceipts(p) \/ PublishFeed(p)
    \/ \E s \in Source : PruneSlot(p, s)
    \/ EndPrune(p) \/ EndBuild(p) \/ Kill(p)

Next == World \/ \E p \in Proc : Producer(p)

Spec == Init /\ [][Next]_vars

-----------------------------------------------------------------------------
PC == {"idle", "claim", "lock", "policy", "rows", "stat", "feed",
       "read", "parse", "ignore", "receipt", "restat", "skip", "keep",
       "receipts", "publish", "prune", "done", "failed"}

Build == [pc : PC, repo : Repo \union {None}, rebuild : BOOLEAN, start : Nat,
          before : Snapshot \union {None}, snap : Snapshot \union {None},
          todo : SUBSET Source, whole : BOOLEAN, hit : BOOLEAN,
          cacheable : BOOLEAN, memo : Layout \union {None},
          at : Source \union {None}, frames : Draft \union {None},
          items : [Source -> Frames \union {None}]]

TypeOK ==
    /\ file \in [Source -> State]
    /\ known \subseteq Source
    /\ policy \in Policy
    /\ layout \in Layout
    /\ edits \in 0..MaxEdits
    /\ owner \in Repo \union {None}
    /\ slot \in [Source -> Slot \union {None}]
    /\ feed \in Feed \union {None}
    /\ build \in [Proc -> Build]

\* Frames of the transcript as a snapshot has it, under the snapshot's rules.
Honest(items, snap) ==
    \A s \in Source : items[s] # None =>
        /\ s \in Ready(snap)
        /\ items[s].ver = snap.state[s].ver
        /\ items[s].policy = snap.policy

\* "overlay catalog, source, or policy changed during build; retry": a feed
\* a build returns, parsed, put together from slots or found whole, is the
\* one of a single moment after the producer lock was taken, although rules,
\* catalog and transcripts were read one after the other and no writer
\* waited (load_catalog_feed).  Holds while rules that were replaced, and
\* transcripts that were gone, do not come back.
ServedIsOneMoment ==
    \A p \in Proc : At(p, "done") =>
        /\ build[p].whole
        /\ Honest(build[p].items, build[p].before)

\* "Only an atomically published, complete/cacheable feed": the cached feed
\* has every readable transcript of its key, none of them partly, each of
\* the version and the rules its key digests (FeedCache).
FeedIsWhatItsKeySays ==
    feed # None => /\ Honest(feed.items, feed.key)
                   /\ \A s \in feed.key.rows :
                          \/ feed.key.state[s].kind = "missing"
                          \/ feed.items[s] # None

\* A transcript that grows while it is parsed never becomes a slot under the
\* fingerprint of the shorter one (cache.rs:391-399).
SlotsServeTheirSource ==
    \A s \in Source : slot[s] # None => slot[s].frames.ver = slot[s].state.ver

\* Two claimants that both found no marker: only one repository's builds get
\* to the caches of an index root, and all they hold is its own
\* (claim_cache_owner).
OwnerIsSole ==
    /\ \A p \in Proc : build[p].pc \notin {"idle", "claim"} =>
                           build[p].repo = owner
    /\ \A s \in Source : slot[s] # None => slot[s].repo = owner
    /\ feed # None => feed.repo = owner

\* "retry after the writer settles": nothing a cache holds makes a build
\* fail; one that runs while nothing changes succeeds.
FailsOnlyWhenRaced ==
    [][\A p \in Proc : At(p, "failed")' /\ ~At(p, "failed") =>
           edits > build[p].start]_vars
=============================================================================
