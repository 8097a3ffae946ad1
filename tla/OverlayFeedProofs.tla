-------------------------- MODULE OverlayFeedProofs --------------------------
(***************************************************************************)
(* Proofs about OverlayFeed, for any number of processes, repositories,    *)
(* transcripts and changes of the world.                                   *)
(***************************************************************************)
EXTENDS OverlayFeed, TLAPS

(***************************************************************************)
(* The inductive invariant.  A build compares two snapshots, none of them  *)
(* atomic.  That they are equal says something only because whatever a     *)
(* snapshot reads moves in one direction: versions grow until a transcript *)
(* is gone, rows are added, rules are replaced by new ones.  So the invariant says of every value a *)
(* build holds how far behind the world it may be, and of a first snapshot *)
(* that was not whole that the second one is bound to differ.              *)
(***************************************************************************)

ParsePC == {"parse", "ignore", "receipt", "restat", "skip", "keep"}
ReadPC == ParsePC \union {"read"}
SettledPC == {"receipts", "publish", "prune", "done"}

\* Rules read earlier, unless rules may come back.
Older(q, r) == Reverts \/ q <= r

\* The state of a transcript read earlier.
StateBehind(s, state) ==
    IF state.kind = "ready"
    THEN /\ state.ver <= file[s].ver
         /\ state.ver = file[s].ver => state = file[s]
    ELSE Reverts \/ state = Seen(s)

\* What a snapshot has read so far is behind the world, or still true.
Behind(snap, r) ==
    /\ Older(snap.policy, policy)
    /\ snap.rows \subseteq Rows(r)
    /\ \A s \in Source : snap.state[s] # None => StateBehind(s, snap.state[s])

\* The fields a step relies on have been filled in.
Shaped(b) ==
    /\ b.pc # "idle" => b.repo # None
    /\ b.pc \in {"idle", "claim", "lock"} => b.before = None
    /\ b.pc \in {"rows", "stat"} => b.snap # None
    /\ b.pc \in ReadPC \union SettledPC \union {"feed"} => b.before # None
    /\ b.pc # "failed" => (b.pc \in ParsePC <=> b.at # None)
    /\ b.pc \in {"ignore", "receipt", "keep"} => b.frames # None
    /\ b.frames # None =>
           /\ b.pc \in {"receipt", "restat", "keep"} => b.frames.policy # None
           /\ b.pc \in {"restat", "keep"} => b.frames.receipt # None
    /\ b.before = None => b.items = NoRows /\ b.memo = None

\* The snapshot being taken.
SnapInv(b) ==
    /\ b.pc \in {"rows", "stat"} => Behind(b.snap, b.repo)
    /\ b.pc = "stat" =>
           /\ b.todo \subseteq b.snap.rows
           /\ \A s \in Source :
                  b.snap.state[s] # None <=> s \in b.snap.rows \ b.todo

\* The first snapshot, and the rows still to be read.
BeforeInv(b) ==
    b.before # None =>
        /\ Behind(b.before, b.repo)
        /\ \A s \in Source : b.before.state[s] # None <=> s \in b.before.rows
        /\ b.pc \in ReadPC => b.todo \subseteq Ready(b.before)
        /\ b.pc \in ParsePC => b.at \in Ready(b.before)

\* The frames in the making are at least as new as the first snapshot.
DraftInv(b) ==
    b.frames # None /\ b.pc \in {"ignore", "receipt", "restat", "keep"} =>
        /\ b.before.state[b.at].ver <= b.frames.ver
        /\ b.frames.ver <= file[b.at].ver
        /\ b.pc # "ignore" => /\ Older(b.before.policy, b.frames.policy)
                              /\ Older(b.frames.policy, policy)
        /\ b.pc = "keep" => b.frames.ver = b.before.state[b.at].ver

\* Frames of the version a snapshot has, filtered by its rules or later ones.
Since(items, snap) ==
    \A s \in Source : items[s] # None =>
        /\ s \in Ready(snap)
        /\ items[s].ver = snap.state[s].ver
        /\ Older(snap.policy, items[s].policy)

NotAfter(items, q) ==
    \A s \in Source : items[s] # None => Older(items[s].policy, q)

ItemsInv(b) ==
    b.before # None =>
        /\ Since(b.items, b.before)
        /\ NotAfter(b.items, policy)
        /\ b.pc \in {"rows", "stat"} => NotAfter(b.items, b.snap.policy)
        /\ b.pc \in SettledPC => NotAfter(b.items, b.before.policy)

\* Every readable row has its frames or is still to come.
CoverInv(b) ==
    /\ b.pc = "publish" => b.cacheable /\ ~b.hit
    /\ b.before # None /\ b.cacheable /\ ~b.hit /\ b.pc \notin {"feed", "failed"}
       => /\ Unavailable(b.before) = {}
          /\ \A s \in Ready(b.before) :
                 \/ b.items[s] # None
                 \/ b.pc \in ReadPC /\ (s \in b.todo \/ s = b.at)

\* The world has left a snapshot behind.
RowsMoved(b) == Rows(b.repo) # b.before.rows
FileMoved(b, s) == /\ s \in b.before.rows
                   /\ b.before.state[s].kind = "ready"
                   /\ b.before.state[s].ver < file[s].ver

\* A first snapshot that was not whole differs from the second one, or will.
WholeInv(b) ==
    ~Reverts /\ b.before # None /\ ~b.whole /\ b.pc # "failed" =>
        /\ b.pc \notin SettledPC
        /\ b.pc = "rows" => \/ b.snap.policy # b.before.policy
                            \/ RowsMoved(b)
                            \/ \E s \in Source : FileMoved(b, s)
        /\ b.pc = "stat" =>
               \/ b.snap.policy # b.before.policy
               \/ b.snap.rows # b.before.rows
               \/ \E s \in b.before.rows :
                      IF s \in b.todo THEN FileMoved(b, s)
                      ELSE b.snap.state[s] # b.before.state[s]
        /\ b.pc \notin {"rows", "stat"} => \/ b.before.policy < policy
                                           \/ RowsMoved(b)
                                           \/ \E s \in Source : FileMoved(b, s)

\* While nothing has changed since the lock was taken, all a build holds is
\* true.
QuietInv(b) ==
    b.pc \notin {"idle", "claim", "lock"} =>
        /\ b.start <= edits
        /\ b.start = edits =>
              /\ b.before # None => b.before = WorldOf(b.repo)
              /\ b.pc \in {"rows", "stat"} => b.snap.policy = policy
              /\ b.pc = "stat" =>
                     /\ b.snap.rows = Rows(b.repo)
                     /\ \A s \in Source : b.snap.state[s] # None =>
                                              b.snap.state[s] = Seen(s)
              /\ b.memo # None => b.memo = layout
              /\ b.frames # None /\ b.pc \in {"restat", "keep"} =>
                     b.frames.receipt = layout
              /\ ReceiptsAreCurrent(b.items)

BuildInv(b) ==
    /\ Shaped(b) /\ SnapInv(b) /\ BeforeInv(b) /\ DraftInv(b)
    /\ ItemsInv(b) /\ CoverInv(b) /\ WholeInv(b) /\ QuietInv(b)

SlotInv(s) ==
    slot[s] # None =>
        /\ slot[s].frames.ver = slot[s].state.ver
        /\ Older(slot[s].policy, slot[s].frames.policy)
        /\ Older(slot[s].frames.policy, policy)

FeedInv ==
    feed # None =>
        /\ Since(feed.items, feed.key)
        /\ NotAfter(feed.items, feed.key.policy)
        /\ Unavailable(feed.key) = {}
        /\ \A s \in feed.key.rows : feed.key.state[s] # None
        /\ \A s \in Ready(feed.key) : feed.items[s] # None

OverlayInv ==
    /\ TypeOK
    /\ OwnerIsSole
    /\ \A p \in Proc : BuildInv(build[p])
    /\ \A s \in Source : SlotInv(s)
    /\ FeedInv
-----------------------------------------------------------------------------
\* What the world may do to what a build has read: versions grow, rows are
\* added, rules are replaced by newer ones.
LEMMA WorldMoves ==
  ASSUME TypeOK, World
  PROVE  /\ edits \in Nat /\ edits' = edits + 1
         /\ known \subseteq known' /\ known' \subseteq Source
         /\ policy \in Nat /\ policy' \in Nat /\ Older(policy, policy')
         /\ layout' \in Layout
         /\ file' \in [Source -> State]
         /\ \A s \in Source :
                /\ file[s].ver \in Nat /\ file'[s].ver \in Nat
                /\ file[s].ver <= file'[s].ver
                /\ file'[s].ver = file[s].ver => file'[s] = file[s]
                /\ ~Reverts /\ file[s].kind # "ready" => file'[s] = file[s]
         /\ TypeOK'
<1>t. /\ file \in [Source -> State] /\ known \subseteq Source
      /\ policy \in Nat /\ layout \in Layout /\ edits \in Nat
      /\ \A s \in Source : file[s] \in State /\ file[s].ver \in Nat
  BY PolicyType, MaxEditsType DEF TypeOK, State
<1>0. edits' = edits + 1 /\ edits' \in 0..MaxEdits
  BY <1>t, MaxEditsType DEF World, Touch, Admit, EditRules, MoveCheckout, Edit
<1>1. UNCHANGED <<owner, slot, feed, build>>
  BY DEF World, Touch, Admit, EditRules, MoveCheckout
<1>2. ASSUME NEW s \in Source, NEW k \in {"ready", "missing", "unavailable"},
             Touch(s, k)
      PROVE  /\ UNCHANGED <<known, policy, layout>>
             /\ file' \in [Source -> State]
             /\ \A x \in Source :
                    /\ file'[x].ver \in Nat /\ file[x].ver <= file'[x].ver
                    /\ file'[x].ver = file[x].ver => file'[x] = file[x]
                    /\ ~Reverts /\ file[x].kind # "ready" => file'[x] = file[x]
  <2>1. /\ UNCHANGED <<known, policy, layout>>
        /\ file' = [file EXCEPT ![s] = [ver |-> file[s].ver + 1, kind |-> k]]
        /\ Reverts \/ file[s].kind = "ready"
    BY <1>2 DEF Touch
  <2>2. [ver |-> file[s].ver + 1, kind |-> k] \in State
    BY <1>t DEF State
  <2> QED
    BY <1>t, <2>1, <2>2
<1>3. ASSUME NEW s \in Source, Admit(s)
      PROVE  /\ UNCHANGED <<file, policy, layout>>
             /\ known \subseteq known' /\ known' \subseteq Source
  BY <1>3, <1>t DEF Admit
<1>4. ASSUME NEW q \in Policy, EditRules(q)
      PROVE  /\ UNCHANGED <<file, known, layout>>
             /\ policy' \in Policy /\ Older(policy, policy')
  BY <1>4, <1>t, PolicyType DEF EditRules, Older
<1>5. ASSUME NEW l \in Layout, MoveCheckout(l)
      PROVE  UNCHANGED <<file, known, policy>> /\ layout' \in Layout
  BY <1>5 DEF MoveCheckout
<1>6. Older(policy, policy)
  BY <1>t DEF Older
<1>7. /\ known \subseteq known' /\ known' \subseteq Source
      /\ policy' \in Policy /\ Older(policy, policy')
      /\ layout' \in Layout
      /\ file' \in [Source -> State]
      /\ \A s \in Source :
             /\ file'[s].ver \in Nat /\ file[s].ver <= file'[s].ver
             /\ file'[s].ver = file[s].ver => file'[s] = file[s]
             /\ ~Reverts /\ file[s].kind # "ready" => file'[s] = file[s]
  BY <1>t, <1>2, <1>3, <1>4, <1>5, <1>6 DEF World, TypeOK
<1> QED
  BY <1>t, <1>0, <1>1, <1>7, PolicyType DEF TypeOK

\* Rules ordered in time.
LEMMA OlderTrans ==
  ASSUME NEW q \in Nat, NEW r \in Nat, NEW t \in Nat, Older(q, r), Older(r, t)
  PROVE  Older(q, t)
  BY DEF Older

\* What is seen of a transcript.
LEMMA SeenIs ==
  ASSUME TypeOK, NEW s \in Source
  PROVE  /\ Seen(s) \in State /\ Seen(s) # None
         /\ Seen(s).kind = file[s].kind
         /\ file[s].kind = "ready" => Seen(s) = file[s]
         /\ StateBehind(s, Seen(s))
<1>1. file[s] \in State
  BY DEF TypeOK
<1>2. Seen(s) \in State /\ Seen(s).kind = file[s].kind
  BY <1>1 DEF Seen, State
<1>3. file[s].kind = "ready" => Seen(s) = file[s]
  BY DEF Seen
<1>4. StateBehind(s, Seen(s))
  BY <1>1, <1>2, <1>3 DEF StateBehind, State
<1> QED
  BY <1>2, <1>3, <1>4, NoneIsNothing

\* What was behind the world stays behind.
LEMMA BehindWorld ==
  ASSUME TypeOK, World, NEW snap \in Snapshot, NEW r, Behind(snap, r)
  PROVE  Behind(snap, r)'
<1>1. Older(snap.policy, policy')
  BY WorldMoves, OlderTrans, PolicyType DEF Behind, Snapshot
<1>2. snap.rows \subseteq Rows(r)'
  BY WorldMoves DEF Behind, Rows
<1>3. ASSUME NEW s \in Source, snap.state[s] # None
      PROVE  StateBehind(s, snap.state[s])'
  <2>1. snap.state[s] \in State /\ snap.state[s].ver \in Nat
    BY <1>3 DEF Snapshot, State
  <2>2. StateBehind(s, snap.state[s])
    BY <1>3 DEF Behind
  <2>3. CASE snap.state[s].kind = "ready"
    BY <2>1, <2>2, <2>3, WorldMoves DEF StateBehind
  <2>4. CASE snap.state[s].kind # "ready" /\ ~Reverts
    <3>1. snap.state[s] = Seen(s) /\ file[s].kind # "ready"
      BY <2>2, <2>4, SeenIs DEF StateBehind
    <3>2. file'[s] = file[s]
      BY <2>4, <3>1, WorldMoves
    <3> QED
      BY <2>4, <3>1, <3>2 DEF StateBehind, Seen
  <2>5. CASE snap.state[s].kind # "ready" /\ Reverts
    BY <2>5 DEF StateBehind
  <2> QED
    BY <2>3, <2>4, <2>5
<1> QED
  BY <1>1, <1>2, <1>3 DEF Behind, Older

\* A change of the world makes nothing a build holds wrong.
LEMMA WorldKeeps ==
  ASSUME TypeOK, World, NEW b \in Build, BuildInv(b)
  PROVE  BuildInv(b)'
<1> USE DEF BuildInv
<1>b. /\ b.pc \in PC /\ b.start \in Nat
      /\ b.before # None => /\ b.before \in Snapshot
                            /\ b.before.policy \in Nat
                            /\ b.before.rows \subseteq Source
      /\ b.snap # None => b.snap \in Snapshot /\ b.snap.policy \in Nat
      /\ b.frames # None => b.frames \in Draft /\ b.frames.ver \in Nat
      /\ \A s \in Source : b.items[s] # None =>
             b.items[s] \in Frames /\ b.items[s].policy \in Nat
  BY PolicyType DEF Build, Snapshot, Draft, Frames
<1>1. Shaped(b)'
  BY DEF Shaped
<1>2. SnapInv(b)'
  BY <1>b, BehindWorld DEF SnapInv, Shaped
<1>3. BeforeInv(b)'
  BY <1>b, BehindWorld DEF BeforeInv, Ready
<1>4. DraftInv(b)'
  <2> SUFFICES ASSUME b.frames # None,
                      b.pc \in {"ignore", "receipt", "restat", "keep"}
               PROVE  /\ b.frames.ver <= file'[b.at].ver
                      /\ b.pc # "ignore" => Older(b.frames.policy, policy')
    BY DEF DraftInv, Older
  <2>1. b.at \in Source
    BY DEF Shaped, ParsePC, Build
  <2>2. b.pc # "ignore" => b.frames.policy \in Nat
    BY <1>b, PolicyType DEF Shaped, Draft
  <2>3. /\ b.frames.ver <= file[b.at].ver
        /\ b.pc # "ignore" => Older(b.frames.policy, policy)
    BY DEF DraftInv
  <2> QED
    BY <1>b, <2>1, <2>2, <2>3, WorldMoves, OlderTrans
<1>5. ItemsInv(b)'
  <2>1. b.before # None => NotAfter(b.items, policy)'
    BY <1>b, WorldMoves, OlderTrans DEF ItemsInv, NotAfter, Older
  <2> QED
    BY <2>1 DEF ItemsInv, Since, NotAfter, Ready, Older
<1>6. CoverInv(b)'
  BY DEF CoverInv, Ready, Unavailable
<1>7. WholeInv(b)'
  <2> SUFFICES ASSUME ~Reverts, b.before # None, ~b.whole, b.pc # "failed"
               PROVE  WholeInv(b)'
    BY DEF WholeInv
  <2>1. RowsMoved(b) => RowsMoved(b)'
    BY <1>b, WorldMoves DEF RowsMoved, BeforeInv, Behind, Rows
  <2>2. ASSUME NEW s \in Source, FileMoved(b, s) PROVE FileMoved(b, s)'
    <3>1. b.before.state[s].ver \in Nat
      BY <1>b, <2>2 DEF FileMoved, BeforeInv, Snapshot, State
    <3> QED
      BY <2>2, <3>1, WorldMoves DEF FileMoved
  <2>3. b.before.policy < policy => b.before.policy < policy'
    BY <1>b, WorldMoves DEF Older
  <2>4. b.before.rows \subseteq Source
    BY <1>b
  <2> QED
    BY <2>1, <2>2, <2>3, <2>4 DEF WholeInv
<1>8. QuietInv(b)'
  BY <1>b, WorldMoves DEF QuietInv
<1> QED
  BY <1>1, <1>2, <1>3, <1>4, <1>5, <1>6, <1>7, <1>8

\* Steps of a build leave the world alone.
LEMMA Frozen ==
  ASSUME UNCHANGED world, NEW b PROVE BuildInv(b) => BuildInv(b)'
<1>w. UNCHANGED <<file, known, policy, layout, edits>>
  BY DEF world
<1> USE <1>w
<1>1. Behind(b.snap, b.repo)' <=> Behind(b.snap, b.repo)
  BY DEF Behind, Rows, StateBehind, Older, Seen
<1>2. Behind(b.before, b.repo)' <=> Behind(b.before, b.repo)
  BY DEF Behind, Rows, StateBehind, Older, Seen
<1>3. /\ Shaped(b)' <=> Shaped(b)
      /\ SnapInv(b)' <=> SnapInv(b)
      /\ BeforeInv(b)' <=> BeforeInv(b)
  BY <1>1, <1>2 DEF Shaped, SnapInv, BeforeInv, Ready
<1>4. /\ DraftInv(b)' <=> DraftInv(b)
      /\ ItemsInv(b)' <=> ItemsInv(b)
      /\ CoverInv(b)' <=> CoverInv(b)
  BY DEF DraftInv, ItemsInv, CoverInv, Since, NotAfter, Ready, Unavailable,
     Older
<1>5. Rows(b.repo)' = Rows(b.repo) /\ WorldOf(b.repo)' = WorldOf(b.repo)
  BY DEF Rows, WorldOf, Seen
<1>6. WholeInv(b)' <=> WholeInv(b)
  BY <1>5 DEF WholeInv, RowsMoved, FileMoved
<1>7. QuietInv(b)' <=> QuietInv(b)
  BY <1>5 DEF QuietInv, ReceiptsAreCurrent, Seen
<1> QED
  BY <1>3, <1>4, <1>6, <1>7 DEF BuildInv

\* An idle process holds nothing.
LEMMA IdleInv ==
  /\ Idle \in Build /\ BuildInv(Idle)
  /\ \A r \in Repo, pc \in {"claim", "lock"} : \A c :
         c = [Idle EXCEPT !.repo = r, !.pc = pc] => c \in Build /\ BuildInv(c)
<1> DEFINE I(r, pc) == [Idle EXCEPT !.repo = r, !.pc = pc]
<1>1. Idle \in Build
  BY DEF Idle, Build, PC, NoRows
<1>2. BuildInv(Idle)
  BY DEF Idle, BuildInv, Shaped, SnapInv, BeforeInv, DraftInv, ItemsInv,
     CoverInv, WholeInv, QuietInv, ReadPC, ParsePC, SettledPC
<1>3. ASSUME NEW r \in Repo, NEW pc \in {"claim", "lock"}
      PROVE  I(r, pc) \in Build /\ BuildInv(I(r, pc))
  <2>1. I(r, pc) \in Build
    BY DEF Idle, Build, PC, NoRows
  <2>2. /\ I(r, pc).pc = pc /\ I(r, pc).repo = r /\ I(r, pc).before = None
        /\ I(r, pc).frames = None /\ I(r, pc).memo = None
        /\ I(r, pc).items = NoRows /\ I(r, pc).at = None
    BY DEF Idle
  <2> HIDE DEF I
  <2> QED
    BY <2>1, <2>2, NoneIsNothing DEF BuildInv, Shaped, SnapInv, BeforeInv,
       DraftInv, ItemsInv, CoverInv, WholeInv, QuietInv, ReadPC, ParsePC,
       SettledPC
<1> QED
  BY <1>1, <1>2, <1>3

\* ClaimOwner gets to the producer lock.
LEMMA LockInv ==
  ASSUME NEW b \in Build, BuildInv(b), b.pc = "claim",
         NEW c, c = [b EXCEPT !.pc = "lock"]
  PROVE  c \in Build /\ BuildInv(c)
<1>f. /\ c.pc = "lock" /\ c.repo = b.repo /\ c.rebuild = b.rebuild
      /\ c.start = b.start /\ c.before = b.before /\ c.snap = b.snap
      /\ c.todo = b.todo /\ c.whole = b.whole /\ c.hit = b.hit
      /\ c.cacheable = b.cacheable /\ c.memo = b.memo /\ c.at = b.at
      /\ c.frames = b.frames /\ c.items = b.items
  BY DEF Build
<1>t. c \in Build
  BY <1>f DEF Build, PC
<1> QED
  BY <1>f, <1>t DEF BuildInv, Shaped, SnapInv, BeforeInv, DraftInv, ItemsInv,
     CoverInv, WholeInv, QuietInv, ReadPC, ParsePC, SettledPC

\* The record of a build that has the producer lock.
LEMMA LockedType ==
  ASSUME NEW b \in Build, NEW n \in Nat, NEW r \in BOOLEAN
  PROVE  [b EXCEPT !.pc = "policy", !.start = n, !.rebuild = r] \in Build
  BY DEF Build, PC

\* The producer lock is taken: the clock of this build starts.
LEMMA LockedInv ==
  ASSUME TypeOK, NEW b \in Build, BuildInv(b),
         b.pc = "lock", NEW rebuild \in BOOLEAN,
         NEW c, c = [b EXCEPT !.pc = "policy", !.start = edits,
                            !.rebuild = rebuild]
  PROVE  c \in Build /\ BuildInv(c)
<1>b. /\ Shaped(b) /\ SnapInv(b) /\ BeforeInv(b) /\ DraftInv(b)
      /\ ItemsInv(b) /\ CoverInv(b) /\ WholeInv(b) /\ QuietInv(b)
  BY DEF BuildInv
<1>f. /\ c.pc = "policy" /\ c.repo = b.repo /\ c.rebuild = rebuild
      /\ c.start = edits /\ c.before = b.before /\ c.snap = b.snap
      /\ c.todo = b.todo /\ c.whole = b.whole /\ c.hit = b.hit
      /\ c.cacheable = b.cacheable /\ c.memo = b.memo /\ c.at = b.at
      /\ c.frames = b.frames /\ c.items = b.items
  BY DEF Build
<1>x. b.before = None /\ edits \in Nat /\ edits <= edits
  BY <1>b, MaxEditsType DEF Shaped, TypeOK
<1>t. c \in Build
  <2>1. edits \in Nat
    BY <1>x
  <2> QED
    BY <2>1, LockedType
<1>1. Shaped(c)
  BY <1>b, <1>f DEF Shaped, ReadPC, ParsePC, SettledPC
<1>2. SnapInv(c)
  BY <1>b, <1>f DEF SnapInv, ReadPC, ParsePC, SettledPC
<1>3. BeforeInv(c)
  BY <1>b, <1>f, <1>x DEF BeforeInv
<1>4. DraftInv(c)
  BY <1>b, <1>f DEF DraftInv, ReadPC, ParsePC, SettledPC
<1>5. ItemsInv(c)
  BY <1>b, <1>f, <1>x DEF ItemsInv
<1>6. CoverInv(c)
  BY <1>b, <1>f, <1>x DEF CoverInv
<1>7. WholeInv(c)
  BY <1>b, <1>f, <1>x DEF WholeInv
<1>8. QuietInv(c)
  <2>1. c.before = None /\ c.memo = None /\ c.items = NoRows
    BY <1>b, <1>f, <1>x DEF Shaped
  <2> QED
    BY <1>b, <1>f, <1>x, <2>1 DEF QuietInv, ReceiptsAreCurrent, NoRows
<1> QED
  BY <1>t, <1>1, <1>2, <1>3, <1>4, <1>5, <1>6, <1>7, <1>8 DEF BuildInv

\* A snapshot begins with the rules.
LEMMA SnapPolicyInv ==
  ASSUME TypeOK, NEW b \in Build, BuildInv(b),
         b.pc = "policy",
         NEW c, c = [b EXCEPT !.pc = "rows", !.snap =
               [policy |-> policy, rows |-> {}, state |-> NoRows]]
  PROVE  c \in Build /\ BuildInv(c)
<1>b. /\ Shaped(b) /\ SnapInv(b) /\ BeforeInv(b) /\ DraftInv(b)
      /\ ItemsInv(b) /\ CoverInv(b) /\ WholeInv(b) /\ QuietInv(b)
  BY DEF BuildInv
<1>f. /\ c.pc = "rows" /\ c.repo = b.repo /\ c.rebuild = b.rebuild
      /\ c.start = b.start /\ c.before = b.before
      /\ c.snap = [policy |-> policy, rows |-> {}, state |-> NoRows]
      /\ c.todo = b.todo /\ c.whole = b.whole /\ c.hit = b.hit
      /\ c.cacheable = b.cacheable /\ c.memo = b.memo /\ c.at = b.at
      /\ c.frames = b.frames /\ c.items = b.items
  BY DEF Build
<1>x. /\ c.snap \in Snapshot /\ c.snap.policy = policy /\ c.snap.rows = {}
      /\ c.snap.state = NoRows /\ policy \in Nat
  BY <1>b, <1>f, PolicyType DEF TypeOK, Snapshot, NoRows
<1>t. c \in Build
  BY <1>f, <1>x DEF Build, PC
<1>1. Shaped(c)
  BY <1>b, <1>f, <1>x, NoneIsNothing DEF Shaped, ReadPC, ParsePC, SettledPC
<1>2. SnapInv(c)
  <2>1. Behind(c.snap, c.repo)
    BY <1>b, <1>f, <1>x DEF Behind, Older, NoRows
  <2> QED
    BY <1>b, <1>f, <2>1 DEF SnapInv
<1>3. BeforeInv(c)
  BY <1>b, <1>f DEF BeforeInv, ReadPC, ParsePC, SettledPC
<1>4. DraftInv(c)
  BY <1>b, <1>f DEF DraftInv, ReadPC, ParsePC, SettledPC
<1>5. ItemsInv(c)
  BY <1>b, <1>f, <1>x DEF ItemsInv, NotAfter, SettledPC
<1>6. CoverInv(c)
  BY <1>b, <1>f DEF CoverInv, ReadPC, ParsePC, SettledPC
<1>7. WholeInv(c)
  <2>1. ~Reverts /\ b.before # None /\ ~b.whole =>
            \/ b.before.policy < policy \/ RowsMoved(b)
            \/ \E s \in Source : FileMoved(b, s)
    BY <1>b DEF WholeInv
  <2>2. b.before # None => b.before.policy \in Nat
    BY <1>b, PolicyType DEF Build, Snapshot
  <2> QED
    BY <1>b, <1>f, <1>x, <2>1, <2>2 DEF WholeInv, RowsMoved, FileMoved,
       SettledPC
<1>8. QuietInv(c)
  BY <1>b, <1>f, <1>x DEF QuietInv
<1> QED
  BY <1>t, <1>1, <1>2, <1>3, <1>4, <1>5, <1>6, <1>7, <1>8 DEF BuildInv

\* Then come the rows of the catalog.
LEMMA SnapRowsInv ==
  ASSUME TypeOK, NEW b \in Build, BuildInv(b),
         b.pc = "rows",
         NEW c, c = [b EXCEPT !.pc = "stat", !.todo = Rows(b.repo), !.snap =
               [policy |-> b.snap.policy, rows |-> Rows(b.repo),
                state |-> NoRows]]
  PROVE  c \in Build /\ BuildInv(c)
<1>b. /\ Shaped(b) /\ SnapInv(b) /\ BeforeInv(b) /\ DraftInv(b)
      /\ ItemsInv(b) /\ CoverInv(b) /\ WholeInv(b) /\ QuietInv(b)
  BY DEF BuildInv
<1>f. /\ c.pc = "stat" /\ c.repo = b.repo /\ c.rebuild = b.rebuild
      /\ c.start = b.start /\ c.before = b.before
      /\ c.snap = [policy |-> b.snap.policy, rows |-> Rows(b.repo),
                   state |-> NoRows]
      /\ c.todo = Rows(b.repo) /\ c.whole = b.whole /\ c.hit = b.hit
      /\ c.cacheable = b.cacheable /\ c.memo = b.memo /\ c.at = b.at
      /\ c.frames = b.frames /\ c.items = b.items
  BY DEF Build
<1>x. /\ c.snap \in Snapshot /\ c.snap.policy = b.snap.policy
      /\ c.snap.rows = Rows(b.repo) /\ c.snap.state = NoRows
      /\ Rows(b.repo) \subseteq Source
  <2>1. b.snap \in Snapshot /\ Rows(b.repo) \subseteq Source
    BY <1>b DEF Shaped, Build, Rows, TypeOK
  <2> QED
    BY <1>b, <1>f, <2>1 DEF Snapshot, NoRows
<1>t. c \in Build
  BY <1>f, <1>x DEF Build, PC
<1>1. Shaped(c)
  BY <1>b, <1>f, <1>x, NoneIsNothing DEF Shaped, ReadPC, ParsePC, SettledPC
<1>2. SnapInv(c)
  <2>1. Behind(c.snap, c.repo)
    BY <1>b, <1>f, <1>x DEF SnapInv, Behind, NoRows
  <2> QED
    BY <1>b, <1>f, <1>x, <2>1 DEF SnapInv, NoRows
<1>3. BeforeInv(c)
  BY <1>b, <1>f DEF BeforeInv, ReadPC, ParsePC, SettledPC
<1>4. DraftInv(c)
  BY <1>b, <1>f DEF DraftInv, ReadPC, ParsePC, SettledPC
<1>5. ItemsInv(c)
  BY <1>b, <1>f, <1>x DEF ItemsInv, NotAfter, SettledPC
<1>6. CoverInv(c)
  BY <1>b, <1>f DEF CoverInv, ReadPC, ParsePC, SettledPC
<1>7. WholeInv(c)
  BY <1>b, <1>f, <1>x DEF WholeInv, RowsMoved, FileMoved, SettledPC
<1>8. QuietInv(c)
  BY <1>b, <1>f, <1>x DEF QuietInv, NoRows
<1> QED
  BY <1>t, <1>1, <1>2, <1>3, <1>4, <1>5, <1>6, <1>7, <1>8 DEF BuildInv

\* And one state after the other.
LEMMA SnapStateInv ==
  ASSUME TypeOK, NEW b \in Build, BuildInv(b),
         b.pc = "stat", NEW s \in Source, s \in b.todo,
         NEW c, c = [b EXCEPT !.todo = b.todo \ {s}, !.snap = [b.snap EXCEPT
               !.state = [b.snap.state EXCEPT ![s] = Seen(s)]]]
  PROVE  c \in Build /\ BuildInv(c)
<1>b. /\ Shaped(b) /\ SnapInv(b) /\ BeforeInv(b) /\ DraftInv(b)
      /\ ItemsInv(b) /\ CoverInv(b) /\ WholeInv(b) /\ QuietInv(b)
  BY DEF BuildInv
<1>f. /\ c.pc = b.pc /\ c.repo = b.repo /\ c.rebuild = b.rebuild
      /\ c.start = b.start /\ c.before = b.before
      /\ c.snap = [b.snap EXCEPT
            !.state = [b.snap.state EXCEPT ![s] = Seen(s)]]
      /\ c.todo = b.todo \ {s} /\ c.whole = b.whole /\ c.hit = b.hit
      /\ c.cacheable = b.cacheable /\ c.memo = b.memo /\ c.at = b.at
      /\ c.frames = b.frames /\ c.items = b.items
  BY DEF Build
<1>x. /\ c.snap \in Snapshot /\ c.snap.policy = b.snap.policy
      /\ c.snap.rows = b.snap.rows /\ c.snap.state[s] = Seen(s)
      /\ \A t \in Source : t # s => c.snap.state[t] = b.snap.state[t]
      /\ Seen(s) \in State /\ file[s].ver \in Nat /\ Seen(s) # None
  <2>1. b.snap \in Snapshot /\ file[s] \in State
    BY <1>b DEF Shaped, Build, TypeOK
  <2>2. Seen(s) \in State /\ Seen(s) # None
    BY SeenIs
  <2> QED
    BY <1>b, <1>f, <2>1, <2>2, NoneIsNothing DEF Snapshot, State
<1>t. c \in Build
  BY <1>f, <1>x DEF Build, PC
<1>1. Shaped(c)
  BY <1>b, <1>f, <1>x, NoneIsNothing DEF Shaped, ReadPC, ParsePC, SettledPC
<1>2. SnapInv(c)
  <2>1. Behind(c.snap, c.repo)
    BY <1>b, <1>f, <1>x, SeenIs DEF SnapInv, Behind
  <2>2. c.todo \subseteq c.snap.rows
    BY <1>b, <1>f, <1>x DEF SnapInv
  <2>3. \A t \in Source : c.snap.state[t] # None <=> t \in c.snap.rows \ c.todo
    BY <1>b, <1>f, <1>x, NoneIsNothing DEF SnapInv
  <2> QED
    BY <1>b, <1>f, <2>1, <2>2, <2>3 DEF SnapInv
<1>3. BeforeInv(c)
  BY <1>b, <1>f DEF BeforeInv, ReadPC, ParsePC, SettledPC
<1>4. DraftInv(c)
  BY <1>b, <1>f DEF DraftInv, ReadPC, ParsePC, SettledPC
<1>5. ItemsInv(c)
  BY <1>b, <1>f, <1>x DEF ItemsInv, NotAfter, SettledPC
<1>6. CoverInv(c)
  BY <1>b, <1>f DEF CoverInv, ReadPC, ParsePC, SettledPC
<1>7. WholeInv(c)
  <2> SUFFICES ASSUME ~Reverts, b.before # None, ~b.whole,
                      c.snap.policy = b.before.policy,
                      c.snap.rows = b.before.rows
               PROVE  \E t \in b.before.rows :
                          IF t \in c.todo THEN FileMoved(c, t)
                          ELSE c.snap.state[t] # b.before.state[t]
    BY <1>b, <1>f, <1>x DEF WholeInv, SettledPC
  <2>1. PICK t \in b.before.rows :
            IF t \in b.todo THEN FileMoved(b, t)
            ELSE b.snap.state[t] # b.before.state[t]
    BY <1>b, <1>f, <1>x DEF WholeInv
  <2>2. t \in Source
    BY <1>b DEF Build, Snapshot
  <2>3. CASE t = s
    <3>1. FileMoved(b, s) /\ s \notin c.todo /\ c.snap.state[s] = Seen(s)
      BY <1>b, <2>1, <2>3, <1>f, <1>x
    <3>2. b.before.state[s].ver \in Nat /\ file[s].ver \in Nat
      BY <1>b, <3>1, <1>x DEF FileMoved, BeforeInv, Build, Snapshot, State
    <3>3. Seen(s) # b.before.state[s]
      BY <3>1, <3>2, SeenIs DEF FileMoved
    <3> QED
      BY <2>3, <3>1, <3>3
  <2>4. CASE t # s
    BY <2>1, <2>2, <2>4, <1>f, <1>x DEF FileMoved
  <2> QED
    BY <2>3, <2>4
<1>8. QuietInv(c)
  BY <1>b, <1>f, <1>x DEF QuietInv
<1> QED
  BY <1>t, <1>1, <1>2, <1>3, <1>4, <1>5, <1>6, <1>7, <1>8 DEF BuildInv

\* The records the remaining steps leave behind.
LEMMA FeedType ==
  ASSUME NEW b \in Build, NEW x \in Snapshot, NEW w \in BOOLEAN
  PROVE  [b EXCEPT !.pc = "feed", !.before = x, !.whole = w] \in Build
  BY DEF Build, PC

\* The cached feed was taken.
LEMMA HitType ==
  ASSUME NEW b \in Build, NEW x \in [Source -> Frames \union {None}]
  PROVE  [b EXCEPT !.pc = "policy", !.hit = TRUE, !.items = x] \in Build
  BY DEF Build, PC

\* The rows are to be read.
LEMMA MissType ==
  ASSUME NEW b \in Build, NEW x \in SUBSET Source, NEW w \in BOOLEAN
  PROVE  [b EXCEPT !.pc = "read", !.todo = x, !.cacheable = w] \in Build
  BY DEF Build, PC

\* A row was left out.
LEMMA SkipType ==
  ASSUME NEW b \in Build
  PROVE  [b EXCEPT !.pc = "read", !.at = None, !.cacheable = FALSE] \in Build
  BY DEF Build, PC

\* A row was kept.
LEMMA KeepType ==
  ASSUME NEW b \in Build, NEW x \in [Source -> Frames \union {None}],
         NEW w \in BOOLEAN
  PROVE  [b EXCEPT !.pc = "read", !.at = None, !.frames = None,
                   !.items = x, !.cacheable = w] \in Build
  BY DEF Build, PC

\* A build that gives up.
LEMMA FailedInv ==
  ASSUME TypeOK, NEW b \in Build, BuildInv(b),
         b.pc \notin {"idle", "claim", "lock"},
         NEW c, c = [b EXCEPT !.pc = "failed"]
  PROVE  c \in Build /\ BuildInv(c)
<1>b. /\ Shaped(b) /\ SnapInv(b) /\ BeforeInv(b) /\ DraftInv(b)
      /\ ItemsInv(b) /\ CoverInv(b) /\ WholeInv(b) /\ QuietInv(b)
  BY DEF BuildInv
<1>f. /\ c.pc = "failed" /\ c.repo = b.repo /\ c.rebuild = b.rebuild
      /\ c.start = b.start /\ c.before = b.before /\ c.snap = b.snap
      /\ c.todo = b.todo /\ c.whole = b.whole /\ c.hit = b.hit
      /\ c.cacheable = b.cacheable /\ c.memo = b.memo /\ c.at = b.at
      /\ c.frames = b.frames /\ c.items = b.items
  BY DEF Build
<1>t. c \in Build
  BY <1>f DEF Build, PC
<1>1. Shaped(c)
  BY <1>b, <1>f DEF Shaped, ReadPC, ParsePC, SettledPC
<1>2. SnapInv(c)
  BY <1>b, <1>f DEF SnapInv, ReadPC, ParsePC, SettledPC
<1>3. BeforeInv(c)
  BY <1>b, <1>f DEF BeforeInv, ReadPC, ParsePC, SettledPC
<1>4. DraftInv(c)
  BY <1>b, <1>f DEF DraftInv, ReadPC, ParsePC, SettledPC
<1>5. ItemsInv(c)
  BY <1>b, <1>f DEF ItemsInv, ReadPC, ParsePC, SettledPC
<1>6. CoverInv(c)
  BY <1>b, <1>f DEF CoverInv, ReadPC, ParsePC, SettledPC
<1>7. WholeInv(c)
  BY <1>b, <1>f DEF WholeInv, ReadPC, ParsePC, SettledPC,
     RowsMoved, FileMoved
<1>8. QuietInv(c)
  BY <1>b, <1>f DEF QuietInv, ReadPC, ParsePC, SettledPC
<1> QED
  BY <1>t, <1>1, <1>2, <1>3, <1>4, <1>5, <1>6, <1>7, <1>8 DEF BuildInv

\* The steps after the second snapshot.
LEMMA SettledInv ==
  ASSUME TypeOK, NEW b \in Build, BuildInv(b),
         b.pc \in SettledPC, NEW pc \in SettledPC,
         pc = "publish" => b.cacheable /\ ~b.hit,
         NEW c, c = [b EXCEPT !.pc = pc]
  PROVE  c \in Build /\ BuildInv(c)
<1>b. /\ Shaped(b) /\ SnapInv(b) /\ BeforeInv(b) /\ DraftInv(b)
      /\ ItemsInv(b) /\ CoverInv(b) /\ WholeInv(b) /\ QuietInv(b)
  BY DEF BuildInv
<1>f. /\ c.pc = pc /\ c.repo = b.repo /\ c.rebuild = b.rebuild
      /\ c.start = b.start /\ c.before = b.before /\ c.snap = b.snap
      /\ c.todo = b.todo /\ c.whole = b.whole /\ c.hit = b.hit
      /\ c.cacheable = b.cacheable /\ c.memo = b.memo /\ c.at = b.at
      /\ c.frames = b.frames /\ c.items = b.items
  BY DEF Build
<1>t. c \in Build
  BY <1>f DEF Build, PC, SettledPC
<1>1. Shaped(c)
  BY <1>b, <1>f DEF Shaped, ReadPC, ParsePC, SettledPC
<1>2. SnapInv(c)
  BY <1>b, <1>f DEF SnapInv, ReadPC, ParsePC, SettledPC
<1>3. BeforeInv(c)
  BY <1>b, <1>f DEF BeforeInv, ReadPC, ParsePC, SettledPC
<1>4. DraftInv(c)
  BY <1>b, <1>f DEF DraftInv, ReadPC, ParsePC, SettledPC
<1>5. ItemsInv(c)
  BY <1>b, <1>f DEF ItemsInv, ReadPC, ParsePC, SettledPC
<1>6. CoverInv(c)
  BY <1>b, <1>f DEF CoverInv, ReadPC, ParsePC, SettledPC
<1>7. WholeInv(c)
  BY <1>b, <1>f DEF WholeInv, ReadPC, ParsePC, SettledPC,
     RowsMoved, FileMoved
<1>8. QuietInv(c)
  BY <1>b, <1>f DEF QuietInv, ReadPC, ParsePC, SettledPC
<1> QED
  BY <1>t, <1>1, <1>2, <1>3, <1>4, <1>5, <1>6, <1>7, <1>8 DEF BuildInv

\* All rows are read; the second snapshot follows.
LEMMA EndReadInv ==
  ASSUME TypeOK, NEW b \in Build, BuildInv(b),
         b.pc = "read", b.todo = {},
         NEW c, c = [b EXCEPT !.pc = "policy"]
  PROVE  c \in Build /\ BuildInv(c)
<1>b. /\ Shaped(b) /\ SnapInv(b) /\ BeforeInv(b) /\ DraftInv(b)
      /\ ItemsInv(b) /\ CoverInv(b) /\ WholeInv(b) /\ QuietInv(b)
  BY DEF BuildInv
<1>f. /\ c.pc = "policy" /\ c.repo = b.repo /\ c.rebuild = b.rebuild
      /\ c.start = b.start /\ c.before = b.before /\ c.snap = b.snap
      /\ c.todo = b.todo /\ c.whole = b.whole /\ c.hit = b.hit
      /\ c.cacheable = b.cacheable /\ c.memo = b.memo /\ c.at = b.at
      /\ c.frames = b.frames /\ c.items = b.items
  BY DEF Build
<1>t. c \in Build
  BY <1>f DEF Build, PC
<1>1. Shaped(c)
  BY <1>b, <1>f DEF Shaped, ReadPC, ParsePC, SettledPC
<1>2. SnapInv(c)
  BY <1>b, <1>f DEF SnapInv, ReadPC, ParsePC, SettledPC
<1>3. BeforeInv(c)
  BY <1>b, <1>f DEF BeforeInv, ReadPC, ParsePC, SettledPC
<1>4. DraftInv(c)
  BY <1>b, <1>f DEF DraftInv, ReadPC, ParsePC, SettledPC
<1>5. ItemsInv(c)
  BY <1>b, <1>f DEF ItemsInv, ReadPC, ParsePC, SettledPC
<1>6. CoverInv(c)
  BY <1>b, <1>f, NoneIsNothing DEF CoverInv, Shaped, ReadPC, ParsePC,
     SettledPC, Ready,
     Build, Snapshot
<1>7. WholeInv(c)
  BY <1>b, <1>f DEF WholeInv, ReadPC, ParsePC, SettledPC,
     RowsMoved, FileMoved
<1>8. QuietInv(c)
  BY <1>b, <1>f DEF QuietInv, ReadPC, ParsePC, SettledPC
<1> QED
  BY <1>t, <1>1, <1>2, <1>3, <1>4, <1>5, <1>6, <1>7, <1>8 DEF BuildInv

\* The second snapshot is the first one: nothing moved between them.
LEMMA UnchangedInv ==
  ASSUME TypeOK, NEW b \in Build, BuildInv(b),
         b.pc = "stat", b.todo = {}, b.before # None,
         b.before = b.snap,
         NEW c, c = [b EXCEPT !.pc = "receipts"]
  PROVE  c \in Build /\ BuildInv(c)
<1>b. /\ Shaped(b) /\ SnapInv(b) /\ BeforeInv(b) /\ DraftInv(b)
      /\ ItemsInv(b) /\ CoverInv(b) /\ WholeInv(b) /\ QuietInv(b)
  BY DEF BuildInv
<1>f. /\ c.pc = "receipts" /\ c.repo = b.repo /\ c.rebuild = b.rebuild
      /\ c.start = b.start /\ c.before = b.before /\ c.snap = b.snap
      /\ c.todo = b.todo /\ c.whole = b.whole /\ c.hit = b.hit
      /\ c.cacheable = b.cacheable /\ c.memo = b.memo /\ c.at = b.at
      /\ c.frames = b.frames /\ c.items = b.items
  BY DEF Build
<1>x. ~Reverts => b.whole
  BY <1>b DEF WholeInv
<1>t. c \in Build
  BY <1>f DEF Build, PC
<1>1. Shaped(c)
  BY <1>b, <1>f, <1>x DEF Shaped, ReadPC, ParsePC, SettledPC
<1>2. SnapInv(c)
  BY <1>b, <1>f DEF SnapInv, ReadPC, ParsePC, SettledPC
<1>3. BeforeInv(c)
  BY <1>b, <1>f DEF BeforeInv, ReadPC, ParsePC, SettledPC
<1>4. DraftInv(c)
  BY <1>b, <1>f DEF DraftInv, ReadPC, ParsePC, SettledPC
<1>5. ItemsInv(c)
  BY <1>b, <1>f DEF ItemsInv, SettledPC
<1>6. CoverInv(c)
  BY <1>b, <1>f DEF CoverInv, ReadPC, ParsePC, SettledPC
<1>7. WholeInv(c)
  BY <1>b, <1>f, <1>x DEF WholeInv, BeforeInv, SnapInv
<1>8. QuietInv(c)
  BY <1>b, <1>f DEF QuietInv, ReadPC, ParsePC, SettledPC
<1> QED
  BY <1>t, <1>1, <1>2, <1>3, <1>4, <1>5, <1>6, <1>7, <1>8 DEF BuildInv

\* The first snapshot is complete, and whole or already left behind.
LEMMA FirstSnapshotInv ==
  ASSUME TypeOK, NEW b \in Build, BuildInv(b),
         b.pc = "stat", b.todo = {}, b.before = None,
         NEW c, c = [b EXCEPT !.pc = "feed", !.before = b.snap,
                            !.whole = (b.snap = WorldOf(b.repo))]
  PROVE  c \in Build /\ BuildInv(c)
<1>b. /\ Shaped(b) /\ SnapInv(b) /\ BeforeInv(b) /\ DraftInv(b)
      /\ ItemsInv(b) /\ CoverInv(b) /\ WholeInv(b) /\ QuietInv(b)
  BY DEF BuildInv
<1>f. /\ c.pc = "feed" /\ c.repo = b.repo /\ c.rebuild = b.rebuild
      /\ c.start = b.start /\ c.before = b.snap /\ c.snap = b.snap
      /\ c.todo = b.todo /\ c.whole = (b.snap = WorldOf(b.repo))
      /\ c.hit = b.hit /\ c.cacheable = b.cacheable /\ c.memo = b.memo
      /\ c.at = b.at /\ c.frames = b.frames /\ c.items = b.items
  BY DEF Build
<1>x. b.snap \in Snapshot
  BY <1>b DEF Shaped, Build
<1>t. c \in Build
  BY <1>x, FeedType
<1>1. Shaped(c)
  BY <1>b, <1>f, <1>x, NoneIsNothing DEF Shaped, ReadPC, ParsePC, SettledPC
<1>2. SnapInv(c)
  BY <1>b, <1>f DEF SnapInv, ReadPC, ParsePC, SettledPC
<1>3. BeforeInv(c)
  BY <1>b, <1>f DEF BeforeInv, SnapInv, ReadPC, ParsePC, SettledPC
<1>4. DraftInv(c)
  BY <1>b, <1>f DEF DraftInv, ReadPC, ParsePC, SettledPC
<1>5. ItemsInv(c)
  BY <1>b, <1>f DEF ItemsInv, Shaped, Since, NotAfter, NoRows, SettledPC
<1>6. CoverInv(c)
  BY <1>b, <1>f DEF CoverInv, ReadPC, ParsePC, SettledPC
<1>7. WholeInv(c)
  <2> SUFFICES ASSUME ~Reverts, b.snap # WorldOf(b.repo),
                      b.snap.policy = policy, b.snap.rows = Rows(b.repo)
               PROVE  \E s \in Source : FileMoved(c, s)
    <3>1. b.snap.policy \in Nat /\ policy \in Nat
      BY <1>x, PolicyType DEF Snapshot, TypeOK
    <3>2. Older(b.snap.policy, policy)
      BY <1>b DEF SnapInv, Behind
    <3>3. ~c.whole => b.snap # WorldOf(b.repo)
      BY <1>f
    <3>4. /\ c.pc = "feed" /\ c.before = b.snap /\ c.repo = b.repo
      BY <1>f
    <3>5. Rows(c.repo) # c.before.rows => RowsMoved(c)
      BY DEF RowsMoved
    <3> QED
      BY <3>1, <3>2, <3>3, <3>4, <3>5 DEF WholeInv, Older, SettledPC
  <2>1. PICK s \in Source : b.snap.state[s] #
                               IF s \in Rows(b.repo) THEN Seen(s) ELSE None
    <3>1. ASSUME \A s \in Source : b.snap.state[s] =
                       IF s \in Rows(b.repo) THEN Seen(s) ELSE None
          PROVE  b.snap = WorldOf(b.repo)
      <4>1. b.snap.state = [s \in Source |-> IF s \in Rows(b.repo) THEN Seen(s)
                                                                  ELSE None]
        BY <1>x, <3>1 DEF Snapshot
      <4> QED
        BY <1>x, <4>1 DEF Snapshot, WorldOf
    <3> QED
      BY <3>1
  <2>2. s \in b.snap.rows /\ b.snap.state[s] # None /\ b.snap.state[s] # Seen(s)
    BY <1>b, <2>1 DEF SnapInv
  <2>3. StateBehind(s, b.snap.state[s])
    BY <1>b, <2>2 DEF SnapInv, Behind
  <2>4. b.snap.state[s].ver \in Nat /\ file[s].ver \in Nat
    BY <1>x, <2>2 DEF Snapshot, State, TypeOK
  <2> QED
    BY <1>f, <2>2, <2>3, <2>4, SeenIs DEF FileMoved, StateBehind
<1>8. QuietInv(c)
  <2>1. ASSUME b.start = edits PROVE b.snap = WorldOf(b.repo)
    <3>1. /\ b.snap.policy = policy /\ b.snap.rows = Rows(b.repo)
          /\ \A s \in Source : b.snap.state[s] # None =>
                                   b.snap.state[s] = Seen(s)
      BY <1>b, <2>1 DEF QuietInv
    <3>2. b.snap.state = [s \in Source |-> IF s \in Rows(b.repo) THEN Seen(s)
                                                                ELSE None]
      BY <1>b, <1>x, <3>1 DEF Snapshot, SnapInv
    <3> QED
      BY <1>x, <3>1, <3>2 DEF Snapshot, WorldOf
  <2> QED
    BY <1>b, <1>f, <2>1 DEF QuietInv
<1> QED
  BY <1>t, <1>1, <1>2, <1>3, <1>4, <1>5, <1>6, <1>7, <1>8 DEF BuildInv

\* The cached feed is taken, to be confirmed by the second snapshot.
LEMMA FeedHitInv ==
  ASSUME TypeOK, NEW b \in Build, BuildInv(b),
         b.pc = "feed", NEW items \in [Source -> Frames \union {None}],
         Since(items, b.before), NotAfter(items, b.before.policy),
         ReceiptsAreCurrent(items),
         NEW c, c = [b EXCEPT !.pc = "policy", !.hit = TRUE, !.items = items]
  PROVE  c \in Build /\ BuildInv(c)
<1>b. /\ Shaped(b) /\ SnapInv(b) /\ BeforeInv(b) /\ DraftInv(b)
      /\ ItemsInv(b) /\ CoverInv(b) /\ WholeInv(b) /\ QuietInv(b)
  BY DEF BuildInv
<1>f. /\ c.pc = "policy" /\ c.repo = b.repo /\ c.rebuild = b.rebuild
      /\ c.start = b.start /\ c.before = b.before /\ c.snap = b.snap
      /\ c.todo = b.todo /\ c.whole = b.whole /\ c.hit = TRUE
      /\ c.cacheable = b.cacheable /\ c.memo = b.memo /\ c.at = b.at
      /\ c.frames = b.frames /\ c.items = items
  BY DEF Build
<1>t. c \in Build
  BY HitType
<1>1. Shaped(c)
  BY <1>b, <1>f DEF Shaped, ReadPC, ParsePC, SettledPC
<1>2. SnapInv(c)
  BY <1>b, <1>f DEF SnapInv, ReadPC, ParsePC, SettledPC
<1>3. BeforeInv(c)
  BY <1>b, <1>f DEF BeforeInv, ReadPC, ParsePC, SettledPC
<1>4. DraftInv(c)
  BY <1>b, <1>f DEF DraftInv, ReadPC, ParsePC, SettledPC
<1>5. ItemsInv(c)
  <2>1. b.before.policy \in Nat /\ policy \in Nat
    BY <1>b, PolicyType DEF Shaped, Build, Snapshot, TypeOK
  <2>2. Older(b.before.policy, policy)
    BY <1>b DEF BeforeInv, Behind, Shaped
  <2>3. NotAfter(items, policy)
    BY <2>1, <2>2, PolicyType, OlderTrans DEF NotAfter, Frames
  <2> QED
    BY <1>f, <2>3 DEF ItemsInv, SettledPC
<1>6. CoverInv(c)
  BY <1>b, <1>f DEF CoverInv, ReadPC, ParsePC, SettledPC
<1>7. WholeInv(c)
  BY <1>b, <1>f DEF WholeInv, ReadPC, ParsePC, SettledPC,
     RowsMoved, FileMoved
<1>8. QuietInv(c)
  BY <1>b, <1>f DEF QuietInv, ReadPC, ParsePC, SettledPC
<1> QED
  BY <1>t, <1>1, <1>2, <1>3, <1>4, <1>5, <1>6, <1>7, <1>8 DEF BuildInv

\* No cached feed: the readable rows are to be read.
LEMMA FeedMissInv ==
  ASSUME TypeOK, NEW b \in Build, BuildInv(b),
         b.pc = "feed",
         NEW c, c = [b EXCEPT !.pc = "read", !.todo = Ready(b.before),
                            !.cacheable = (Unavailable(b.before) = {})]
  PROVE  c \in Build /\ BuildInv(c)
<1>b. /\ Shaped(b) /\ SnapInv(b) /\ BeforeInv(b) /\ DraftInv(b)
      /\ ItemsInv(b) /\ CoverInv(b) /\ WholeInv(b) /\ QuietInv(b)
  BY DEF BuildInv
<1>f. /\ c.pc = "read" /\ c.repo = b.repo /\ c.rebuild = b.rebuild
      /\ c.start = b.start /\ c.before = b.before /\ c.snap = b.snap
      /\ c.todo = Ready(b.before) /\ c.whole = b.whole /\ c.hit = b.hit
      /\ c.cacheable = (Unavailable(b.before) = {}) /\ c.memo = b.memo
      /\ c.at = b.at /\ c.frames = b.frames /\ c.items = b.items
  BY DEF Build
<1>x. Ready(b.before) \subseteq Source
  BY <1>b DEF Shaped, Build, Snapshot, Ready
<1>t. c \in Build
  BY <1>x, MissType
<1>1. Shaped(c)
  BY <1>b, <1>f DEF Shaped, ReadPC, ParsePC, SettledPC
<1>2. SnapInv(c)
  BY <1>b, <1>f DEF SnapInv, ReadPC, ParsePC, SettledPC
<1>3. BeforeInv(c)
  BY <1>b, <1>f DEF BeforeInv, ReadPC, ParsePC, SettledPC
<1>4. DraftInv(c)
  BY <1>b, <1>f DEF DraftInv, ReadPC, ParsePC, SettledPC
<1>5. ItemsInv(c)
  BY <1>b, <1>f DEF ItemsInv, ReadPC, ParsePC, SettledPC
<1>6. CoverInv(c)
  <2>1. c.cacheable => Unavailable(b.before) = {}
    BY <1>f
  <2>2. c.pc = "read" /\ c.before = b.before /\ c.todo = Ready(b.before)
    BY <1>f
  <2> QED
    BY <2>1, <2>2 DEF CoverInv, ReadPC
<1>7. WholeInv(c)
  BY <1>b, <1>f DEF WholeInv, ReadPC, ParsePC, SettledPC,
     RowsMoved, FileMoved
<1>8. QuietInv(c)
  BY <1>b, <1>f DEF QuietInv, ReadPC, ParsePC, SettledPC
<1> QED
  BY <1>t, <1>1, <1>2, <1>3, <1>4, <1>5, <1>6, <1>7, <1>8 DEF BuildInv

\* A slot of the row is taken over.
LEMMA ReuseRowInv ==
  ASSUME TypeOK, NEW b \in Build, BuildInv(b),
         b.pc = "read", NEW s \in Source, s \in b.todo,
         NEW frames \in Frames, NEW memo \in Layout \union {None},
         frames.ver = b.before.state[s].ver,
         Older(b.before.policy, frames.policy), Older(frames.policy, policy),
         b.start = edits => frames.receipt = layout,
         b.start = edits /\ memo # None => memo = layout,
         NEW c, c = [b EXCEPT !.items = [b.items EXCEPT ![s] = frames],
                            !.todo = b.todo \ {s}, !.memo = memo]
  PROVE  c \in Build /\ BuildInv(c)
<1>b. /\ Shaped(b) /\ SnapInv(b) /\ BeforeInv(b) /\ DraftInv(b)
      /\ ItemsInv(b) /\ CoverInv(b) /\ WholeInv(b) /\ QuietInv(b)
  BY DEF BuildInv
<1>f. /\ c.pc = b.pc /\ c.repo = b.repo /\ c.rebuild = b.rebuild
      /\ c.start = b.start /\ c.before = b.before /\ c.snap = b.snap
      /\ c.todo = b.todo \ {s} /\ c.whole = b.whole /\ c.hit = b.hit
      /\ c.cacheable = b.cacheable /\ c.memo = memo /\ c.at = b.at
      /\ c.frames = b.frames /\ c.items = [b.items EXCEPT ![s] = frames]
  BY DEF Build
<1>x. /\ c.items \in [Source -> Frames \union {None}] /\ c.items[s] = frames
      /\ \A t \in Source : t # s => c.items[t] = b.items[t]
  BY <1>f DEF Build
<1>y. s \in Ready(b.before)
  BY <1>b DEF BeforeInv, Shaped, ReadPC
<1>t. c \in Build
  BY <1>f, <1>x DEF Build
<1>1. Shaped(c)
  BY <1>b, <1>f DEF Shaped, ReadPC, ParsePC, SettledPC
<1>2. SnapInv(c)
  BY <1>b, <1>f DEF SnapInv, ReadPC, ParsePC, SettledPC
<1>3. BeforeInv(c)
  BY <1>b, <1>f DEF BeforeInv, ReadPC, ParsePC, SettledPC
<1>4. DraftInv(c)
  BY <1>b, <1>f DEF DraftInv, ReadPC, ParsePC, SettledPC
<1>5. ItemsInv(c)
  <2>1. Since(c.items, b.before)
    BY <1>b, <1>f, <1>x, <1>y DEF ItemsInv, Since, Shaped, ReadPC, ParsePC
  <2>2. NotAfter(c.items, policy)
    BY <1>b, <1>f, <1>x, <1>y DEF ItemsInv, NotAfter, Shaped, ReadPC, ParsePC
  <2> QED
    BY <1>b, <1>f, <2>1, <2>2 DEF ItemsInv, SettledPC
<1>6. CoverInv(c)
  BY <1>b, <1>f, <1>x, NoneIsNothing DEF CoverInv, ReadPC, ParsePC, SettledPC,
     Draft, Frames
<1>7. WholeInv(c)
  BY <1>b, <1>f DEF WholeInv, ReadPC, ParsePC, SettledPC,
     RowsMoved, FileMoved
<1>8. QuietInv(c)
  BY <1>b, <1>f, <1>x DEF QuietInv, ReceiptsAreCurrent
<1> QED
  BY <1>t, <1>1, <1>2, <1>3, <1>4, <1>5, <1>6, <1>7, <1>8 DEF BuildInv

\* No slot of the row will do: it is to be parsed.
LEMMA OpenRowInv ==
  ASSUME TypeOK, NEW b \in Build, BuildInv(b),
         b.pc = "read", NEW s \in Source, s \in b.todo,
         NEW memo \in Layout \union {None},
         b.start = edits /\ memo # None => memo = layout,
         NEW c, c = [b EXCEPT !.pc = "parse", !.at = s,
                            !.todo = b.todo \ {s}, !.memo = memo]
  PROVE  c \in Build /\ BuildInv(c)
<1>b. /\ Shaped(b) /\ SnapInv(b) /\ BeforeInv(b) /\ DraftInv(b)
      /\ ItemsInv(b) /\ CoverInv(b) /\ WholeInv(b) /\ QuietInv(b)
  BY DEF BuildInv
<1>f. /\ c.pc = "parse" /\ c.repo = b.repo /\ c.rebuild = b.rebuild
      /\ c.start = b.start /\ c.before = b.before /\ c.snap = b.snap
      /\ c.todo = b.todo \ {s} /\ c.whole = b.whole /\ c.hit = b.hit
      /\ c.cacheable = b.cacheable /\ c.memo = memo /\ c.at = s
      /\ c.frames = b.frames /\ c.items = b.items
  BY DEF Build
<1>t. c \in Build
  BY <1>f DEF Build, PC
<1>1. Shaped(c)
  BY <1>b, <1>f, NoneIsNothing DEF Shaped, ReadPC, ParsePC, SettledPC
<1>2. SnapInv(c)
  BY <1>b, <1>f DEF SnapInv, ReadPC, ParsePC, SettledPC
<1>3. BeforeInv(c)
  BY <1>b, <1>f DEF BeforeInv, ReadPC, ParsePC, SettledPC
<1>4. DraftInv(c)
  BY <1>b, <1>f DEF DraftInv, ReadPC, ParsePC, SettledPC
<1>5. ItemsInv(c)
  BY <1>b, <1>f DEF ItemsInv, ReadPC, ParsePC, SettledPC
<1>6. CoverInv(c)
  <2>1. ASSUME c.before # None /\ c.cacheable /\ ~c.hit
        PROVE  /\ Unavailable(b.before) = {}
               /\ \A t \in Ready(b.before) :
                      b.items[t] # None \/ t \in b.todo \/ t = b.at
    BY <1>b, <1>f, <2>1 DEF CoverInv
  <2>2. b.at = None /\ Ready(b.before) \subseteq Source
    BY <1>b DEF Shaped, Build, Snapshot, Ready, ParsePC, ReadPC
  <2> QED
    BY <1>f, <2>1, <2>2, NoneIsNothing DEF CoverInv, ParsePC, ReadPC
<1>7. WholeInv(c)
  BY <1>b, <1>f DEF WholeInv, ReadPC, ParsePC, SettledPC,
     RowsMoved, FileMoved
<1>8. QuietInv(c)
  BY <1>b, <1>f DEF QuietInv, ReadPC, ParsePC, SettledPC
<1> QED
  BY <1>t, <1>1, <1>2, <1>3, <1>4, <1>5, <1>6, <1>7, <1>8 DEF BuildInv

\* The transcript is parsed as it is now.
LEMMA ParseInv ==
  ASSUME TypeOK, NEW b \in Build, BuildInv(b),
         b.pc = "parse",
         NEW c, c = [b EXCEPT !.pc = "ignore",
                  !.frames = [ver |-> file[b.at].ver, layout |-> layout,
                              policy |-> None, receipt |-> None]]
  PROVE  c \in Build /\ BuildInv(c)
<1>b. /\ Shaped(b) /\ SnapInv(b) /\ BeforeInv(b) /\ DraftInv(b)
      /\ ItemsInv(b) /\ CoverInv(b) /\ WholeInv(b) /\ QuietInv(b)
  BY DEF BuildInv
<1>f. /\ c.pc = "ignore" /\ c.repo = b.repo /\ c.rebuild = b.rebuild
      /\ c.start = b.start /\ c.before = b.before /\ c.snap = b.snap
      /\ c.todo = b.todo /\ c.whole = b.whole /\ c.hit = b.hit
      /\ c.cacheable = b.cacheable /\ c.memo = b.memo /\ c.at = b.at
      /\ c.frames = [ver |-> file[b.at].ver, layout |-> layout,
                      policy |-> None, receipt |-> None]
      /\ c.items = b.items
  BY DEF Build
<1>x. /\ b.at \in Source /\ file[b.at].ver \in Nat
      /\ c.frames \in Draft /\ c.frames.ver = file[b.at].ver
  <2>1. b.at \in Source /\ file[b.at].ver \in Nat /\ layout \in Layout
    BY <1>b DEF Shaped, ParsePC, Build, TypeOK, State
  <2> QED
    BY <1>f, <2>1 DEF Draft
<1>t. c \in Build
  BY <1>f, <1>x DEF Build, PC
<1>1. Shaped(c)
  BY <1>b, <1>f, <1>x, NoneIsNothing DEF Shaped, ReadPC, ParsePC, SettledPC,
     Draft
<1>2. SnapInv(c)
  BY <1>b, <1>f DEF SnapInv, ReadPC, ParsePC, SettledPC
<1>3. BeforeInv(c)
  BY <1>b, <1>f DEF BeforeInv, ReadPC, ParsePC, SettledPC
<1>4. DraftInv(c)
  <2>1. b.at \in Ready(b.before) /\ b.before \in Snapshot
    BY <1>b DEF BeforeInv, Shaped, Build, ParsePC, ReadPC
  <2>2. b.before.state[b.at] # None
    BY <1>b, <1>x, <2>1 DEF BeforeInv, Shaped, Ready, ParsePC, ReadPC
  <2>3. StateBehind(b.at, b.before.state[b.at])
    BY <1>b, <1>x, <2>2 DEF BeforeInv, Behind, Shaped, ParsePC, ReadPC
  <2> QED
    BY <1>f, <1>x, <2>1, <2>3 DEF DraftInv, StateBehind, Ready
<1>5. ItemsInv(c)
  BY <1>b, <1>f DEF ItemsInv, ReadPC, ParsePC, SettledPC
<1>6. CoverInv(c)
  BY <1>b, <1>f DEF CoverInv, ReadPC, ParsePC, SettledPC
<1>7. WholeInv(c)
  BY <1>b, <1>f DEF WholeInv, ReadPC, ParsePC, SettledPC,
     RowsMoved, FileMoved
<1>8. QuietInv(c)
  BY <1>b, <1>f DEF QuietInv, ReadPC, ParsePC, SettledPC
<1> QED
  BY <1>t, <1>1, <1>2, <1>3, <1>4, <1>5, <1>6, <1>7, <1>8 DEF BuildInv

\* Or it cannot be read.
LEMMA ParseFailsInv ==
  ASSUME TypeOK, NEW b \in Build, BuildInv(b),
         b.pc = "parse",
         NEW c, c = [b EXCEPT !.pc = "restat", !.frames = None]
  PROVE  c \in Build /\ BuildInv(c)
<1>b. /\ Shaped(b) /\ SnapInv(b) /\ BeforeInv(b) /\ DraftInv(b)
      /\ ItemsInv(b) /\ CoverInv(b) /\ WholeInv(b) /\ QuietInv(b)
  BY DEF BuildInv
<1>f. /\ c.pc = "restat" /\ c.repo = b.repo /\ c.rebuild = b.rebuild
      /\ c.start = b.start /\ c.before = b.before /\ c.snap = b.snap
      /\ c.todo = b.todo /\ c.whole = b.whole /\ c.hit = b.hit
      /\ c.cacheable = b.cacheable /\ c.memo = b.memo /\ c.at = b.at
      /\ c.frames = None /\ c.items = b.items
  BY DEF Build
<1>t. c \in Build
  BY <1>f DEF Build, PC
<1>1. Shaped(c)
  BY <1>b, <1>f DEF Shaped, ReadPC, ParsePC, SettledPC
<1>2. SnapInv(c)
  BY <1>b, <1>f DEF SnapInv, ReadPC, ParsePC, SettledPC
<1>3. BeforeInv(c)
  BY <1>b, <1>f DEF BeforeInv, ReadPC, ParsePC, SettledPC
<1>4. DraftInv(c)
  BY <1>b, <1>f DEF DraftInv, ReadPC, ParsePC, SettledPC
<1>5. ItemsInv(c)
  BY <1>b, <1>f DEF ItemsInv, ReadPC, ParsePC, SettledPC
<1>6. CoverInv(c)
  BY <1>b, <1>f DEF CoverInv, ReadPC, ParsePC, SettledPC
<1>7. WholeInv(c)
  BY <1>b, <1>f DEF WholeInv, ReadPC, ParsePC, SettledPC,
     RowsMoved, FileMoved
<1>8. QuietInv(c)
  BY <1>b, <1>f DEF QuietInv, ReadPC, ParsePC, SettledPC
<1> QED
  BY <1>t, <1>1, <1>2, <1>3, <1>4, <1>5, <1>6, <1>7, <1>8 DEF BuildInv

\* The rules it is filtered by are not older than the first snapshot's.
LEMMA LoadIgnoreInv ==
  ASSUME TypeOK, NEW b \in Build, BuildInv(b),
         b.pc = "ignore",
         NEW c, c = [b EXCEPT !.pc = "receipt",
                            !.frames = [b.frames EXCEPT !.policy = policy]]
  PROVE  c \in Build /\ BuildInv(c)
<1>b. /\ Shaped(b) /\ SnapInv(b) /\ BeforeInv(b) /\ DraftInv(b)
      /\ ItemsInv(b) /\ CoverInv(b) /\ WholeInv(b) /\ QuietInv(b)
  BY DEF BuildInv
<1>f. /\ c.pc = "receipt" /\ c.repo = b.repo /\ c.rebuild = b.rebuild
      /\ c.start = b.start /\ c.before = b.before /\ c.snap = b.snap
      /\ c.todo = b.todo /\ c.whole = b.whole /\ c.hit = b.hit
      /\ c.cacheable = b.cacheable /\ c.memo = b.memo /\ c.at = b.at
      /\ c.frames = [b.frames EXCEPT !.policy = policy] /\ c.items = b.items
  BY DEF Build
<1>x. /\ c.frames \in Draft /\ c.frames.ver = b.frames.ver
      /\ c.frames.policy = policy /\ b.frames # None
  <2>1. b.frames \in Draft
    BY <1>b DEF Shaped, Build
  <2> QED
    BY <1>f, <2>1, NoneIsNothing DEF Draft, TypeOK
<1>t. c \in Build
  BY <1>f, <1>x DEF Build, PC
<1>1. Shaped(c)
  BY <1>b, <1>f, <1>x, NoneIsNothing DEF Shaped, ReadPC, ParsePC, SettledPC,
     TypeOK
<1>2. SnapInv(c)
  BY <1>b, <1>f DEF SnapInv, ReadPC, ParsePC, SettledPC
<1>3. BeforeInv(c)
  BY <1>b, <1>f DEF BeforeInv, ReadPC, ParsePC, SettledPC
<1>4. DraftInv(c)
  <2>1. Older(b.before.policy, policy)
    BY <1>b DEF BeforeInv, Behind, Shaped, ParsePC, ReadPC
  <2>2. Older(policy, policy)
    BY PolicyType DEF Older, TypeOK
  <2> QED
    BY <1>b, <1>f, <1>x, <2>1, <2>2 DEF DraftInv
<1>5. ItemsInv(c)
  BY <1>b, <1>f DEF ItemsInv, ReadPC, ParsePC, SettledPC
<1>6. CoverInv(c)
  BY <1>b, <1>f DEF CoverInv, ReadPC, ParsePC, SettledPC
<1>7. WholeInv(c)
  BY <1>b, <1>f DEF WholeInv, ReadPC, ParsePC, SettledPC,
     RowsMoved, FileMoved
<1>8. QuietInv(c)
  BY <1>b, <1>f DEF QuietInv, ReadPC, ParsePC, SettledPC
<1> QED
  BY <1>t, <1>1, <1>2, <1>3, <1>4, <1>5, <1>6, <1>7, <1>8 DEF BuildInv

\* The receipt is taken.
LEMMA TakeReceiptInv ==
  ASSUME TypeOK, NEW b \in Build, BuildInv(b),
         b.pc = "receipt",
         NEW c, c = [b EXCEPT !.pc = "restat",
                            !.frames = [b.frames EXCEPT !.receipt = layout]]
  PROVE  c \in Build /\ BuildInv(c)
<1>b. /\ Shaped(b) /\ SnapInv(b) /\ BeforeInv(b) /\ DraftInv(b)
      /\ ItemsInv(b) /\ CoverInv(b) /\ WholeInv(b) /\ QuietInv(b)
  BY DEF BuildInv
<1>f. /\ c.pc = "restat" /\ c.repo = b.repo /\ c.rebuild = b.rebuild
      /\ c.start = b.start /\ c.before = b.before /\ c.snap = b.snap
      /\ c.todo = b.todo /\ c.whole = b.whole /\ c.hit = b.hit
      /\ c.cacheable = b.cacheable /\ c.memo = b.memo /\ c.at = b.at
      /\ c.frames = [b.frames EXCEPT !.receipt = layout] /\ c.items = b.items
  BY DEF Build
<1>x. /\ c.frames \in Draft /\ c.frames.ver = b.frames.ver
      /\ c.frames.policy = b.frames.policy /\ c.frames.receipt = layout
      /\ b.frames # None
  <2>1. b.frames \in Draft
    BY <1>b DEF Shaped, Build
  <2> QED
    BY <1>f, <2>1, NoneIsNothing DEF Draft, TypeOK
<1>t. c \in Build
  BY <1>f, <1>x DEF Build, PC
<1>1. Shaped(c)
  BY <1>b, <1>f, <1>x, NoneIsNothing DEF Shaped, ReadPC, ParsePC, SettledPC,
     TypeOK
<1>2. SnapInv(c)
  BY <1>b, <1>f DEF SnapInv, ReadPC, ParsePC, SettledPC
<1>3. BeforeInv(c)
  BY <1>b, <1>f DEF BeforeInv, ReadPC, ParsePC, SettledPC
<1>4. DraftInv(c)
  BY <1>b, <1>f, <1>x DEF DraftInv
<1>5. ItemsInv(c)
  BY <1>b, <1>f DEF ItemsInv, ReadPC, ParsePC, SettledPC
<1>6. CoverInv(c)
  BY <1>b, <1>f DEF CoverInv, ReadPC, ParsePC, SettledPC
<1>7. WholeInv(c)
  BY <1>b, <1>f DEF WholeInv, ReadPC, ParsePC, SettledPC,
     RowsMoved, FileMoved
<1>8. QuietInv(c)
  BY <1>b, <1>f, <1>x DEF QuietInv
<1> QED
  BY <1>t, <1>1, <1>2, <1>3, <1>4, <1>5, <1>6, <1>7, <1>8 DEF BuildInv

\* The source is still as the first snapshot has it: so were the bytes parsed.
LEMMA SameInv ==
  ASSUME TypeOK, NEW b \in Build, BuildInv(b),
         b.pc = "restat", Seen(b.at) = b.before.state[b.at],
         NEW pc, pc = IF b.frames = None THEN "skip" ELSE "keep",
         NEW c, c = [b EXCEPT !.pc = pc]
  PROVE  c \in Build /\ BuildInv(c)
<1>b. /\ Shaped(b) /\ SnapInv(b) /\ BeforeInv(b) /\ DraftInv(b)
      /\ ItemsInv(b) /\ CoverInv(b) /\ WholeInv(b) /\ QuietInv(b)
  BY DEF BuildInv
<1>f. /\ c.pc = pc /\ c.repo = b.repo /\ c.rebuild = b.rebuild
      /\ c.start = b.start /\ c.before = b.before /\ c.snap = b.snap
      /\ c.todo = b.todo /\ c.whole = b.whole /\ c.hit = b.hit
      /\ c.cacheable = b.cacheable /\ c.memo = b.memo /\ c.at = b.at
      /\ c.frames = b.frames /\ c.items = b.items
  BY DEF Build
<1>t. c \in Build
  BY <1>f DEF Build, PC
<1>1. Shaped(c)
  BY <1>b, <1>f DEF Shaped, ReadPC, ParsePC, SettledPC
<1>2. SnapInv(c)
  BY <1>b, <1>f DEF SnapInv, ReadPC, ParsePC, SettledPC
<1>3. BeforeInv(c)
  BY <1>b, <1>f DEF BeforeInv, ReadPC, ParsePC, SettledPC
<1>4. DraftInv(c)
  <2>1. b.frames # None => b.at \in Source /\ b.frames.ver \in Nat
    BY <1>b DEF Shaped, Build, ParsePC, Draft
  <2>2. b.frames # None => file[b.at].ver \in Nat
    BY <2>1 DEF TypeOK, State
  <2>3. b.at \in Source /\ b.before.state[b.at].kind = "ready"
    BY <1>b DEF Shaped, BeforeInv, Build, ParsePC, ReadPC, Ready
  <2>4. file[b.at] = b.before.state[b.at]
    BY <2>3, SeenIs
  <2> QED
    BY <1>b, <1>f, <2>1, <2>2, <2>4 DEF DraftInv
<1>5. ItemsInv(c)
  BY <1>b, <1>f DEF ItemsInv, ReadPC, ParsePC, SettledPC
<1>6. CoverInv(c)
  BY <1>b, <1>f DEF CoverInv, ReadPC, ParsePC, SettledPC
<1>7. WholeInv(c)
  BY <1>b, <1>f DEF WholeInv, ReadPC, ParsePC, SettledPC,
     RowsMoved, FileMoved
<1>8. QuietInv(c)
  BY <1>b, <1>f DEF QuietInv, ReadPC, ParsePC, SettledPC
<1> QED
  BY <1>t, <1>1, <1>2, <1>3, <1>4, <1>5, <1>6, <1>7, <1>8 DEF BuildInv

\* A row that could not be read is left out.
LEMMA SkipRowInv ==
  ASSUME TypeOK, NEW b \in Build, BuildInv(b),
         b.pc = "skip",
         NEW c, c = [b EXCEPT !.pc = "read", !.at = None, !.cacheable = FALSE]
  PROVE  c \in Build /\ BuildInv(c)
<1>b. /\ Shaped(b) /\ SnapInv(b) /\ BeforeInv(b) /\ DraftInv(b)
      /\ ItemsInv(b) /\ CoverInv(b) /\ WholeInv(b) /\ QuietInv(b)
  BY DEF BuildInv
<1>f. /\ c.pc = "read" /\ c.repo = b.repo /\ c.rebuild = b.rebuild
      /\ c.start = b.start /\ c.before = b.before /\ c.snap = b.snap
      /\ c.todo = b.todo /\ c.whole = b.whole /\ c.hit = b.hit
      /\ c.cacheable = FALSE /\ c.memo = b.memo /\ c.at = None
      /\ c.frames = b.frames /\ c.items = b.items
  BY DEF Build
<1>t. c \in Build
  BY SkipType
<1>1. Shaped(c)
  BY <1>b, <1>f DEF Shaped, ReadPC, ParsePC, SettledPC
<1>2. SnapInv(c)
  BY <1>b, <1>f DEF SnapInv, ReadPC, ParsePC, SettledPC
<1>3. BeforeInv(c)
  BY <1>b, <1>f DEF BeforeInv, ReadPC, ParsePC, SettledPC
<1>4. DraftInv(c)
  BY <1>b, <1>f DEF DraftInv, ReadPC, ParsePC, SettledPC
<1>5. ItemsInv(c)
  BY <1>b, <1>f DEF ItemsInv, ReadPC, ParsePC, SettledPC
<1>6. CoverInv(c)
  BY <1>f DEF CoverInv
<1>7. WholeInv(c)
  BY <1>b, <1>f DEF WholeInv, ReadPC, ParsePC, SettledPC,
     RowsMoved, FileMoved
<1>8. QuietInv(c)
  BY <1>b, <1>f DEF QuietInv, ReadPC, ParsePC, SettledPC
<1> QED
  BY <1>t, <1>1, <1>2, <1>3, <1>4, <1>5, <1>6, <1>7, <1>8 DEF BuildInv

\* A row that was read is kept.
LEMMA KeepRowInv ==
  ASSUME TypeOK, NEW b \in Build, BuildInv(b),
         b.pc = "keep", b.frames.receipt = layout, NEW complete \in BOOLEAN,
         NEW c, c = [b EXCEPT !.pc = "read", !.at = None, !.frames = None,
                            !.items = [b.items EXCEPT ![b.at] = b.frames],
                            !.cacheable = b.cacheable /\ complete]
  PROVE  c \in Build /\ BuildInv(c)
<1>b. /\ Shaped(b) /\ SnapInv(b) /\ BeforeInv(b) /\ DraftInv(b)
      /\ ItemsInv(b) /\ CoverInv(b) /\ WholeInv(b) /\ QuietInv(b)
  BY DEF BuildInv
<1>f. /\ c.pc = "read" /\ c.repo = b.repo /\ c.rebuild = b.rebuild
      /\ c.start = b.start /\ c.before = b.before /\ c.snap = b.snap
      /\ c.todo = b.todo /\ c.whole = b.whole /\ c.hit = b.hit
      /\ c.cacheable = (b.cacheable /\ complete) /\ c.memo = b.memo
      /\ c.at = None /\ c.frames = None
      /\ c.items = [b.items EXCEPT ![b.at] = b.frames]
  BY DEF Build
<1>z. b.at \in Source /\ b.frames \in Frames /\ b.frames # None
  BY <1>b DEF Shaped, Build, ParsePC, Draft, Frames
<1>x. /\ c.items \in [Source -> Frames \union {None}]
      /\ c.items[b.at] = b.frames
      /\ \A t \in Source : t # b.at => c.items[t] = b.items[t]
  BY <1>f, <1>z DEF Build
<1>y. /\ b.at \in Ready(b.before) /\ b.frames.ver = b.before.state[b.at].ver
      /\ Older(b.before.policy, b.frames.policy)
      /\ Older(b.frames.policy, policy)
  BY <1>b, <1>z DEF BeforeInv, DraftInv, Shaped, ReadPC, ParsePC
<1>t. c \in Build
  <2>1. [b.items EXCEPT ![b.at] = b.frames] \in [Source -> Frames \union {None}]
    BY <1>z DEF Build
  <2>2. (b.cacheable /\ complete) \in BOOLEAN
    OBVIOUS
  <2> QED
    BY <2>1, <2>2, KeepType
<1>1. Shaped(c)
  BY <1>b, <1>f DEF Shaped, ReadPC, ParsePC, SettledPC
<1>2. SnapInv(c)
  BY <1>b, <1>f DEF SnapInv, ReadPC, ParsePC, SettledPC
<1>3. BeforeInv(c)
  BY <1>b, <1>f DEF BeforeInv, ReadPC, ParsePC, SettledPC
<1>4. DraftInv(c)
  BY <1>b, <1>f DEF DraftInv, ReadPC, ParsePC, SettledPC
<1>5. ItemsInv(c)
  <2>1. Since(c.items, b.before)
    BY <1>b, <1>f, <1>x, <1>y DEF ItemsInv, Since, Shaped, ReadPC, ParsePC
  <2>2. NotAfter(c.items, policy)
    BY <1>b, <1>f, <1>x, <1>y DEF ItemsInv, NotAfter, Shaped, ReadPC, ParsePC
  <2> QED
    BY <1>b, <1>f, <2>1, <2>2 DEF ItemsInv, SettledPC
<1>6. CoverInv(c)
  <2>1. ASSUME c.before # None /\ c.cacheable /\ ~c.hit
        PROVE  /\ Unavailable(b.before) = {}
               /\ \A t \in Ready(b.before) :
                      b.items[t] # None \/ t \in b.todo \/ t = b.at
    <3>1. b.cacheable
      BY <1>f, <2>1
    <3> QED
      BY <1>b, <1>f, <2>1, <3>1 DEF CoverInv
  <2>2. Ready(b.before) \subseteq Source
    BY <1>b DEF Shaped, Build, Snapshot, Ready, ParsePC, ReadPC
  <2> QED
    BY <1>f, <1>x, <1>z, <2>1, <2>2 DEF CoverInv, ReadPC
<1>7. WholeInv(c)
  BY <1>b, <1>f DEF WholeInv, ReadPC, ParsePC, SettledPC,
     RowsMoved, FileMoved
<1>8. QuietInv(c)
  BY <1>b, <1>f, <1>x DEF QuietInv, ReceiptsAreCurrent
<1> QED
  BY <1>t, <1>1, <1>2, <1>3, <1>4, <1>5, <1>6, <1>7, <1>8 DEF BuildInv

-----------------------------------------------------------------------------
\* What a step of a build does to its record.
StepTo(p, c) ==
    /\ c \in Build /\ BuildInv(c)
    /\ build' = [build EXCEPT ![p] = c]
    /\ c.pc \notin {"idle", "claim"} => c.repo = owner'

\* A step that keeps the repository and the owner.
LEMMA StepKeepsOwner ==
  ASSUME OverlayInv, NEW p \in Proc, ~At(p, "idle"), ~At(p, "claim"),
         NEW c \in Build, BuildInv(c), c.repo = build[p].repo,
         Becomes(p, c), UNCHANGED owner
  PROVE  StepTo(p, c)
<1>1. build[p].repo = owner
  BY DEF OverlayInv, OwnerIsSole, At
<1> QED
  BY <1>1 DEF StepTo, Becomes

\* The frames a slot holds for a row of the first snapshot will do.
LEMMA SlotServes ==
  ASSUME OverlayInv, NEW p \in Proc, NEW s \in Source,
         At(p, "read"), SlotUsable(build[p], s)
  PROVE  /\ slot[s].frames \in Frames
         /\ slot[s].frames.ver = build[p].before.state[s].ver
         /\ Older(build[p].before.policy, slot[s].frames.policy)
         /\ Older(slot[s].frames.policy, policy)
         /\ build[p].start = edits => slot[s].frames.receipt = layout
<1>1. /\ slot[s] # None /\ slot[s].policy = build[p].before.policy
      /\ slot[s].state = build[p].before.state[s]
      /\ slot[s].frames.receipt = Probed(build[p])
  BY DEF SlotUsable, SlotMatches
<1>2. slot[s] \in Slot
  BY <1>1 DEF OverlayInv, TypeOK
<1>3. QuietInv(build[p]) /\ SlotInv(s)
  BY DEF OverlayInv, BuildInv
<1>4. build[p].start = edits => Probed(build[p]) = layout
  BY <1>3 DEF QuietInv, Probed, At
<1> QED
  BY <1>1, <1>2, <1>3, <1>4 DEF SlotInv, Slot

\* The first probe of a build is remembered.
LEMMA MemoServes ==
  ASSUME OverlayInv, NEW p \in Proc, NEW s \in Source, At(p, "read")
  PROVE  /\ MemoAfter(build[p], s) \in Layout \union {None}
         /\ build[p].start = edits /\ MemoAfter(build[p], s) # None =>
                MemoAfter(build[p], s) = layout
<1>1. build[p].memo \in Layout \union {None} /\ layout \in Layout
  BY DEF OverlayInv, TypeOK, Build
<1>2. QuietInv(build[p])
  BY DEF OverlayInv, BuildInv
<1> QED
  BY <1>1, <1>2 DEF QuietInv, MemoAfter, Probed, At

\* Every step of a build keeps what is said of it.
LEMMA ProducerStep ==
  ASSUME OverlayInv, NEW p \in Proc, Producer(p)
  PROVE  UNCHANGED world /\ \E c : StepTo(p, c)
<1> DEFINE b == build[p]
<1>w. UNCHANGED world
  BY DEF Producer, CheckOwner, ClaimOwner, TakeLock, SnapPolicy, SnapRows,
     SnapState, FirstSnapshot, SecondSnapshot, FeedHit, FeedMiss, ReuseRow,
     OpenRow, Parse, ParseFails, LoadIgnore, TakeReceipt, Restat, SkipRow,
     KeepRow, LayoutMoved, EndRead, CheckReceipts, PublishFeed, PruneSlot,
     EndPrune, EndBuild, Kill
<1>t. TypeOK /\ b \in Build /\ BuildInv(b)
  BY DEF OverlayInv, TypeOK
<1>i. ASSUME Becomes(p, Idle) PROVE StepTo(p, Idle)
  BY <1>i, IdleInv DEF StepTo, Becomes, Idle
<1>1. ASSUME NEW r \in Repo, CheckOwner(p, r)
      PROVE  \E c : StepTo(p, c)
  <2>1. PICK pc \in {"claim", "lock"} :
            /\ Becomes(p, [Idle EXCEPT !.repo = r, !.pc = pc])
            /\ pc = "lock" => owner' = r
    BY <1>1 DEF CheckOwner
  <2> DEFINE c == [Idle EXCEPT !.repo = r, !.pc = pc]
  <2>2. c \in Build /\ BuildInv(c) /\ c.pc = pc /\ c.repo = r
    BY IdleInv DEF Idle
  <2> HIDE DEF c
  <2> QED
    BY <2>1, <2>2 DEF StepTo, Becomes, c
<1>2. ASSUME ClaimOwner(p)
      PROVE  \E c : StepTo(p, c)
  <2> DEFINE c == [b EXCEPT !.pc = "lock"]
  <2>1. b.pc = "claim"
    BY <1>2 DEF ClaimOwner, At
  <2>2. CASE Becomes(p, Idle)
    BY <1>i, <2>2
  <2>3. CASE Becomes(p, c) /\ owner' = b.repo
    <3>1. c \in Build /\ BuildInv(c)
      BY <1>t, <2>1, LockInv
    <3>2. c.repo = b.repo
      BY <1>t DEF Build
    <3> HIDE DEF c
    <3> QED
      BY <2>3, <3>1, <3>2 DEF StepTo, Becomes
  <2> QED
    BY <1>2, <2>2, <2>3 DEF ClaimOwner, Goes
<1>3. ASSUME NEW rebuild \in BOOLEAN, TakeLock(p, rebuild)
      PROVE  \E c : StepTo(p, c)
  <2> DEFINE c == [b EXCEPT !.pc = "policy", !.start = edits,
                              !.rebuild = rebuild]
  <2>1. /\ b.pc \notin {"idle", "claim"} /\ Becomes(p, c) /\ UNCHANGED owner
    BY <1>3, <1>t DEF TakeLock, At, Goes
  <2>2. c \in Build /\ BuildInv(c)
    BY <1>3, <1>t, LockedInv DEF TakeLock, At
  <2>3. c.repo = b.repo
    BY <1>t DEF Build
  <2> HIDE DEF c
  <2> QED
    BY <2>1, <2>2, <2>3, StepKeepsOwner DEF At
<1>4. ASSUME SnapPolicy(p)
      PROVE  \E c : StepTo(p, c)
  <2> DEFINE c == [b EXCEPT !.pc = "rows", !.snap =
                     [policy |-> policy, rows |-> {}, state |-> NoRows]]
  <2>1. /\ b.pc \notin {"idle", "claim"} /\ Becomes(p, c) /\ UNCHANGED owner
    BY <1>4, <1>t DEF SnapPolicy, At, Goes
  <2>2. c \in Build /\ BuildInv(c)
    BY <1>4, <1>t, SnapPolicyInv DEF SnapPolicy, At
  <2>3. c.repo = b.repo
    BY <1>t DEF Build
  <2> HIDE DEF c
  <2> QED
    BY <2>1, <2>2, <2>3, StepKeepsOwner DEF At
<1>5. ASSUME SnapRows(p)
      PROVE  \E c : StepTo(p, c)
  <2> DEFINE c == [b EXCEPT !.pc = "stat", !.todo = Rows(b.repo), !.snap =
                     [policy |-> b.snap.policy, rows |-> Rows(b.repo),
                      state |-> NoRows]]
  <2>1. /\ b.pc \notin {"idle", "claim"} /\ Becomes(p, c) /\ UNCHANGED owner
    BY <1>5, <1>t DEF SnapRows, At, Goes
  <2>2. c \in Build /\ BuildInv(c)
    BY <1>5, <1>t, SnapRowsInv DEF SnapRows, At
  <2>3. c.repo = b.repo
    BY <1>t DEF Build
  <2> HIDE DEF c
  <2> QED
    BY <2>1, <2>2, <2>3, StepKeepsOwner DEF At
<1>6. ASSUME NEW s \in Source, SnapState(p, s)
      PROVE  \E c : StepTo(p, c)
  <2> DEFINE c == [b EXCEPT !.todo = b.todo \ {s}, !.snap = [b.snap EXCEPT
                     !.state = [b.snap.state EXCEPT ![s] = Seen(s)]]]
  <2>1. /\ b.pc \notin {"idle", "claim"} /\ Becomes(p, c) /\ UNCHANGED owner
    BY <1>6, <1>t DEF SnapState, At, Goes
  <2>2. c \in Build /\ BuildInv(c)
    BY <1>6, <1>t, SnapStateInv DEF SnapState, At
  <2>3. c.repo = b.repo
    BY <1>t DEF Build
  <2> HIDE DEF c
  <2> QED
    BY <2>1, <2>2, <2>3, StepKeepsOwner DEF At
<1>7. ASSUME FirstSnapshot(p)
      PROVE  \E c : StepTo(p, c)
  <2> DEFINE c == [b EXCEPT !.pc = "feed", !.before = b.snap,
                              !.whole = (b.snap = WorldOf(b.repo))]
  <2>1. /\ b.pc \notin {"idle", "claim"} /\ Becomes(p, c) /\ UNCHANGED owner
    BY <1>7, <1>t DEF FirstSnapshot, At, Goes
  <2>2. c \in Build /\ BuildInv(c)
    BY <1>7, <1>t, FirstSnapshotInv DEF FirstSnapshot, At
  <2>3. c.repo = b.repo
    BY <1>t DEF Build
  <2> HIDE DEF c
  <2> QED
    BY <2>1, <2>2, <2>3, StepKeepsOwner DEF At
<1>8. ASSUME SecondSnapshot(p)
      PROVE  \E c : StepTo(p, c)
  <2>1. /\ b.pc = "stat" /\ b.todo = {} /\ b.before # None /\ UNCHANGED owner
        /\ \/ Goes(p, "failed")
           \/ Goes(p, "receipts") /\ b.before = b.snap
    BY <1>8 DEF SecondSnapshot, At, Unchanged
  <2>2. PICK pc \in {"failed", "receipts"} :
            Becomes(p, [b EXCEPT !.pc = pc]) /\ (pc = "receipts" => b.before = b.snap)
    BY <2>1 DEF Goes
  <2> DEFINE c == [b EXCEPT !.pc = pc]
  <2>3. c \in Build /\ BuildInv(c) /\ c.repo = b.repo
    <3>1. c.repo = b.repo
      BY <1>t DEF Build
    <3>2. CASE pc = "failed"
      BY <1>t, <2>1, <3>1, <3>2, FailedInv
    <3>3. CASE pc = "receipts"
      BY <1>t, <2>1, <2>2, <3>1, <3>3, UnchangedInv
    <3> QED
      BY <3>2, <3>3
  <2> HIDE DEF c
  <2> QED
    BY <2>1, <2>2, <2>3, StepKeepsOwner DEF At, c
<1>9. ASSUME FeedHit(p)
      PROVE  \E c : StepTo(p, c)
  <2> DEFINE c == [b EXCEPT !.pc = "policy", !.hit = TRUE,
                              !.items = feed.items]
  <2>1. /\ b.pc = "feed" /\ Becomes(p, c) /\ UNCHANGED owner
        /\ feed # None /\ feed.key = b.before /\ ReceiptsAreCurrent(feed.items)
    BY <1>9 DEF FeedHit, FeedUsable, At
  <2>2. /\ feed.items \in [Source -> Frames \union {None}]
        /\ Since(feed.items, b.before) /\ NotAfter(feed.items, b.before.policy)
    BY <2>1 DEF OverlayInv, TypeOK, Feed, FeedInv
  <2>3. c \in Build /\ BuildInv(c)
    BY <1>t, <2>1, <2>2, FeedHitInv
  <2>4. c.repo = b.repo
    BY <1>t DEF Build
  <2> HIDE DEF c
  <2> QED
    BY <2>1, <2>3, <2>4, StepKeepsOwner DEF At
<1>10. ASSUME FeedMiss(p)
      PROVE  \E c : StepTo(p, c)
  <2> DEFINE c == [b EXCEPT !.pc = "read", !.todo = Ready(b.before),
                              !.cacheable = (Unavailable(b.before) = {})]
  <2>1. /\ b.pc \notin {"idle", "claim"} /\ Becomes(p, c) /\ UNCHANGED owner
    BY <1>10, <1>t DEF FeedMiss, At, Goes
  <2>2. c \in Build /\ BuildInv(c)
    BY <1>10, <1>t, FeedMissInv DEF FeedMiss, At
  <2>3. c.repo = b.repo
    BY <1>t DEF Build
  <2> HIDE DEF c
  <2> QED
    BY <2>1, <2>2, <2>3, StepKeepsOwner DEF At
<1>11. ASSUME NEW s \in Source, ReuseRow(p, s)
      PROVE  \E c : StepTo(p, c)
  <2> DEFINE c == [b EXCEPT !.items = [b.items EXCEPT ![s] = slot[s].frames],
                              !.todo = b.todo \ {s}, !.memo = MemoAfter(b, s)]
  <2>1. /\ b.pc = "read" /\ Becomes(p, c) /\ UNCHANGED owner
        /\ s \in b.todo /\ SlotUsable(b, s)
    BY <1>11 DEF ReuseRow, At
  <2>2. c \in Build /\ BuildInv(c)
    BY <1>t, <2>1, SlotServes, MemoServes, ReuseRowInv DEF At
  <2>3. c.repo = b.repo
    BY <1>t DEF Build
  <2> HIDE DEF c
  <2> QED
    BY <2>1, <2>2, <2>3, StepKeepsOwner DEF At
<1>12. ASSUME NEW s \in Source, OpenRow(p, s)
      PROVE  \E c : StepTo(p, c)
  <2> DEFINE c == [b EXCEPT !.pc = "parse", !.at = s,
                              !.todo = b.todo \ {s}, !.memo = MemoAfter(b, s)]
  <2>1. b.pc = "read" /\ Becomes(p, c) /\ UNCHANGED owner /\ s \in b.todo
    BY <1>12 DEF OpenRow, At
  <2>2. c \in Build /\ BuildInv(c)
    BY <1>t, <2>1, MemoServes, OpenRowInv DEF At
  <2>3. c.repo = b.repo
    BY <1>t DEF Build
  <2> HIDE DEF c
  <2> QED
    BY <2>1, <2>2, <2>3, StepKeepsOwner DEF At
<1>13. ASSUME Parse(p)
      PROVE  \E c : StepTo(p, c)
  <2> DEFINE c == [b EXCEPT !.pc = "ignore",
                  !.frames = [ver |-> file[b.at].ver, layout |-> layout,
                              policy |-> None, receipt |-> None]]
  <2>1. /\ b.pc \notin {"idle", "claim"} /\ Becomes(p, c) /\ UNCHANGED owner
    BY <1>13, <1>t DEF Parse, At, Goes
  <2>2. c \in Build /\ BuildInv(c)
    BY <1>13, <1>t, ParseInv DEF Parse, At
  <2>3. c.repo = b.repo
    BY <1>t DEF Build
  <2> HIDE DEF c
  <2> QED
    BY <2>1, <2>2, <2>3, StepKeepsOwner DEF At
<1>14. ASSUME ParseFails(p)
      PROVE  \E c : StepTo(p, c)
  <2> DEFINE c == [b EXCEPT !.pc = "restat", !.frames = None]
  <2>1. /\ b.pc \notin {"idle", "claim"} /\ Becomes(p, c) /\ UNCHANGED owner
    BY <1>14, <1>t DEF ParseFails, At, Goes
  <2>2. c \in Build /\ BuildInv(c)
    BY <1>14, <1>t, ParseFailsInv DEF ParseFails, At
  <2>3. c.repo = b.repo
    BY <1>t DEF Build
  <2> HIDE DEF c
  <2> QED
    BY <2>1, <2>2, <2>3, StepKeepsOwner DEF At
<1>15. ASSUME LoadIgnore(p)
      PROVE  \E c : StepTo(p, c)
  <2> DEFINE c == [b EXCEPT !.pc = "receipt",
                              !.frames = [b.frames EXCEPT !.policy = policy]]
  <2>1. /\ b.pc \notin {"idle", "claim"} /\ Becomes(p, c) /\ UNCHANGED owner
    BY <1>15, <1>t DEF LoadIgnore, At, Goes
  <2>2. c \in Build /\ BuildInv(c)
    BY <1>15, <1>t, LoadIgnoreInv DEF LoadIgnore, At
  <2>3. c.repo = b.repo
    BY <1>t DEF Build
  <2> HIDE DEF c
  <2> QED
    BY <2>1, <2>2, <2>3, StepKeepsOwner DEF At
<1>16. ASSUME TakeReceipt(p)
      PROVE  \E c : StepTo(p, c)
  <2> DEFINE c == [b EXCEPT !.pc = "restat",
                              !.frames = [b.frames EXCEPT !.receipt = layout]]
  <2>1. /\ b.pc \notin {"idle", "claim"} /\ Becomes(p, c) /\ UNCHANGED owner
    BY <1>16, <1>t DEF TakeReceipt, At, Goes
  <2>2. c \in Build /\ BuildInv(c)
    BY <1>16, <1>t, TakeReceiptInv DEF TakeReceipt, At
  <2>3. c.repo = b.repo
    BY <1>t DEF Build
  <2> HIDE DEF c
  <2> QED
    BY <2>1, <2>2, <2>3, StepKeepsOwner DEF At
<1>17. ASSUME Restat(p)
      PROVE  \E c : StepTo(p, c)
  <2>1. PICK pc \in {"failed", "skip", "keep"} :
            /\ b.pc = "restat" /\ UNCHANGED owner
            /\ Becomes(p, [b EXCEPT !.pc = pc])
            /\ \/ pc = "failed"
               \/ /\ Seen(b.at) = b.before.state[b.at]
                  /\ pc = IF b.frames = None THEN "skip" ELSE "keep"
    BY <1>17 DEF Restat, At, Goes, StillSame
  <2> DEFINE c == [b EXCEPT !.pc = pc]
  <2>2. c \in Build /\ BuildInv(c)
    <3>1. CASE pc = "failed"
      BY <1>t, <2>1, <3>1, FailedInv
    <3>2. CASE pc # "failed"
      BY <1>t, <2>1, <3>2, SameInv
    <3> QED
      BY <3>1, <3>2
  <2>3. c.repo = b.repo
    BY <1>t DEF Build
  <2> HIDE DEF c
  <2> QED
    BY <2>1, <2>2, <2>3, StepKeepsOwner DEF At, c
<1>18. ASSUME SkipRow(p)
      PROVE  \E c : StepTo(p, c)
  <2> DEFINE c == [b EXCEPT !.pc = "read", !.at = None, !.cacheable = FALSE]
  <2>1. /\ b.pc \notin {"idle", "claim"} /\ Becomes(p, c) /\ UNCHANGED owner
    BY <1>18, <1>t DEF SkipRow, At, Goes
  <2>2. c \in Build /\ BuildInv(c)
    BY <1>18, <1>t, SkipRowInv DEF SkipRow, At
  <2>3. c.repo = b.repo
    BY <1>t DEF Build
  <2> HIDE DEF c
  <2> QED
    BY <2>1, <2>2, <2>3, StepKeepsOwner DEF At
<1>19. ASSUME NEW complete \in BOOLEAN, KeepRow(p, complete)
      PROVE  \E c : StepTo(p, c)
  <2> DEFINE c == [b EXCEPT !.pc = "read", !.at = None, !.frames = None,
                              !.items = [b.items EXCEPT ![b.at] = b.frames],
                              !.cacheable = b.cacheable /\ complete]
  <2>1. /\ b.pc \notin {"idle", "claim"} /\ Becomes(p, c) /\ UNCHANGED owner
    BY <1>19, <1>t DEF KeepRow, At, Goes
  <2>2. c \in Build /\ BuildInv(c)
    BY <1>19, <1>t, KeepRowInv DEF KeepRow, At
  <2>3. c.repo = b.repo
    BY <1>t DEF Build
  <2> HIDE DEF c
  <2> QED
    BY <2>1, <2>2, <2>3, StepKeepsOwner DEF At
<1>20. ASSUME LayoutMoved(p)
      PROVE  \E c : StepTo(p, c)
  <2> DEFINE c == [b EXCEPT !.pc = "failed"]
  <2>1. /\ b.pc \notin {"idle", "claim"} /\ Becomes(p, c) /\ UNCHANGED owner
    BY <1>20, <1>t DEF LayoutMoved, At, Goes
  <2>2. c \in Build /\ BuildInv(c)
    BY <1>20, <1>t, FailedInv DEF LayoutMoved, At
  <2>3. c.repo = b.repo
    BY <1>t DEF Build
  <2> HIDE DEF c
  <2> QED
    BY <2>1, <2>2, <2>3, StepKeepsOwner DEF At
<1>21. ASSUME EndRead(p)
      PROVE  \E c : StepTo(p, c)
  <2> DEFINE c == [b EXCEPT !.pc = "policy"]
  <2>1. /\ b.pc \notin {"idle", "claim"} /\ Becomes(p, c) /\ UNCHANGED owner
    BY <1>21, <1>t DEF EndRead, At, Goes
  <2>2. c \in Build /\ BuildInv(c)
    BY <1>21, <1>t, EndReadInv DEF EndRead, At
  <2>3. c.repo = b.repo
    BY <1>t DEF Build
  <2> HIDE DEF c
  <2> QED
    BY <2>1, <2>2, <2>3, StepKeepsOwner DEF At
<1>22. ASSUME CheckReceipts(p)
      PROVE  \E c : StepTo(p, c)
  <2>1. PICK pc \in {"failed", "prune", "publish", "done"} :
            /\ b.pc = "receipts" /\ UNCHANGED owner
            /\ Becomes(p, [b EXCEPT !.pc = pc])
            /\ pc = "publish" => b.cacheable /\ ~b.hit
    BY <1>22 DEF CheckReceipts, At, Goes
  <2> DEFINE c == [b EXCEPT !.pc = pc]
  <2>2. c \in Build /\ BuildInv(c)
    <3>1. CASE pc = "failed"
      BY <1>t, <2>1, <3>1, FailedInv
    <3>2. CASE pc # "failed"
      <4>1. b.pc \in SettledPC /\ pc \in SettledPC
        BY <2>1, <3>2 DEF SettledPC
      <4> QED
        BY <1>t, <2>1, <4>1, SettledInv
    <3> QED
      BY <3>1, <3>2
  <2>3. c.repo = b.repo
    BY <1>t DEF Build
  <2> HIDE DEF c
  <2> QED
    BY <2>1, <2>2, <2>3, StepKeepsOwner DEF At, c
<1>23. ASSUME PublishFeed(p)
      PROVE  \E c : StepTo(p, c)
  <2> DEFINE c == [b EXCEPT !.pc = "prune"]
  <2>1. /\ b.pc \notin {"idle", "claim"} /\ Becomes(p, c) /\ UNCHANGED owner
    BY <1>23, <1>t DEF PublishFeed, At, Goes
  <2>s. "prune" \in SettledPC /\ b.pc \in SettledPC
    BY <1>23 DEF SettledPC, PublishFeed, At
  <2>2. c \in Build /\ BuildInv(c)
    BY <1>23, <1>t, SettledInv, <2>s DEF PublishFeed, At
  <2>3. c.repo = b.repo
    BY <1>t DEF Build
  <2> HIDE DEF c
  <2> QED
    BY <2>1, <2>2, <2>3, StepKeepsOwner DEF At
<1>24. ASSUME NEW s \in Source, PruneSlot(p, s)
      PROVE  \E c : StepTo(p, c)
  <2>1. Becomes(p, b) /\ b.pc = "prune" /\ UNCHANGED owner
    BY <1>24 DEF PruneSlot, Becomes, At, OverlayInv, TypeOK
  <2> QED
    BY <1>t, <2>1, StepKeepsOwner DEF At
<1>25. ASSUME EndPrune(p)
      PROVE  \E c : StepTo(p, c)
  <2> DEFINE c == [b EXCEPT !.pc = "done"]
  <2>1. /\ b.pc \notin {"idle", "claim"} /\ Becomes(p, c) /\ UNCHANGED owner
    BY <1>25, <1>t DEF EndPrune, At, Goes
  <2>s. "done" \in SettledPC /\ b.pc \in SettledPC
    BY <1>25 DEF SettledPC, EndPrune, At
  <2>2. c \in Build /\ BuildInv(c)
    BY <1>25, <1>t, SettledInv, <2>s DEF EndPrune, At
  <2>3. c.repo = b.repo
    BY <1>t DEF Build
  <2> HIDE DEF c
  <2> QED
    BY <2>1, <2>2, <2>3, StepKeepsOwner DEF At
<1>26. ASSUME EndBuild(p) \/ Kill(p)
      PROVE  \E c : StepTo(p, c)
  BY <1>26, <1>i DEF EndBuild, Kill
<1> QED
  BY <1>w, <1>1, <1>2, <1>3, <1>4, <1>5, <1>6, <1>7, <1>8, <1>9,
     <1>10, <1>11, <1>12, <1>13, <1>14, <1>15, <1>16, <1>17, <1>18,
     <1>19, <1>20, <1>21, <1>22, <1>23, <1>24, <1>25, <1>26 DEF Producer

\* Slots and feed are written by two steps, the marker by one.
LEMMA WhoWrites ==
  ASSUME NEW p \in Proc, Producer(p)
  PROVE  /\ \/ UNCHANGED slot
            \/ KeepRow(p, TRUE)
            \/ \E s \in Source : PruneSlot(p, s)
         /\ UNCHANGED feed \/ PublishFeed(p)
         /\ UNCHANGED owner \/ ClaimOwner(p)
  BY DEF Producer, CheckOwner, ClaimOwner, TakeLock, SnapPolicy, SnapRows,
     SnapState, FirstSnapshot, SecondSnapshot, FeedHit, FeedMiss, ReuseRow,
     OpenRow, Parse, ParseFails, LoadIgnore, TakeReceipt, Restat, SkipRow,
     KeepRow, LayoutMoved, EndRead, CheckReceipts, PublishFeed, PruneSlot,
     EndPrune, EndBuild, Kill

\* A slot that is written serves its source.
LEMMA WrittenSlot ==
  ASSUME OverlayInv, NEW p \in Proc, At(p, "keep"), NEW x, x = SlotOf(build[p])
  PROVE  /\ build[p].at \in Source /\ x \in Slot /\ x # None
         /\ x.repo = owner
         /\ x.frames.ver = x.state.ver
         /\ Older(x.policy, x.frames.policy)
         /\ Older(x.frames.policy, policy)
<1> DEFINE b == build[p]
<1>t. b \in Build /\ b.pc = "keep" /\ b.repo = owner
  BY DEF OverlayInv, TypeOK, OwnerIsSole, At
<1>b. Shaped(b) /\ BeforeInv(b) /\ DraftInv(b)
  BY DEF OverlayInv, BuildInv
<1>1. /\ b.at \in Source /\ b.frames \in Frames /\ b.frames # None
      /\ b.before \in Snapshot /\ b.before # None /\ b.repo \in Repo
  BY <1>t, <1>b DEF Shaped, Build, ParsePC, ReadPC, Draft, Frames
<1>2. b.before.state[b.at] \in State
  BY <1>t, <1>b, <1>1 DEF BeforeInv, Ready, ParsePC, Snapshot
<1>3. /\ x.repo = b.repo /\ x.policy = b.before.policy
      /\ x.state = b.before.state[b.at] /\ x.frames = b.frames
  BY DEF SlotOf
<1>4. x \in Slot
  BY <1>1, <1>2 DEF SlotOf, Slot, Snapshot
<1> QED
  BY <1>t, <1>b, <1>1, <1>3, <1>4, NoneIsNothing DEF DraftInv

\* Slots stay faithful, and the owner's.
LEMMA SlotStep ==
  ASSUME OverlayInv, NEW p \in Proc, Producer(p)
  PROVE  /\ slot' \in [Source -> Slot \union {None}]
         /\ \A s \in Source : SlotInv(s)'
         /\ \A s \in Source : slot'[s] # None =>
                slot'[s].repo = owner /\ (slot[s] # None \/ UNCHANGED owner)
<1>t. /\ slot \in [Source -> Slot \union {None}]
      /\ \A s \in Source : SlotInv(s)
      /\ \A s \in Source : slot[s] # None => slot[s].repo = owner
  BY DEF OverlayInv, TypeOK, OwnerIsSole
<1>w. policy' = policy
  BY ProducerStep DEF world
<1>1. CASE UNCHANGED slot
  BY <1>t, <1>w, <1>1 DEF SlotInv, Older
<1>2. CASE KeepRow(p, TRUE)
  <2> DEFINE x == SlotOf(build[p])
             a == build[p].at
  <2>1. /\ At(p, "keep") /\ UNCHANGED owner
        /\ slot' = [slot EXCEPT ![a] = x]
    BY <1>2 DEF KeepRow
  <2>2. /\ a \in Source /\ x \in Slot /\ x # None /\ x.repo = owner
        /\ x.frames.ver = x.state.ver /\ Older(x.policy, x.frames.policy)
        /\ Older(x.frames.policy, policy)
    BY <2>1, WrittenSlot
  <2> HIDE DEF x, a
  <2> QED
    BY <1>t, <1>w, <2>1, <2>2 DEF SlotInv, Older
<1>3. CASE \E s \in Source : PruneSlot(p, s)
  <2>1. PICK s \in Source : PruneSlot(p, s)
    BY <1>3
  <2>2. slot' = [slot EXCEPT ![s] = None]
    BY <2>1 DEF PruneSlot
  <2> QED
    BY <1>t, <1>w, <2>2 DEF SlotInv, Older
<1> QED
  BY <1>1, <1>2, <1>3, WhoWrites

\* A feed is published by a build whose two snapshots agree.
LEMMA FeedStep ==
  ASSUME OverlayInv, NEW p \in Proc, Producer(p)
  PROVE  /\ feed' \in Feed \union {None} /\ FeedInv'
         /\ feed' # None => feed'.repo = owner /\ (feed # None \/ UNCHANGED owner)
<1>t. /\ feed \in Feed \union {None} /\ FeedInv
      /\ feed # None => feed.repo = owner
  BY DEF OverlayInv, TypeOK, OwnerIsSole
<1>1. CASE UNCHANGED feed
  BY <1>t, <1>1 DEF FeedInv, Since, NotAfter, Older, Ready, Unavailable
<1>2. CASE PublishFeed(p)
  <2> DEFINE b == build[p]
             x == [repo |-> b.repo, key |-> b.before, items |-> b.items]
  <2>1. b.pc = "publish" /\ feed' = x /\ UNCHANGED owner
    BY <1>2 DEF PublishFeed, At
  <2>2. /\ b \in Build /\ b.repo = owner /\ Shaped(b) /\ BeforeInv(b)
        /\ ItemsInv(b) /\ CoverInv(b)
    BY <2>1 DEF OverlayInv, TypeOK, OwnerIsSole, BuildInv
  <2>3. b.before \in Snapshot /\ b.before # None /\ b.repo \in Repo
    BY <2>1, <2>2 DEF Shaped, Build, SettledPC
  <2>4. /\ x \in Feed /\ x.key = b.before /\ x.items = b.items
        /\ x.repo = b.repo
    BY <2>2, <2>3 DEF Feed, Build
  <2>5. Since(b.items, b.before) /\ NotAfter(b.items, b.before.policy)
    BY <2>1, <2>2, <2>3 DEF ItemsInv, SettledPC
  <2>6. /\ Unavailable(b.before) = {}
        /\ \A s \in Ready(b.before) : b.items[s] # None
    <3>1. b.cacheable /\ ~b.hit
      BY <2>1, <2>2 DEF CoverInv
    <3> QED
      BY <2>1, <2>2, <2>3, <3>1 DEF CoverInv, ReadPC, ParsePC
  <2>7. \A s \in b.before.rows : b.before.state[s] # None
    BY <2>2, <2>3 DEF BeforeInv, Snapshot
  <2> HIDE DEF x, b
  <2>8. FeedInv'
    BY <2>1, <2>4, <2>5, <2>6, <2>7
       DEF FeedInv, Since, NotAfter, Older, Ready, Unavailable
  <2> QED
    BY <2>1, <2>2, <2>4, <2>8
<1> QED
  BY <1>1, <1>2, WhoWrites

\* The marker is written once, into caches that are empty.
LEMMA OwnerStep ==
  ASSUME OverlayInv, NEW p \in Proc, Producer(p)
  PROVE  /\ owner' \in Repo \union {None}
         /\ \/ UNCHANGED owner
            \/ owner = None /\ \A s \in Source : slot[s] = None
<1>1. build[p] \in Build /\ Shaped(build[p]) /\ owner \in Repo \union {None}
  BY DEF OverlayInv, TypeOK, BuildInv
<1>2. CASE ClaimOwner(p)
  BY <1>1, <1>2 DEF ClaimOwner, At, Shaped, Build, NoRows
<1> QED
  BY <1>1, <1>2, WhoWrites

\* The caches keep their one owner.
LEMMA OwnerKept ==
  ASSUME OverlayInv, NEW p \in Proc, Producer(p)
  PROVE  OwnerIsSole'
<1>1. PICK c : StepTo(p, c)
  BY ProducerStep
<1>o. /\ \A q \in Proc : build[q].pc \notin {"idle", "claim"} =>
                             build[q].repo = owner
      /\ \A q \in Proc : build[q].pc # "idle" => build[q].repo # None
      /\ build \in [Proc -> Build]
      /\ feed # None => feed.repo = owner /\ feed.repo # None
  BY NoneIsNothing DEF OverlayInv, TypeOK, OwnerIsSole, BuildInv, Shaped, Feed
<1>2. ASSUME NEW q \in Proc, build'[q].pc \notin {"idle", "claim"}
      PROVE  build'[q].repo = owner'
  BY <1>1, <1>2, <1>o, OwnerStep DEF StepTo
<1>3. ASSUME NEW s \in Source, slot'[s] # None
      PROVE  slot'[s].repo = owner'
  BY <1>3, SlotStep, OwnerStep
<1>4. feed' # None => feed'.repo = owner'
  BY <1>o, FeedStep, OwnerStep
<1> QED
  BY <1>2, <1>3, <1>4 DEF OwnerIsSole

\* Nothing is built and nothing is cached.
LEMMA OverlayInvInit == Init => OverlayInv
<1> SUFFICES ASSUME Init PROVE OverlayInv
  OBVIOUS
<1>1. TypeOK
  <2>1. file \in [Source -> State]
    <3>1. [ver |-> 0, kind |-> "ready"] \in State
      BY DEF State
    <3> QED
      BY <3>1 DEF Init
  <2>2. slot \in [Source -> Slot \union {None}]
    BY DEF Init, NoRows
  <2>3. build \in [Proc -> Build]
    BY IdleInv DEF Init
  <2>4. 0 \in 0..MaxEdits
    BY MaxEditsType
  <2> QED
    BY <2>1, <2>2, <2>3, <2>4 DEF Init, TypeOK
<1>2. \A p \in Proc : build[p] = Idle
  BY DEF Init
<1>3. OwnerIsSole
  BY <1>2 DEF Init, OwnerIsSole, NoRows, Idle
<1>4. \A p \in Proc : BuildInv(build[p])
  BY <1>2, IdleInv
<1>5. (\A s \in Source : SlotInv(s)) /\ FeedInv
  BY DEF Init, SlotInv, FeedInv, NoRows
<1> QED
  BY <1>1, <1>3, <1>4, <1>5 DEF OverlayInv

\* The writers this module has no lock against.
LEMMA OverlayInvWorld ==
  ASSUME OverlayInv, World PROVE OverlayInv'
<1>t. TypeOK /\ TypeOK' /\ policy \in Nat /\ policy' \in Nat
      /\ Older(policy, policy')
  BY WorldMoves DEF OverlayInv
<1>u. UNCHANGED <<owner, slot, feed, build>>
  BY DEF World, Touch, Admit, EditRules, MoveCheckout
<1>1. OwnerIsSole'
  BY <1>u DEF OverlayInv, OwnerIsSole
<1>2. ASSUME NEW p \in Proc PROVE BuildInv(build[p])'
  <2>1. build[p] \in Build /\ BuildInv(build[p])
    BY DEF OverlayInv, TypeOK
  <2>2. \A b \in Build : BuildInv(b) => BuildInv(b)'
    BY <1>t, WorldKeeps
  <2> QED
    BY <1>u, <2>1, <2>2
<1>3. ASSUME NEW s \in Source PROVE SlotInv(s)'
  <2>1. SlotInv(s) /\ (slot[s] # None => slot[s].frames.policy \in Nat)
    BY PolicyType DEF OverlayInv, TypeOK, Slot, Frames
  <2>2. slot[s] # None => Older(slot[s].frames.policy, policy')
    BY <1>t, <2>1, OlderTrans DEF SlotInv
  <2> QED
    BY <1>u, <2>1, <2>2 DEF SlotInv, Older
<1>4. FeedInv'
  BY <1>u DEF OverlayInv, FeedInv, Since, NotAfter, Older, Ready, Unavailable
<1> QED
  BY <1>t, <1>1, <1>2, <1>3, <1>4 DEF OverlayInv

\* The steps of a build.
LEMMA OverlayInvProducer ==
  ASSUME OverlayInv, NEW p \in Proc, Producer(p) PROVE OverlayInv'
<1>w. UNCHANGED world
  BY ProducerStep
<1>1. PICK c : StepTo(p, c)
  BY ProducerStep
<1>2. \A b : BuildInv(b) => BuildInv(b)'
  BY <1>w, Frozen
<1>3. ASSUME NEW q \in Proc PROVE BuildInv(build[q])'
  <2>1. build[q] \in Build /\ BuildInv(build[q]) /\ build \in [Proc -> Build]
    BY DEF OverlayInv, TypeOK
  <2>2. BuildInv(c) /\ build' = [build EXCEPT ![p] = c]
    BY <1>1 DEF StepTo
  <2>3. PICK d : d = build'[q] /\ BuildInv(d)
    BY <2>1, <2>2
  <2> QED
    BY <1>2, <2>3
<1>4. build' \in [Proc -> Build]
  BY <1>1 DEF StepTo, OverlayInv, TypeOK
<1>5. TypeOK'
  BY <1>4, <1>w, OwnerStep, SlotStep, FeedStep DEF OverlayInv, TypeOK, world
<1> QED
  BY <1>3, <1>5, OwnerKept, SlotStep, FeedStep DEF OverlayInv

\* Nothing happens.
LEMMA OverlayInvStutter ==
  ASSUME OverlayInv, UNCHANGED vars PROVE OverlayInv'
<1>u. UNCHANGED world /\ UNCHANGED <<owner, slot, feed, build>>
  BY DEF vars, world
<1>1. ASSUME NEW p \in Proc PROVE BuildInv(build[p])'
  <2>1. \A b : BuildInv(b) => BuildInv(b)'
    BY <1>u, Frozen
  <2> QED
    BY <1>u, <2>1 DEF OverlayInv
<1>2. TypeOK' /\ OwnerIsSole'
  BY <1>u DEF OverlayInv, TypeOK, OwnerIsSole, world
<1>3. (\A s \in Source : SlotInv(s)') /\ FeedInv'
  BY <1>u DEF OverlayInv, SlotInv, FeedInv, Since, NotAfter, Older, Ready,
     Unavailable, world
<1> QED
  BY <1>1, <1>2, <1>3 DEF OverlayInv

\* The invariant is inductive.
LEMMA OverlayInvHolds == Spec => []OverlayInv
<1>1. OverlayInv /\ [Next]_vars => OverlayInv'
  BY OverlayInvWorld, OverlayInvProducer, OverlayInvStutter DEF Next
<1> QED
  BY <1>1, OverlayInvInit, PTL DEF Spec

-----------------------------------------------------------------------------
\* Files, markers and the records of builds have the shape the code gives
\* them; in particular no slot is written without its receipt and its rules.
THEOREM OverlayTypeOK == Spec => []TypeOK
<1>1. OverlayInv => TypeOK
  BY DEF OverlayInv
<1> QED
  BY <1>1, OverlayInvHolds, PTL

\* The caches of an index root belong to one repository, whoever races for
\* them (claim_cache_owner).
THEOREM CachesHaveOneOwner == Spec => []OwnerIsSole
<1>1. OverlayInv => OwnerIsSole
  BY DEF OverlayInv
<1> QED
  BY <1>1, OverlayInvHolds, PTL

\* A slot holds the frames of exactly the bytes its fingerprint stands for,
\* however often the transcript grew meanwhile.
THEOREM SlotsAreFaithful == Spec => []SlotsServeTheirSource
<1>1. OverlayInv => SlotsServeTheirSource
  BY DEF OverlayInv, SlotInv, SlotsServeTheirSource
<1> QED
  BY <1>1, OverlayInvHolds, PTL

\* What is filtered by rules no older and no newer than a snapshot's is
\* filtered by the snapshot's, when rules do not come back.
LEMMA SinceIsHonest ==
  ASSUME ~Reverts, NEW items \in [Source -> Frames \union {None}],
         NEW snap \in Snapshot, Since(items, snap),
         NotAfter(items, snap.policy)
  PROVE  Honest(items, snap)
<1>1. snap.policy \in Nat /\ \A s \in Source : items[s] # None =>
                                                  items[s].policy \in Nat
  BY PolicyType DEF Snapshot, Frames
<1> QED
  BY <1>1 DEF Since, NotAfter, Honest, Older

\* The feed a build returns is the one of a single moment, although nothing
\* it was read from held still.  Two equal snapshots prove that only while
\* what they read does not return to an earlier value.
THEOREM BuildsServeOneMoment == ~Reverts => (Spec => []ServedIsOneMoment)
<1> SUFFICES ASSUME ~Reverts PROVE Spec => []ServedIsOneMoment
  OBVIOUS
<1>1. OverlayInv => ServedIsOneMoment
  <2> SUFFICES ASSUME OverlayInv, NEW p \in Proc, At(p, "done")
               PROVE  /\ build[p].whole
                      /\ Honest(build[p].items, build[p].before)
    BY DEF ServedIsOneMoment
  <2> DEFINE b == build[p]
  <2>1. b \in Build /\ b.pc = "done"
    BY DEF OverlayInv, TypeOK, At
  <2>2. Shaped(b) /\ ItemsInv(b) /\ WholeInv(b)
    BY DEF OverlayInv, BuildInv
  <2>3. b.before \in Snapshot /\ b.before # None
    BY <2>1, <2>2 DEF Shaped, SettledPC, Build
  <2>4. Since(b.items, b.before) /\ NotAfter(b.items, b.before.policy)
    BY <2>1, <2>2, <2>3 DEF ItemsInv, SettledPC
  <2>5. b.items \in [Source -> Frames \union {None}]
    BY <2>1 DEF Build
  <2>6. b.whole
    BY <2>1, <2>2, <2>3 DEF WholeInv, SettledPC
  <2> HIDE DEF b
  <2> QED
    BY <2>3, <2>4, <2>5, <2>6, SinceIsHonest DEF b
<1> QED
  BY <1>1, OverlayInvHolds, PTL

\* The published feed is complete and is what its key digests.
THEOREM FeedsMatchTheirKey == ~Reverts => (Spec => []FeedIsWhatItsKeySays)
<1> SUFFICES ASSUME ~Reverts PROVE Spec => []FeedIsWhatItsKeySays
  OBVIOUS
<1>1. OverlayInv => FeedIsWhatItsKeySays
  <2> SUFFICES ASSUME OverlayInv, feed # None
               PROVE  /\ Honest(feed.items, feed.key)
                      /\ \A s \in feed.key.rows :
                             \/ feed.key.state[s].kind = "missing"
                             \/ feed.items[s] # None
    BY DEF FeedIsWhatItsKeySays
  <2>1. /\ feed.key \in Snapshot
        /\ feed.items \in [Source -> Frames \union {None}]
    BY DEF OverlayInv, TypeOK, Feed
  <2>2. FeedInv
    BY DEF OverlayInv
  <2>3. Honest(feed.items, feed.key)
    BY <2>1, <2>2, SinceIsHonest DEF FeedInv
  <2>4. ASSUME NEW s \in feed.key.rows
        PROVE  \/ feed.key.state[s].kind = "missing"
               \/ feed.items[s] # None
    <3>1. feed.key.state[s] \in State
      BY <2>1, <2>2 DEF FeedInv, Snapshot
    <3> QED
      BY <2>2, <3>1 DEF FeedInv, State, Ready, Unavailable
  <2> QED
    BY <2>3, <2>4
<1> QED
  BY <1>1, OverlayInvHolds, PTL

\* Whatever comes back, a served or cached feed has the frames of just the
\* versions its snapshot read, and a cached one has all of them: only the
\* rules a frame was filtered by may be others than the snapshot's.
RightVersions(items, snap) ==
    \A s \in Source : items[s] # None =>
        s \in Ready(snap) /\ items[s].ver = snap.state[s].ver

OnlyRulesMayDiffer ==
    /\ \A p \in Proc : At(p, "done") =>
           RightVersions(build[p].items, build[p].before)
    /\ feed # None => /\ RightVersions(feed.items, feed.key)
                      /\ \A s \in Ready(feed.key) : feed.items[s] # None

\* Rules that are edited back, or transcripts that return, during a build never
\* make it mix versions or publish an incomplete feed.
THEOREM VersionsNeverMix == Spec => []OnlyRulesMayDiffer
<1>1. OverlayInv => OnlyRulesMayDiffer
  <2> SUFFICES ASSUME OverlayInv PROVE OnlyRulesMayDiffer
    OBVIOUS
  <2>1. ASSUME NEW p \in Proc, At(p, "done")
        PROVE  RightVersions(build[p].items, build[p].before)
    <3>1. Shaped(build[p]) /\ ItemsInv(build[p])
      BY DEF OverlayInv, BuildInv
    <3>2. build[p].before # None
      BY <2>1, <3>1 DEF Shaped, SettledPC, At
    <3> QED
      BY <3>1, <3>2 DEF ItemsInv, Since, RightVersions
  <2>2. ASSUME feed # None
        PROVE  /\ RightVersions(feed.items, feed.key)
               /\ \A s \in Ready(feed.key) : feed.items[s] # None
    BY <2>2 DEF OverlayInv, FeedInv, Since, RightVersions
  <2> QED
    BY <2>1, <2>2 DEF OnlyRulesMayDiffer
<1> QED
  BY <1>1, OverlayInvHolds, PTL

\* A build fails at a comparison.
LEMMA WhoFails ==
  ASSUME OverlayInv, NEW p \in Proc, Producer(p),
         build'[p].pc = "failed", build[p].pc # "failed"
  PROVE  SecondSnapshot(p) \/ Restat(p) \/ LayoutMoved(p) \/ CheckReceipts(p)
<1>t. build[p] \in Build /\ build \in [Proc -> Build]
  BY DEF OverlayInv, TypeOK
<1>c. \A x : Becomes(p, x) => x.pc = "failed"
  BY <1>t DEF Becomes
<1>i. Idle.pc = "idle"
  BY DEF Idle
<1>g. \A pc : Goes(p, pc) => pc = "failed"
  BY <1>t DEF Becomes, Goes, Build
<1>1. ASSUME NEW r \in Repo, CheckOwner(p, r) PROVE FALSE
  <2>1. PICK pc \in {"claim", "lock"} :
            Becomes(p, [Idle EXCEPT !.repo = r, !.pc = pc])
    BY <1>1 DEF CheckOwner
  <2>2. [Idle EXCEPT !.repo = r, !.pc = pc].pc = pc
    BY DEF Idle
  <2> QED
    BY <1>c, <2>1, <2>2
<1>2. ASSUME ClaimOwner(p) PROVE FALSE
  BY <1>t, <1>c, <1>i, <1>g, <1>2 DEF ClaimOwner, At
<1>3. ASSUME NEW r \in BOOLEAN, TakeLock(p, r) PROVE FALSE
  BY <1>t, <1>3 DEF TakeLock, At, Becomes, Build
<1>4. ASSUME SnapPolicy(p) PROVE FALSE
  BY <1>t, <1>4 DEF SnapPolicy, At, Becomes, Build
<1>5. ASSUME SnapRows(p) PROVE FALSE
  BY <1>t, <1>5 DEF SnapRows, At, Becomes, Build
<1>6. ASSUME NEW s \in Source, SnapState(p, s) PROVE FALSE
  BY <1>t, <1>6 DEF SnapState, At, Becomes, Build
<1>7. ASSUME FirstSnapshot(p) PROVE FALSE
  BY <1>t, <1>7 DEF FirstSnapshot, At, Becomes, Build
<1>8. ASSUME FeedHit(p) PROVE FALSE
  BY <1>t, <1>8 DEF FeedHit, At, Becomes, Build
<1>9. ASSUME FeedMiss(p) PROVE FALSE
  BY <1>t, <1>9 DEF FeedMiss, At, Becomes, Build
<1>10. ASSUME NEW s \in Source, ReuseRow(p, s) PROVE FALSE
  BY <1>t, <1>10 DEF ReuseRow, At, Becomes, Build
<1>11. ASSUME NEW s \in Source, OpenRow(p, s) PROVE FALSE
  BY <1>t, <1>11 DEF OpenRow, At, Becomes, Build
<1>12. ASSUME Parse(p) PROVE FALSE
  BY <1>t, <1>12 DEF Parse, At, Becomes, Build
<1>13. ASSUME ParseFails(p) PROVE FALSE
  BY <1>t, <1>13 DEF ParseFails, At, Becomes, Build
<1>14. ASSUME LoadIgnore(p) PROVE FALSE
  BY <1>t, <1>14 DEF LoadIgnore, At, Becomes, Build
<1>15. ASSUME TakeReceipt(p) PROVE FALSE
  BY <1>t, <1>15 DEF TakeReceipt, At, Becomes, Build
<1>16. ASSUME SkipRow(p) PROVE FALSE
  BY <1>t, <1>16 DEF SkipRow, At, Becomes, Build
<1>17. ASSUME NEW c \in BOOLEAN, KeepRow(p, c) PROVE FALSE
  BY <1>t, <1>17 DEF KeepRow, At, Becomes, Build
<1>18. ASSUME EndRead(p) PROVE FALSE
  BY <1>t, <1>c, <1>i, <1>g, <1>18 DEF EndRead, At
<1>19. ASSUME PublishFeed(p) PROVE FALSE
  BY <1>t, <1>c, <1>i, <1>g, <1>19 DEF PublishFeed, At
<1>20. ASSUME NEW s \in Source, PruneSlot(p, s) PROVE FALSE
  BY <1>t, <1>c, <1>i, <1>g, <1>20 DEF PruneSlot, At
<1>21. ASSUME EndPrune(p) PROVE FALSE
  BY <1>t, <1>c, <1>i, <1>g, <1>21 DEF EndPrune, At
<1>22. ASSUME EndBuild(p) \/ Kill(p) PROVE FALSE
  BY <1>t, <1>c, <1>i, <1>g, <1>22 DEF EndBuild, Kill, At
<1> QED
  BY <1>1, <1>2, <1>3, <1>4, <1>5, <1>6, <1>7, <1>8, <1>9,
     <1>10, <1>11, <1>12, <1>13, <1>14, <1>15, <1>16, <1>17, <1>18,
     <1>19, <1>20, <1>21, <1>22
     DEF Producer

\* No state of the caches makes a build fail: one that fails was raced by a
\* change of what it read.
THEOREM OnlyRacedBuildsFail == Spec => FailsOnlyWhenRaced
<1>1. ASSUME OverlayInv, Next, NEW q \in Proc,
             build'[q].pc = "failed", build[q].pc # "failed"
      PROVE  edits > build[q].start
  <2> USE <1>1
  <2> DEFINE b == build[q]
  <2>t. /\ TypeOK /\ b \in Build /\ edits \in Nat /\ b.start \in Nat
        /\ build \in [Proc -> Build]
    BY MaxEditsType DEF OverlayInv, TypeOK, Build
  <2>b. /\ Shaped(b) /\ SnapInv(b) /\ BeforeInv(b) /\ QuietInv(b)
    BY DEF OverlayInv, BuildInv
  <2>1. PICK p \in Proc : Producer(p)
    BY DEF Next, World, Touch, Admit, EditRules, MoveCheckout
  <2>2. p = q
    BY <2>t, <2>1, ProducerStep DEF StepTo
  <2>3. SecondSnapshot(q) \/ Restat(q) \/ LayoutMoved(q) \/ CheckReceipts(q)
    BY <2>1, <2>2, WhoFails
  <2>4. b.pc \in {"stat", "restat", "keep", "receipts"}
    BY <2>3 DEF SecondSnapshot, Restat, LayoutMoved, CheckReceipts, At
  <2>g. \A pc : Goes(q, pc) => pc = "failed"
    BY <2>t DEF Becomes, Goes, Build
  <2>5. ASSUME b.start = edits PROVE FALSE
    <3>q. /\ b.before # None => b.before = WorldOf(b.repo)
          /\ b.pc = "stat" => /\ b.snap.policy = policy
                              /\ b.snap.rows = Rows(b.repo)
                              /\ \A s \in Source : b.snap.state[s] # None =>
                                                       b.snap.state[s] = Seen(s)
          /\ b.frames # None /\ b.pc = "keep" => b.frames.receipt = layout
          /\ ReceiptsAreCurrent(b.items)
      BY <2>4, <2>5, <2>b DEF QuietInv
    <3>1. CASE SecondSnapshot(q)
      <4>1. b.pc = "stat" /\ b.todo = {} /\ b.before # None /\ b.before # b.snap
        BY <2>g, <3>1 DEF SecondSnapshot, At, Unchanged
      <4>2. b.snap \in Snapshot
        BY <2>t, <2>b, <4>1 DEF Shaped, Build
      <4>3. b.snap.state = [s \in Source |-> IF s \in Rows(b.repo) THEN Seen(s)
                                                                  ELSE None]
        BY <2>b, <3>q, <4>1, <4>2 DEF Snapshot, SnapInv
      <4>4. b.snap = WorldOf(b.repo)
        BY <3>q, <4>1, <4>2, <4>3 DEF Snapshot, WorldOf
      <4> QED
        BY <3>q, <4>1, <4>4
    <3>2. CASE Restat(q)
      <4>1. b.pc = "restat" /\ Seen(b.at) # b.before.state[b.at]
        BY <2>g, <3>2 DEF Restat, At, StillSame
      <4>2. b.before # None /\ b.at \in Ready(b.before)
        BY <2>b, <4>1 DEF Shaped, BeforeInv, ReadPC, ParsePC
      <4>3. b.before.rows = Rows(b.repo) /\ b.at \in b.before.rows
        BY <3>q, <4>2 DEF WorldOf, Ready
      <4>4. b.at \in Source
        BY <2>t, <4>3 DEF Rows, TypeOK
      <4>5. b.before.state[b.at] = Seen(b.at)
        BY <3>q, <4>2, <4>3, <4>4 DEF WorldOf
      <4> QED
        BY <4>1, <4>5
    <3>3. CASE LayoutMoved(q)
      <4>1. b.pc = "keep" /\ b.frames.receipt # layout
        BY <3>3 DEF LayoutMoved, At
      <4> QED
        BY <2>b, <3>q, <4>1 DEF Shaped
    <3>4. CASE CheckReceipts(q)
      BY <2>g, <3>4, <3>q DEF CheckReceipts
    <3> QED
      BY <2>3, <3>1, <3>2, <3>3, <3>4
  <2>6. b.start <= edits
    BY <2>4, <2>b DEF QuietInv
  <2> QED
    BY <2>t, <2>5, <2>6
<1>2. OverlayInv /\ [Next]_vars =>
          [\A p \in Proc : At(p, "failed")' /\ ~At(p, "failed") =>
               edits > build[p].start]_vars
  BY <1>1 DEF At
<1> QED
  BY <1>2, OverlayInvHolds, PTL DEF Spec, FailsOnlyWhenRaced
=============================================================================
