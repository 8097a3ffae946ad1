--------------------------- MODULE ExtractionProofs ---------------------------
(***************************************************************************)
(* Proofs about Extraction, for any agents, transcripts, commands and      *)
(* processes: its types, that whatever dedup holds back went through the   *)
(* output step of a run, and was output where every run reports, that no   *)
(* save takes a watermark back, and what a saved watermark may skip.       *)
(***************************************************************************)
EXTENDS Extraction, WellFoundedInduction, FiniteSetTheorems, TLAPS

-----------------------------------------------------------------------------
\* Least and greatest elements.

\* The least-number principle.
LEMMA LeastExists ==
    ASSUME NEW T \in SUBSET Nat, T # {}
    PROVE  \E x \in T : \A y \in T : x <= y
<1> DEFINE R == OpToRel(<, Nat)
<1>1. IsWellFoundedOn(R, Nat)
  BY NatLessThanWellFounded, Zenon DEF OpToRel
<1>2. PICK x \in T : \A y \in T : ~ (<<y, x>> \in R)
  <2> HIDE DEF R
  <2> QED BY <1>1, WFMin
<1>3. \A y \in T : ~(y < x)
  BY <1>2 DEF OpToRel
<1> QED BY <1>3

\* Min of a set of naturals is its least element.
LEMMA MinOfNaturals ==
    ASSUME NEW T \in SUBSET Nat, T # {}
    PROVE  Min(T) \in T
BY LeastExists DEF Min

\* Max of a bounded set of naturals is its greatest element.
LEMMA MaxOfBounded ==
    ASSUME NEW N \in Nat, NEW T \in SUBSET (0..N), T # {}
    PROVE  Max(T) \in T /\ \A y \in T : Max(T) >= y
<1>1. PICK x \in {N - t : t \in T} : \A y \in {N - t : t \in T} : x <= y
  <2>1. {N - t : t \in T} \in SUBSET Nat
    OBVIOUS
  <2>2. {N - t : t \in T} # {}
    OBVIOUS
  <2> QED BY <2>1, <2>2, LeastExists
<1>2. PICK t \in T : x = N - t
  BY <1>1
<1>3. \A y \in T : t >= y
  BY <1>1, <1>2
<1> QED BY <1>3 DEF Max

\* Max of two times.
LEMMA MaxOfTwo ==
    ASSUME NEW a \in Time, NEW b \in Time
    PROVE  /\ Max({a, b}) \in Time
           /\ Max({a, b}) >= a /\ Max({a, b}) >= b
           /\ Max({a, b}) \in {a, b}
<1>1. {a, b} \in SUBSET (0..MaxClock) /\ {a, b} # {}
  BY DEF Time
<1>2. MaxClock \in Nat
  BY BoundsType
<1> QED BY <1>1, <1>2, MaxOfBounded DEF Time

-----------------------------------------------------------------------------
\* What the operators return.

\* A load that does not fail yields a state, which the file then holds unless
\* there was none.
LEMMA LoadedType ==
    ASSUME TypeOK, Loadable
    PROVE  /\ Loaded \in StateManager
           /\ Healed \in StateManager \union {None}
           /\ primary # None => Healed = Loaded
           /\ primary = None => Healed = None
<1>1. Default \in StateManager
  BY BoundsType DEF Default, StateManager, Time
<1> QED BY <1>1, NoneIsNew DEF TypeOK, Loadable, Loaded, Healed

\* Migration keeps a watermark that is there, and invents none.
LEMMA MigratedMarkType ==
    ASSUME NEW st \in StateManager, NEW k \in Key
    PROVE  /\ MigratedMark(st, k) \in Time
           /\ MigratedMark(st, k) >= st.mark[k]
           /\ \/ MigratedMark(st, k) = st.mark[k]
              \/ /\ st.mark[k] = 0
                 /\ \E a \in AliasesOf[k] : MigratedMark(st, k) = st.mark[a]
<1> DEFINE T == {0} \union {st.mark[a] : a \in AliasesOf[k]}
<1>1. /\ st.mark \in [Key -> Time] /\ AliasesOf[k] \subseteq Key /\ MaxClock \in Nat
      /\ 0 \in Time
  BY KeyType, BoundsType DEF StateManager, Time
<1>2. T \in SUBSET (0..MaxClock) /\ T # {}
  BY <1>1 DEF Time
<1>3. Max(T) \in T /\ Max(T) >= 0
  <2> HIDE DEF T
  <2>1. Max(T) \in T
    BY <1>1, <1>2, MaxOfBounded
  <2>2. Max(T) \in 0..MaxClock
    BY <1>2, <2>1
  <2>3. \A m \in 0..MaxClock : m >= 0
    BY <1>1
  <2> QED BY <2>1, <2>2, <2>3
<1>4. CASE st.mark[k] # 0
  BY <1>1, <1>4 DEF MigratedMark, Time
<1>5. CASE st.mark[k] = 0
  BY <1>1, <1>3, <1>5 DEF MigratedMark, Time
<1> QED BY <1>4, <1>5

\* It takes the newest one.
LEMMA NewestAlias ==
    ASSUME NEW st \in StateManager, NEW k \in Key, st.mark[k] = 0, NEW b \in AliasesOf[k]
    PROVE  st.mark[b] <= MigratedMark(st, k)
<1> DEFINE T == {0} \union {st.mark[a] : a \in AliasesOf[k]}
<1>1. st.mark \in [Key -> Time] /\ AliasesOf[k] \subseteq Key /\ MaxClock \in Nat
  BY KeyType, BoundsType DEF StateManager
<1>2. T \in SUBSET (0..MaxClock) /\ st.mark[b] \in T
  BY <1>1 DEF Time
<1>3. Max(T) \in T /\ Max(T) >= st.mark[b]
  <2> HIDE DEF T
  <2> QED BY <1>1, <1>2, MaxOfBounded
<1>4. MigratedMark(st, k) = Max(T)
  BY DEF MigratedMark
<1>5. Max(T) \in Nat /\ st.mark[b] \in Nat
  BY <1>2, <1>3
<1> HIDE DEF T
<1> QED BY <1>3, <1>4, <1>5

\* The watermark candidate bounds the raw entries unless a session was skipped.
LEMMA RawExtractLatestType ==
    ASSUME NEW r, r.entries \subseteq Entry
    PROVE  /\ RawExtractLatest(r) \in Time
           /\ RawExtractLatest(r) # 0 =>
                 /\ ~r.skipped
                 /\ \E e \in r.entries : RawExtractLatest(r) = e.ts
<1> DEFINE T == {e.ts : e \in r.entries}
<1>1. MaxClock \in Nat /\ 0 \in Time
  BY BoundsType DEF Time
<1>2. T \in SUBSET (0..MaxClock)
  BY DEF Entry, Time
<1>3. CASE r.skipped \/ r.entries = {}
  BY <1>1, <1>3 DEF RawExtractLatest
<1>4. CASE ~r.skipped /\ r.entries # {}
  <2>1. T # {}
    BY <1>4
  <2>2. Max(T) \in T
    <3> HIDE DEF T
    <3> QED BY <1>1, <1>2, <2>1, MaxOfBounded
  <2> QED BY <1>2, <1>4, <2>2 DEF RawExtractLatest, Time
<1> QED BY <1>3, <1>4

\* Marking adds the hashes of the kept entries and nothing else.
LEMMA MarkedType ==
    ASSUME NEW st \in StateManager, NEW kept \in SUBSET Entry
    PROVE  /\ Marked(st, kept) \in StateManager
           /\ Marked(st, kept).mark = st.mark
           /\ Marked(st, kept).exact = st.exact \union {Exact(e) : e \in kept}
           /\ Marked(st, kept).overlap = st.overlap \union {Overlap(e) : e \in kept}
<1>1. \A e \in Entry : Exact(e) \in ExactHash /\ Overlap(e) \in OverlapHash
  BY AgentOfType, BoundsType DEF Entry, Exact, Overlap, ExactHash, OverlapHash, Time
<1> QED BY <1>1 DEF Marked, StateManager

\* Pruning only forgets.
LEMMA PrunedType ==
    ASSUME NEW hashes, NEW kept \in Pruned(hashes)
    PROVE  kept \subseteq hashes
BY DEF Pruned

\* Dedup keeps extracted entries only.
LEMMA SurvivorsType ==
    ASSUME NEW r, NEW kept \in Survivors(r)
    PROVE  kept \subseteq r.entries
BY DEF Survivors, Fresh

-----------------------------------------------------------------------------
\* Types.

\* The variables keep their types: every command, kill and damage included.
THEOREM ExtractionTypeOK == Spec => []TypeOK
<1>1. Init => TypeOK
  BY BoundsType DEF Init, TypeOK, Time
<1>2. TypeOK /\ [Next]_vars => TypeOK'
  <2> SUFFICES ASSUME TypeOK, [Next]_vars PROVE TypeOK'
    OBVIOUS
  <2>1. ASSUME NEW s \in Session, NEW ts \in Time, NEW role \in Role, NEW text \in Text,
             Write(s, ts, role, text)
        PROVE  TypeOK'
    <3> DEFINE e == [session |-> s, ts |-> ts, role |-> role, text |-> text]
    <3>1. e \in Entry
      BY <2>1 DEF Write, Entry
    <3>2. /\ clock' = clock + 1 /\ clock < MaxClock /\ log' = log \union {e}
          /\ mtime' = [mtime EXCEPT ![s] = clock + 1]
          /\ behind' \in {behind, behind \union {e}}
          /\ UNCHANGED <<disk, lock, run, results, cut, declined, runs, faults>>
      BY <2>1 DEF Write
    <3> HIDE DEF e
    <3>3. clock' \in Time
      BY <3>2, BoundsType DEF TypeOK, Time
    <3> QED BY <3>1, <3>2, <3>3 DEF TypeOK, disk, results
  <2>2. ASSUME NEW p \in Proc, NEW c \in Command, BeginRun(p, c)
        PROVE  TypeOK'
    <3>1. /\ Loaded \in StateManager /\ Healed \in StateManager \union {None}
      BY <2>2, LoadedType DEF BeginRun, LockState
    <3>2. /\ c.key \in Key /\ c.mode \in Mode /\ c.cutoff \in Time
      BY CommandType
    <3>3. MigratedMark(Loaded, c.key) \in Time
      BY <3>1, <3>2, MigratedMarkType
    <3>4. [Loaded EXCEPT !.mark[c.key] = MigratedMark(Loaded, c.key)] \in StateManager
      BY <3>1, <3>2, <3>3 DEF StateManager
    <3>5. c.key \subseteq Agent /\ Covered(Loaded, c.key) \subseteq Agent
      BY <3>2, KeyType DEF Covered
    <3>6. 0 \in Time /\ Max({cut, c.cutoff}) \in Time
      BY <3>2, BoundsType, MaxOfTwo DEF TypeOK, Time
    <3>6b. c.emits \in BOOLEAN /\ c.userOnly \in BOOLEAN
      BY CommandType
    <3>7. run' \in [Proc -> Run \union {None}]
      BY <2>2, <3>2, <3>3, <3>4, <3>5, <3>6, <3>6b DEF BeginRun, TypeOK, Run
    <3>8. \A q \in Proc : run'[q] # None => \/ run'[q].key \in Key
                                            \/ run'[q].mode = "reset" /\ run'[q].phase \in {"save", "replace"}
      BY <2>2, <3>2 DEF BeginRun, TypeOK
    <3>9. runs' \in 0..MaxRuns
      BY <2>2, BoundsType DEF BeginRun, LockState, TypeOK
    <3> QED BY <2>2, <3>1, <3>6, <3>7, <3>8, <3>9 DEF BeginRun, LockState, TypeOK, world, results
  <2>3. ASSUME NEW p \in Proc, BeginReset(p)
        PROVE  TypeOK'
    <3>1. /\ Loaded \in StateManager /\ Healed \in StateManager \union {None}
      BY <2>3, LoadedType DEF BeginReset, LockState
    <3>2. [Loaded EXCEPT !.exact = {}, !.overlap = {}] \in StateManager
      BY <3>1 DEF StateManager
    <3>3. 0 \in Time
      BY BoundsType DEF Time
    <3>4. run' \in [Proc -> Run \union {None}]
      BY <2>3, <3>2, <3>3 DEF BeginReset, TypeOK, Run
    <3>5. \A q \in Proc : run'[q] # None => \/ run'[q].key \in Key
                                            \/ run'[q].mode = "reset" /\ run'[q].phase \in {"save", "replace"}
      BY <2>3 DEF BeginReset, TypeOK
    <3>6. runs' \in 0..MaxRuns
      BY <2>3, BoundsType DEF BeginReset, LockState, TypeOK
    <3> QED BY <2>3, <3>1, <3>4, <3>5, <3>6 DEF BeginReset, LockState, TypeOK, world, results, history
  <2>4. ASSUME NEW p \in Proc, run[p] # None, Discover(p)
        PROVE  TypeOK'
    <3>1. /\ run[p] \in Run /\ run[p].key \in Key
      BY <2>4 DEF TypeOK, Discover, Scanning
    <3>2. {[session |-> s, mtime |-> mtime[s]] : s \in Session} \subseteq [session : Session, mtime : Time]
      BY DEF TypeOK
    <3>3. PICK agents \in SUBSET Agent, queue \in SUBSET [session : Session, mtime : Time] :
             run' = [run EXCEPT ![p].agents = agents, ![p].queue = queue]
      <4> DEFINE a == Min(run[p].agents)
                 bound == IF Floor(run[p], a) # 0 THEN Floor(run[p], a) ELSE run[p].cutoff
                 queue == {[session |-> s, mtime |-> mtime[s]] :
                             s \in {u \in Session : AgentOf[u] = a /\ mtime[u] > bound}}
      <4>1. run' = [run EXCEPT ![p].agents = @ \ {a}, ![p].queue = queue]
        BY <2>4, Zenon DEF Discover
      <4>2. queue \subseteq [session : Session, mtime : Time]
        BY <3>2
      <4>3. run[p].agents \ {a} \subseteq Agent
        BY <3>1 DEF Run
      <4> HIDE DEF a, bound, queue
      <4> QED BY <4>1, <4>2, <4>3 DEF TypeOK
    <3>4. run'[p] \in Run /\ run'[p].key = run[p].key
      BY <3>1, <3>3 DEF TypeOK, Run
    <3>5. \A q \in Proc \ {p} : run'[q] = run[q]
      BY <3>3 DEF TypeOK
    <3> QED BY <2>4, <3>1, <3>3, <3>4, <3>5 DEF Discover, TypeOK, world, disk, results, history
  <2>5. ASSUME NEW p \in Proc, run[p] # None, Parse(p)
        PROVE  TypeOK'
    <3>1. /\ run[p] \in Run /\ run[p].key \in Key
      BY <2>5 DEF TypeOK, Parse, NextSource, Scanning
    <3>2. PICK queue \in SUBSET [session : Session, mtime : Time], entries \in SUBSET Entry :
             run' = [run EXCEPT ![p].queue = queue, ![p].ingested = TRUE, ![p].entries = entries]
      <4>1. PICK q \in run[p].queue :
              run' = [run EXCEPT
                ![p].queue = @ \ {q},
                ![p].ingested = TRUE,
                ![p].entries = @ \union Wanted(run[p], Ingested(run[p], q.session))]
        BY <2>5, Zenon DEF Parse
      <4>2. run[p].queue \in SUBSET [session : Session, mtime : Time] /\ run[p].entries \in SUBSET Entry
        BY <3>1 DEF Run
      <4>3. Wanted(run[p], Ingested(run[p], q.session)) \subseteq Entry
        BY DEF TypeOK, Wanted, Ingested
      <4> QED BY <4>1, <4>2, <4>3 DEF TypeOK
    <3>3. run'[p] \in Run /\ run'[p].key = run[p].key
      BY <3>1, <3>2 DEF TypeOK, Run
    <3>4. \A q \in Proc \ {p} : run'[q] = run[q]
      BY <3>2 DEF TypeOK
    <3>5. /\ declined' \subseteq Entry
          /\ UNCHANGED <<world, disk, lock, results, behind, cut, runs, faults>>
      BY <2>5 DEF Parse, Ingested, TypeOK
    <3>6. run' \in [Proc -> Run \union {None}]
      BY <3>2, <3>3, <3>4 DEF TypeOK
    <3> QED BY <3>1, <3>3, <3>4, <3>5, <3>6 DEF TypeOK, world, disk, results
  <2>6. ASSUME NEW p \in Proc, run[p] # None, Skip(p)
        PROVE  TypeOK'
    <3>1. /\ run[p] \in Run /\ run[p].key \in Key
      BY <2>6 DEF TypeOK, Skip, NextSource, Scanning
    <3>2. PICK queue \in SUBSET [session : Session, mtime : Time] :
             run' = [run EXCEPT ![p].queue = queue, ![p].skipped = TRUE]
      BY <2>6, <3>1 DEF Skip, Run, TypeOK
    <3>3. run'[p] \in Run /\ run'[p].key = run[p].key
      BY <3>1, <3>2 DEF TypeOK, Run
    <3>4. \A q \in Proc \ {p} : run'[q] = run[q]
      BY <3>2 DEF TypeOK
    <3>5. faults' \in 0..MaxFaults
      BY <2>6, BoundsType DEF Skip, TypeOK
    <3> QED BY <2>6, <3>1, <3>2, <3>3, <3>4, <3>5 DEF Skip, TypeOK, world, disk, results, history
  <2>7. ASSUME NEW p \in Proc, run[p] # None, Dedup(p)
        PROVE  TypeOK'
    <3>1. /\ run[p] \in Run /\ run[p].key \in Key
          /\ run[p].entries \subseteq Entry /\ run[p].state \in StateManager
      BY <2>7 DEF TypeOK, Dedup, Scanned, Scanning, Run
    <3>2. PICK kept \in Survivors(run[p]) :
             run' = [run EXCEPT
               ![p].phase = "output",
               ![p].latest = RawExtractLatest(run[p]),
               ![p].entries = kept,
               ![p].state = IF run[p].mode = "incremental" THEN Marked(run[p].state, kept) ELSE run[p].state]
      BY <2>7 DEF Dedup, TypeOK
    <3>3. kept \subseteq Entry /\ Marked(run[p].state, kept) \in StateManager
      BY <3>1, SurvivorsType, MarkedType
    <3>4. RawExtractLatest(run[p]) \in Time
      BY <3>1, RawExtractLatestType
    <3>5. run'[p] \in Run /\ run'[p].key = run[p].key
      BY <3>1, <3>2, <3>3, <3>4 DEF TypeOK, Run
    <3>6. \A q \in Proc \ {p} : run'[q] = run[q]
      BY <3>2 DEF TypeOK
    <3> QED BY <2>7, <3>1, <3>2, <3>5, <3>6 DEF Dedup, TypeOK, world, disk, results, history
  <2>8. ASSUME NEW p \in Proc, run[p] # None, Output(p)
        PROVE  TypeOK'
    <3> DEFINE st == Marked(run[p].state, Reportable(run[p]))
    <3>1. /\ run[p] \in Run /\ run[p].key \in Key /\ run[p].latest \in Time
          /\ run[p].entries \subseteq Entry /\ run[p].state \in StateManager
      BY <2>8 DEF TypeOK, Output, Run
    <3>1b. Reportable(run[p]) \in SUBSET Entry /\ Reported(run[p]) \in SUBSET Entry
      BY <3>1 DEF Reportable, Reported
    <3>2. st \in StateManager
      BY <3>1, <3>1b, MarkedType
    <3> HIDE DEF st
    <3>3. PICK exact \in Pruned(st.exact), overlap \in Pruned(st.overlap) :
             run' = [run EXCEPT
                  ![p].phase = "save",
                  ![p].state = [mark |-> [st.mark EXCEPT ![run[p].key] = Max({st.mark[run[p].key], run[p].latest})],
                                exact |-> exact, overlap |-> overlap]]
      BY <2>8, <3>1, <3>2 DEF Output, StateManager, st
    <3>4. Max({st.mark[run[p].key], run[p].latest}) \in Time
      BY <3>1, <3>2, MaxOfTwo DEF StateManager
    <3>5. exact \subseteq st.exact /\ overlap \subseteq st.overlap
      BY PrunedType
    <3>6. [mark |-> [st.mark EXCEPT ![run[p].key] = Max({st.mark[run[p].key], run[p].latest})],
           exact |-> exact, overlap |-> overlap] \in StateManager
      BY <3>1, <3>2, <3>4, <3>5 DEF StateManager
    <3>7. run'[p] \in Run /\ run'[p].key = run[p].key
      BY <3>1, <3>3, <3>6 DEF TypeOK, Run
    <3>8. \A q \in Proc \ {p} : run'[q] = run[q]
      BY <3>3 DEF TypeOK
    <3>9. emitted' \subseteq Entry /\ unsaid' \subseteq Entry
      BY <2>8, <3>1, <3>1b DEF Output, TypeOK
    <3>10. run' \in [Proc -> Run \union {None}]
      BY <3>3, <3>7, <3>8 DEF TypeOK
    <3> QED BY <2>8, <3>1, <3>7, <3>8, <3>9, <3>10 DEF Output, TypeOK, world, disk, history
  <2>9. ASSUME NEW p \in Proc, run[p] # None, SaveBackup(p)
        PROVE  TypeOK'
    <3>1. /\ run[p] \in Run
      BY <2>9 DEF TypeOK
    <3>2. /\ run'[p] \in Run /\ run'[p].key = run[p].key /\ run'[p].mode = run[p].mode
          /\ run'[p].phase = "replace"
      BY <2>9, <3>1 DEF SaveBackup, TypeOK, Run
    <3>3. \A q \in Proc \ {p} : run'[q] = run[q]
      BY <2>9 DEF SaveBackup, TypeOK
    <3>4. backup' \in {primary, backup}
      BY <2>9 DEF SaveBackup
    <3>5. run' \in [Proc -> Run \union {None}]
      BY <2>9, <3>2, <3>3 DEF SaveBackup, TypeOK
    <3> QED BY <2>9, <3>2, <3>3, <3>4, <3>5 DEF SaveBackup, TypeOK, world, results, history
  <2>10. ASSUME NEW p \in Proc, run[p] # None, ExitAllSkipped(p) \/ SavePrimary(p) \/ Abort(p)
        PROVE  TypeOK'
    <3>1. primary' \in StateManager \union {None, Malformed}
      BY <2>10 DEF ExitAllSkipped, SavePrimary, Abort, TypeOK, Run, disk
    <3>2. faults' \in 0..MaxFaults
      BY <2>10, BoundsType DEF ExitAllSkipped, SavePrimary, Abort, TypeOK
    <3>3. run' = [run EXCEPT ![p] = None] /\ lock' = None
      BY <2>10 DEF ExitAllSkipped, SavePrimary, Abort
    <3>4. UNCHANGED <<world, backup, results, history, runs>>
      BY <2>10 DEF ExitAllSkipped, SavePrimary, Abort, disk
    <3> QED BY <3>1, <3>2, <3>3, <3>4 DEF TypeOK, world, results, history
  <2>11. CASE Damage \/ ManualRecovery
    BY <2>11, BoundsType DEF Damage, ManualRecovery, TypeOK, world, results, history
  <2>12. CASE UNCHANGED vars
    BY <2>12 DEF TypeOK, vars, world, disk, results, history
  <2> QED BY <2>1, <2>2, <2>3, <2>4, <2>5, <2>6, <2>7, <2>8, <2>9, <2>10, <2>11, <2>12
          DEF Next, Proceed, Abort
<1> QED BY <1>1, <1>2, PTL DEF Spec

-----------------------------------------------------------------------------
\* What is processed and what is saved.

\* Every hash of st belongs to an entry of E.
HashesOf(st, E) ==
    /\ \A h \in st.exact : \E e \in E : Exact(e) = h
    /\ \A h \in st.overlap : \E e \in E : Overlap(e) = h

\* Survivors that are marked and have not been through the output step.
Pending(r) == IF r.phase = "output" THEN r.entries ELSE {}

\* One run at a time; a run's memory names nothing that was not processed,
\* except its pending survivors, and is not behind the file it will replace.
SaveInv ==
    /\ \A p \in Proc : run[p] # None => lock = p
    /\ primary \in StateManager => HashesOf(primary, Processed)
    /\ backup \in StateManager => HashesOf(backup, Processed)
    /\ \A p \in Proc : run[p] # None =>
          HashesOf(run[p].state, Processed \union Pending(run[p]))
    /\ \A p \in Proc : run[p] # None /\ primary \in StateManager =>
          \A k \in Key : run[p].state.mark[k] >= primary.mark[k]

\* A larger set names at least as many hashes.
LEMMA HashesOfMonotone ==
    ASSUME NEW st, NEW E, NEW F, HashesOf(st, E), E \subseteq F
    PROVE  HashesOf(st, F)
BY DEF HashesOf

\* Marking the entries of E.
LEMMA HashesOfMarked ==
    ASSUME NEW st \in StateManager, NEW kept \in SUBSET Entry, NEW E,
           HashesOf(st, E)
    PROVE  HashesOf(Marked(st, kept), E \union kept)
BY MarkedType DEF HashesOf

\* Steps that only touch the scan leave the state in memory alone.
LEMMA ScanKeepsState ==
    ASSUME TypeOK, NEW p \in Proc, run[p] # None,
           Discover(p) \/ Parse(p) \/ Skip(p)
    PROVE  /\ run[p] \in Run /\ run[p].phase = "scan"
           /\ run'[p].state = run[p].state /\ run'[p].phase = "scan"
           /\ \A q \in Proc \ {p} : run'[q] = run[q]
           /\ UNCHANGED <<primary, backup, lock, Processed>>
<1>1. run[p] \in Run /\ run[p].phase = "scan"
  BY DEF TypeOK, Discover, Parse, Skip, NextSource, Scanning
<1>2. CASE Discover(p)
  <2>1. PICK agents, queue : run' = [run EXCEPT ![p].agents = agents, ![p].queue = queue]
    BY <1>2 DEF Discover, TypeOK
  <2> QED BY <1>1, <1>2, <2>1 DEF Discover, disk, results, Processed, TypeOK, Run
<1>3. CASE Parse(p)
  <2>1. PICK queue, entries :
           run' = [run EXCEPT ![p].queue = queue, ![p].ingested = TRUE, ![p].entries = entries]
    <3>1. PICK q \in run[p].queue :
            run' = [run EXCEPT
              ![p].queue = @ \ {q},
              ![p].ingested = TRUE,
              ![p].entries = @ \union Wanted(run[p], Ingested(run[p], q.session))]
      BY <1>3, Zenon DEF Parse
    <3> QED BY <3>1 DEF TypeOK
  <2>2. UNCHANGED <<disk, lock, results>>
    BY <1>3 DEF Parse
  <2> QED BY <1>1, <2>1, <2>2 DEF disk, results, Processed, TypeOK, Run
<1>4. CASE Skip(p)
  <2>1. PICK queue : run' = [run EXCEPT ![p].queue = queue, ![p].skipped = TRUE]
    BY <1>4 DEF Skip, TypeOK
  <2> QED BY <1>1, <1>4, <2>1 DEF Skip, disk, results, Processed, TypeOK, Run
<1> QED BY <1>1, <1>2, <1>3, <1>4

\* What dedup does to the run.
LEMMA DedupStep ==
    ASSUME TypeOK, NEW p \in Proc, run[p] # None, Dedup(p)
    PROVE  /\ run[p] \in Run /\ run[p].phase = "scan"
           /\ run[p].queue = {} /\ run[p].agents = {}
           /\ \E kept \in Survivors(run[p]) :
                 /\ kept \subseteq Entry
                 /\ run'[p].entries = kept
                 /\ run'[p].state = IF run[p].mode = "incremental"
                                    THEN Marked(run[p].state, kept) ELSE run[p].state
           /\ run'[p].phase = "output"
           /\ run'[p].latest = RawExtractLatest(run[p])
           /\ run'[p].key = run[p].key /\ run'[p].cutoff = run[p].cutoff
           /\ run'[p].emits = run[p].emits /\ run'[p].userOnly = run[p].userOnly
           /\ \A q \in Proc \ {p} : run'[q] = run[q]
           /\ UNCHANGED <<primary, backup, lock, Processed, log, clock, mtime, history>>
<1>1. /\ run[p] \in Run /\ run[p].phase = "scan"
      /\ run[p].queue = {} /\ run[p].agents = {}
  BY DEF TypeOK, Dedup, Scanned, Scanning
<1>2. PICK kept \in Survivors(run[p]) :
         run' = [run EXCEPT
           ![p].phase = "output",
           ![p].latest = RawExtractLatest(run[p]),
           ![p].entries = kept,
           ![p].state = IF run[p].mode = "incremental" THEN Marked(run[p].state, kept) ELSE run[p].state]
  BY DEF Dedup, TypeOK
<1>3. kept \subseteq Entry
  BY <1>1, SurvivorsType DEF Run
<1>4. /\ run'[p].phase = "output" /\ run'[p].latest = RawExtractLatest(run[p])
      /\ run'[p].key = run[p].key /\ run'[p].cutoff = run[p].cutoff
      /\ run'[p].emits = run[p].emits /\ run'[p].userOnly = run[p].userOnly
      /\ run'[p].entries = kept
      /\ run'[p].state = IF run[p].mode = "incremental"
                         THEN Marked(run[p].state, kept) ELSE run[p].state
  BY <1>1, <1>2 DEF TypeOK, Run
<1>5. \A q \in Proc \ {p} : run'[q] = run[q]
  BY <1>2 DEF TypeOK
<1>6. UNCHANGED <<primary, backup, lock, Processed, log, clock, mtime, history>>
  BY DEF Dedup, disk, world, results, Processed
<1> QED BY <1>1, <1>2, <1>3, <1>4, <1>5, <1>6

\* What the output phase does to the run.
LEMMA OutputStep ==
    ASSUME TypeOK, NEW p \in Proc, run[p] # None, Output(p)
    PROVE  /\ run[p] \in Run /\ run[p].phase = "output" /\ run[p].key \in Key
           /\ run'[p].phase = "save"
           /\ run'[p].state \in StateManager
           /\ run'[p].state.mark = [run[p].state.mark EXCEPT
                 ![run[p].key] = Max({run[p].state.mark[run[p].key], run[p].latest})]
           /\ run'[p].state.exact \subseteq Marked(run[p].state, run[p].entries).exact
           /\ run'[p].state.overlap \subseteq Marked(run[p].state, run[p].entries).overlap
           /\ \A q \in Proc \ {p} : run'[q] = run[q]
           /\ Processed' = Processed \union run[p].entries
           /\ UNCHANGED <<primary, backup, lock, log, clock, history>>
<1> DEFINE st == Marked(run[p].state, Reportable(run[p]))
           all == Marked(run[p].state, run[p].entries)
<1>1. /\ run[p] \in Run /\ run[p].phase = "output" /\ run[p].key \in Key
      /\ run[p].latest \in Time
      /\ run[p].entries \in SUBSET Entry /\ run[p].state \in StateManager
  BY DEF TypeOK, Output, Run
<1>2. /\ st \in StateManager /\ st.mark = run[p].state.mark
      /\ st.exact \subseteq all.exact /\ st.overlap \subseteq all.overlap
  <2>1. Reportable(run[p]) \in SUBSET run[p].entries
    BY DEF Reportable
  <2> QED BY <1>1, <2>1, MarkedType
<1>3. PICK exact \in Pruned(st.exact), overlap \in Pruned(st.overlap) :
         run' = [run EXCEPT
              ![p].phase = "save",
              ![p].state = [mark |-> [st.mark EXCEPT ![run[p].key] = Max({@, run[p].latest})],
                            exact |-> exact, overlap |-> overlap]]
  BY Zenon DEF Output
<1>4. /\ Processed' = Processed \union run[p].entries
      /\ UNCHANGED <<primary, backup, lock, log, clock, history>>
  <2>1. Reported(run[p]) \subseteq run[p].entries
    BY DEF Reported, Reportable
  <2> QED BY <2>1 DEF Output, disk, world, Processed
<1> HIDE DEF st, all
<1>5. /\ run'[p].phase = "save"
      /\ run'[p].state = [mark |-> [st.mark EXCEPT ![run[p].key] = Max({st.mark[run[p].key], run[p].latest})],
                          exact |-> exact, overlap |-> overlap]
      /\ \A q \in Proc \ {p} : run'[q] = run[q]
  BY <1>1, <1>2, <1>3 DEF TypeOK, Run, StateManager
<1>6. exact \subseteq st.exact /\ overlap \subseteq st.overlap
  BY PrunedType
<1>7. Max({st.mark[run[p].key], run[p].latest}) \in Time
  BY <1>1, <1>2, MaxOfTwo DEF StateManager
<1>8. run'[p].state \in StateManager
  BY <1>1, <1>2, <1>5, <1>6, <1>7 DEF StateManager
<1> QED BY <1>1, <1>2, <1>4, <1>5, <1>6, <1>8 DEF all

\* A command starts from what the load returns.
LEMMA BeginStep ==
    ASSUME TypeOK, NEW p \in Proc,
           BeginReset(p) \/ \E c \in Command : BeginRun(p, c)
    PROVE  /\ Loadable /\ lock = None /\ lock' = p /\ primary' = Healed
           /\ run'[p].phase # "output"
           /\ run'[p].state \in StateManager
           /\ \A k \in Key : run'[p].state.mark[k] >= Loaded.mark[k]
           /\ run'[p].state.exact \subseteq Loaded.exact
           /\ run'[p].state.overlap \subseteq Loaded.overlap
           /\ \A q \in Proc \ {p} : run'[q] = run[q]
           /\ UNCHANGED <<backup, Processed>>
<1>1. /\ Loadable /\ lock = None /\ lock' = p /\ primary' = Healed
      /\ UNCHANGED <<backup, Processed>>
  BY DEF BeginReset, BeginRun, LockState, results, Processed
<1>2. Loaded \in StateManager
  BY <1>1, LoadedType
<1>3. CASE BeginReset(p)
  <2>1. /\ run'[p].phase = "save"
        /\ run'[p].state = [Loaded EXCEPT !.exact = {}, !.overlap = {}]
        /\ \A q \in Proc \ {p} : run'[q] = run[q]
    BY <1>3 DEF BeginReset, TypeOK
  <2>2. /\ run'[p].state \in StateManager /\ run'[p].state.mark = Loaded.mark
        /\ run'[p].state.exact = {} /\ run'[p].state.overlap = {}
    BY <1>2, <2>1 DEF StateManager
  <2>3. \A k \in Key : Loaded.mark[k] \in 0..MaxClock
    BY <1>2 DEF StateManager, Time
  <2> QED BY <1>1, <2>1, <2>2, <2>3, BoundsType
<1>4. ASSUME NEW c \in Command, BeginRun(p, c)
      PROVE  /\ run'[p].phase # "output"
             /\ run'[p].state \in StateManager
             /\ \A k \in Key : run'[p].state.mark[k] >= Loaded.mark[k]
             /\ run'[p].state.exact \subseteq Loaded.exact
             /\ run'[p].state.overlap \subseteq Loaded.overlap
             /\ \A q \in Proc \ {p} : run'[q] = run[q]
  <2>1. c.key \in Key
    BY CommandType
  <2>2. /\ MigratedMark(Loaded, c.key) \in Time
        /\ MigratedMark(Loaded, c.key) >= Loaded.mark[c.key]
    BY <1>2, <2>1, MigratedMarkType
  <2>3. /\ run'[p].phase = "scan"
        /\ run'[p].state = [Loaded EXCEPT !.mark[c.key] = MigratedMark(Loaded, c.key)]
        /\ \A q \in Proc \ {p} : run'[q] = run[q]
    BY <1>4 DEF BeginRun, TypeOK
  <2> QED BY <1>2, <2>1, <2>2, <2>3 DEF StateManager, Time
<1> QED BY <1>1, <1>3, <1>4

\* The invariant is inductive.
LEMMA SaveInvStep ==
    ASSUME TypeOK, TypeOK', SaveInv, [Next]_vars
    PROVE  SaveInv'
<1>1. ASSUME NEW p \in Proc, NEW q \in Proc, run[p] # None, q # p
      PROVE  run[q] = None
  BY <1>1 DEF SaveInv
<1>2. ASSUME NEW p \in Proc, NEW s \in Session, NEW ts \in Time, NEW role \in Role, NEW text \in Text,
             Write(s, ts, role, text)
      PROVE  UNCHANGED <<primary, backup, lock, run, Processed>>
  BY <1>2 DEF Write, disk, results, Processed
<1>3. CASE UNCHANGED <<primary, backup, lock, run, Processed>>
  BY <1>3 DEF SaveInv, HashesOf, Pending
<1>4. ASSUME NEW p \in Proc, BeginReset(p) \/ \E c \in Command : BeginRun(p, c)
      PROVE  SaveInv'
  <2>1. /\ Loadable /\ lock = None /\ lock' = p /\ primary' = Healed
        /\ run'[p].phase # "output"
        /\ run'[p].state \in StateManager
        /\ \A k \in Key : run'[p].state.mark[k] >= Loaded.mark[k]
        /\ run'[p].state.exact \subseteq Loaded.exact
        /\ run'[p].state.overlap \subseteq Loaded.overlap
        /\ \A q \in Proc \ {p} : run'[q] = run[q]
        /\ UNCHANGED <<backup, Processed>>
    BY <1>4, BeginStep
  <2>2. \A q \in Proc \ {p} : run'[q] = None
    BY <2>1, NoneIsNew DEF SaveInv
  <2>3. /\ Loaded \in StateManager
        /\ primary # None => Healed = Loaded
        /\ primary = None => Healed = None
    BY <2>1, LoadedType
  <2>4. HashesOf(Loaded, Processed)
    <3>1. primary = None => Loaded.exact = {} /\ Loaded.overlap = {}
      BY DEF Loaded, Default
    <3>2. primary = None => HashesOf(Loaded, Processed)
      BY <3>1 DEF HashesOf
    <3>3. primary # None => Loaded \in {primary, backup}
      BY DEF Loaded
    <3> QED BY <2>3, <3>2, <3>3 DEF SaveInv
  <2>5. HashesOf(run'[p].state, Processed')
    BY <2>1, <2>4 DEF HashesOf
  <2>6. Pending(run'[p]) = {}
    BY <2>1 DEF Pending
  <2>7. primary' \in StateManager =>
          /\ HashesOf(primary', Processed')
          /\ \A k \in Key : run'[p].state.mark[k] >= primary'.mark[k]
    BY <2>1, <2>3, <2>4, NoneIsNew
  <2> QED BY <2>1, <2>2, <2>5, <2>6, <2>7 DEF SaveInv
<1>5. ASSUME NEW p \in Proc, run[p] # None, Discover(p) \/ Parse(p) \/ Skip(p)
      PROVE  SaveInv'
  <2>1. /\ run'[p].state = run[p].state
        /\ Pending(run[p]) = {} /\ Pending(run'[p]) = {}
        /\ \A q \in Proc \ {p} : run'[q] = None
        /\ UNCHANGED <<primary, backup, lock, Processed>>
    BY <1>1, <1>5, ScanKeepsState DEF Pending
  <2> QED BY <1>5, <2>1 DEF SaveInv
<1>6. ASSUME NEW p \in Proc, run[p] # None, Dedup(p)
      PROVE  SaveInv'
  <2>1. PICK kept \in Survivors(run[p]) :
          /\ kept \subseteq Entry
          /\ run'[p].entries = kept
          /\ run'[p].state = IF run[p].mode = "incremental"
                             THEN Marked(run[p].state, kept) ELSE run[p].state
    BY <1>6, DedupStep
  <2>2. /\ run[p] \in Run /\ Pending(run[p]) = {} /\ Pending(run'[p]) = kept
        /\ \A q \in Proc \ {p} : run'[q] = None
        /\ UNCHANGED <<primary, backup, lock, Processed>>
    BY <1>1, <1>6, <2>1, DedupStep DEF Pending
  <2>3. run[p].state \in StateManager /\ HashesOf(run[p].state, Processed)
    BY <1>6, <2>2 DEF SaveInv, Run
  <2>4. HashesOf(run'[p].state, Processed \union kept)
    BY <2>1, <2>3, HashesOfMarked, HashesOfMonotone
  <2>5. run'[p].state.mark = run[p].state.mark
    BY <2>1, <2>3, MarkedType
  <2> QED BY <1>6, <2>2, <2>4, <2>5 DEF SaveInv
<1>7. ASSUME NEW p \in Proc, run[p] # None, Output(p)
      PROVE  SaveInv'
  <2> DEFINE st == Marked(run[p].state, run[p].entries)
  <2>1. /\ run[p] \in Run /\ run[p].phase = "output" /\ run[p].key \in Key
        /\ run'[p].phase = "save"
        /\ run'[p].state.mark = [run[p].state.mark EXCEPT
              ![run[p].key] = Max({run[p].state.mark[run[p].key], run[p].latest})]
        /\ run'[p].state.exact \subseteq st.exact
        /\ run'[p].state.overlap \subseteq st.overlap
        /\ Processed' = Processed \union run[p].entries
        /\ UNCHANGED <<primary, backup, lock>>
        /\ \A q \in Proc \ {p} : run'[q] = run[q]
    BY <1>7, OutputStep
  <2>2. /\ run[p].state \in StateManager /\ run[p].entries \in SUBSET Entry /\ run[p].latest \in Time
    BY <2>1 DEF Run
  <2>3. HashesOf(run[p].state, Processed \union run[p].entries)
    BY <1>7, <2>1 DEF SaveInv, Pending
  <2>4. HashesOf(st, Processed \union run[p].entries)
    <3>1. HashesOf(st, (Processed \union run[p].entries) \union run[p].entries)
      BY <2>2, <2>3, HashesOfMarked
    <3> QED BY <3>1, HashesOfMonotone
  <2> HIDE DEF st
  <2>5. HashesOf(run'[p].state, Processed') /\ Pending(run'[p]) = {}
    BY <2>1, <2>4 DEF HashesOf, Pending
  <2>6. \A k \in Key : run[p].state.mark[k] \in Time
    BY <2>2 DEF StateManager
  <2>7. Max({run[p].state.mark[run[p].key], run[p].latest}) >= run[p].state.mark[run[p].key]
    BY <2>1, <2>2, <2>6, MaxOfTwo
  <2>8. \A k \in Key : /\ run'[p].state.mark[k] \in Time
                        /\ run'[p].state.mark[k] >= run[p].state.mark[k]
    <3>1. run'[p].state \in StateManager
      BY <1>7, OutputStep
    <3>2. \A k \in Key : run'[p].state.mark[k] \in Time
      BY <3>1 DEF StateManager
    <3>3. run[p].state.mark \in [Key -> Time]
      BY <2>2 DEF StateManager
    <3>4. \A k \in Key : run'[p].state.mark[k] =
             IF k = run[p].key THEN Max({run[p].state.mark[run[p].key], run[p].latest})
             ELSE run[p].state.mark[k]
      BY <2>1, <3>3
    <3>5. \A m \in Time : m >= m
      BY BoundsType DEF Time
    <3> QED BY <2>6, <2>7, <3>2, <3>4, <3>5
  <2>9. primary \in StateManager => \A k \in Key : primary.mark[k] \in Time
    BY DEF StateManager
  <2>10. primary \in StateManager => \A k \in Key : run'[p].state.mark[k] >= primary.mark[k]
    <3>1. primary \in StateManager => \A k \in Key : run[p].state.mark[k] >= primary.mark[k]
      BY <1>7 DEF SaveInv
    <3> QED BY <2>6, <2>8, <2>9, <3>1, BoundsType DEF Time
  <2>11. /\ primary \in StateManager => HashesOf(primary, Processed')
         /\ backup \in StateManager => HashesOf(backup, Processed')
    BY <2>1 DEF SaveInv, HashesOf
  <2>12. \A q \in Proc \ {p} : run'[q] = None
    BY <1>1, <1>7, <2>1
  <2> QED BY <1>7, <2>1, <2>5, <2>10, <2>11, <2>12 DEF SaveInv
<1>8. ASSUME NEW p \in Proc, run[p] # None, SaveBackup(p)
      PROVE  SaveInv'
  <2>1. run[p] \in Run /\ run[p].phase = "save"
    BY <1>8 DEF SaveBackup, TypeOK
  <2>2. /\ run'[p].state = run[p].state /\ Pending(run[p]) = {} /\ Pending(run'[p]) = {}
        /\ backup' \in {primary, backup} /\ UNCHANGED <<primary, lock, Processed>>
        /\ \A q \in Proc \ {p} : run'[q] = None
    BY <1>1, <1>8, <2>1 DEF SaveBackup, TypeOK, Run, Pending, results, Processed
  <2> QED BY <1>8, <2>2 DEF SaveInv
<1>9. ASSUME NEW p \in Proc, run[p] # None, ExitAllSkipped(p) \/ SavePrimary(p) \/ Abort(p)
      PROVE  SaveInv'
  <2>1. \A q \in Proc : run'[q] = None
    BY <1>1, <1>9 DEF ExitAllSkipped, SavePrimary, Abort, TypeOK
  <2>2. UNCHANGED <<backup, Processed>>
    BY <1>9 DEF ExitAllSkipped, SavePrimary, Abort, disk, results, Processed
  <2>3. primary' = primary \/ SavePrimary(p)
    BY <1>9 DEF ExitAllSkipped, Abort, disk
  <2>4. CASE SavePrimary(p)
    <3>1. primary' = run[p].state /\ Pending(run[p]) = {}
      BY <2>4 DEF SavePrimary, Pending
    <3>2. HashesOf(primary', Processed')
      BY <1>9, <2>2, <3>1 DEF SaveInv
    <3> QED BY <2>1, <2>2, <3>2 DEF SaveInv
  <2>5. CASE primary' = primary
    BY <2>1, <2>2, <2>5 DEF SaveInv
  <2> QED BY <2>3, <2>4, <2>5
<1>10. CASE Damage \/ ManualRecovery
  <2>1. /\ primary' \in {None, Malformed} /\ UNCHANGED <<backup, lock, run, Processed>>
    BY <1>10 DEF Damage, ManualRecovery, results, Processed
  <2> QED BY <2>1, NoneIsNew DEF SaveInv
<1>11. CASE UNCHANGED vars
  BY <1>3, <1>11 DEF vars, disk, results, Processed
<1> QED
  <2>1. ASSUME NEW p \in Proc, Proceed(p) PROVE SaveInv'
    BY <1>5, <1>6, <1>7, <1>8, <1>9, <2>1 DEF Proceed
  <2>2. ASSUME NEW p \in Proc, Skip(p), run[p] # None PROVE SaveInv'
    BY <1>5, <2>2
  <2>3. ASSUME NEW p \in Proc, Abort(p) PROVE SaveInv'
    BY <1>9, <2>3 DEF Abort
  <2>4. ASSUME NEW s \in Session, NEW ts \in Time, NEW role \in Role, NEW text \in Text,
             Write(s, ts, role, text)
        PROVE  SaveInv'
    BY <1>3, <2>4 DEF Write, disk, results, Processed
  <2> QED BY <1>4, <1>10, <1>11, <2>1, <2>2, <2>3, <2>4 DEF Next

\* The invariant holds.
LEMMA SaveInvHolds == Spec => [](TypeOK /\ SaveInv)
<1>1. Init => SaveInv
  BY NoneIsNew DEF Init, SaveInv
<1>2. TypeOK /\ TypeOK' /\ SaveInv /\ [Next]_vars => SaveInv'
  BY SaveInvStep
<1> QED BY <1>1, <1>2, ExtractionTypeOK, PTL DEF Spec

\* What dedup will hold back went through the output step of a run, wherever
\* runs are killed.
THEOREM SeenIsProcessed == Spec => []SeenWasProcessed
<1>1. TypeOK /\ SaveInv => SeenWasProcessed
  <2> SUFFICES ASSUME TypeOK, SaveInv, NEW st \in {primary, backup} \ {None, Malformed}
               PROVE  HashesOf(st, Processed)
    BY DEF SeenWasProcessed, HashesOf
  <2> QED BY DEF TypeOK, SaveInv
<1> QED BY <1>1, SaveInvHolds, PTL

\* No save takes back a watermark of the file it replaces.
THEOREM WatermarksNeverRetreat == Spec => WatermarkNeverRetreats
<1> DEFINE Forward == {primary, primary'} \subseteq StateManager =>
                        \A k \in Key : primary'.mark[k] >= primary.mark[k]
<1>1. TypeOK /\ SaveInv /\ [Next]_vars => [Forward]_vars
  <2> SUFFICES ASSUME TypeOK, SaveInv, Next, {primary, primary'} \subseteq StateManager
               PROVE  \A k \in Key : primary'.mark[k] >= primary.mark[k]
    OBVIOUS
  <2>1. \A k \in Key : primary.mark[k] \in 0..MaxClock
    BY DEF StateManager, Time
  <2>2. CASE primary' = primary
    BY <2>1, <2>2, BoundsType
  <2>3. ASSUME NEW p \in Proc, SavePrimary(p)
        PROVE  \A k \in Key : primary'.mark[k] >= primary.mark[k]
    BY <2>3 DEF SavePrimary, SaveInv
  <2>4. ASSUME NEW p \in Proc, BeginReset(p) \/ \E c \in Command : BeginRun(p, c)
        PROVE  primary' = primary
    BY <2>4, BeginStep, NoneIsNew DEF Healed
  <2>5. primary' = primary \/ (\E p \in Proc : SavePrimary(p))
        \/ (\E p \in Proc : BeginReset(p) \/ \E c \in Command : BeginRun(p, c))
        \/ Damage \/ ManualRecovery
    <3>1. ASSUME NEW s \in Session, NEW ts \in Time, NEW role \in Role, NEW text \in Text,
                 Write(s, ts, role, text)
          PROVE  primary' = primary
      BY <3>1 DEF Write, disk
    <3>2. ASSUME NEW p \in Proc, Discover(p) \/ Parse(p) \/ Skip(p) \/ Dedup(p) \/ Output(p)
          PROVE  primary' = primary
      BY <3>2 DEF Discover, Parse, Skip, Dedup, Output, disk
    <3>3. ASSUME NEW p \in Proc, ExitAllSkipped(p) \/ SaveBackup(p) \/ Abort(p)
          PROVE  primary' = primary
      BY <3>3 DEF ExitAllSkipped, SaveBackup, Abort, disk
    <3> QED BY <3>1, <3>2, <3>3 DEF Next, Proceed
  <2>6. ~Damage /\ ~ManualRecovery
    BY NoneIsNew DEF Damage, ManualRecovery
  <2> QED BY <2>2, <2>3, <2>4, <2>5, <2>6
<1> QED BY <1>1, SaveInvHolds, PTL DEF Spec, WatermarkNeverRetreats

-----------------------------------------------------------------------------
\* Honest watermarks.

\* The compositions in state.json were upgraded in order: of those a key
\* inherits from, one with the older watermark is part of one with the newer.
\* It fails when an older release is run again after a newer one.
UpgradedInOrder ==
    \A st \in {primary, backup} \ {None, Malformed}, k \in Key :
        \A a, b \in AliasesOf[k] : 0 < st.mark[b] /\ st.mark[b] < st.mark[a] => b \subseteq a

\* The agent of s is new to a composition that inherits a watermark.
Newcomer(s) ==
    \E k \in Key : AgentOf[s] \in k /\ \E a \in AliasesOf[k] : AgentOf[s] \notin a

\* The transcripts of newcomers are never refused.
NewcomersParse == \A s \in Session \intersect Fragile : ~Newcomer(s)

\* e was dealt with, or the parser may refuse its transcript
\* in the very run that brings its agent under a watermark.
Refusable(e) == e.session \in Fragile /\ Newcomer(e.session)
Safe(e) == Handled(e) \/ e \in declined \/ e \in behind \/ e.ts <= cut \/ Refusable(e)

\* A watermark over the agents A speaks for e.
Spoken(e, A) == AgentOf[e.session] \in A /\ AgentOf[e.session] \notin FullWindow

HonestFor(mark, A) == \A e \in log : Spoken(e, A) /\ e.ts <= mark => Safe(e)

\* Nothing is from the future.
ClockInv ==
    /\ \A e \in log : e.ts <= clock /\ e.ts <= mtime[e.session]
    /\ primary \in StateManager => \A k \in Key : primary.mark[k] <= clock
    /\ backup \in StateManager => \A k \in Key : backup.mark[k] <= clock
    /\ \A p \in Proc : run[p] # None =>
          /\ \A k \in Key : run[p].state.mark[k] <= clock
          /\ run[p].latest <= clock
          /\ run[p].entries \subseteq log
          /\ run[p].cutoff <= cut

\* The scan of r: the watermark is honest for the agents it covers; a
\* transcript that was passed is safe, extracted or refused.
ScanInv(r) ==
    /\ HonestFor(r.state.mark[r.key], r.covered)
    /\ r.watermark \in {0, r.state.mark[r.key]}
    /\ r.state.mark[r.key] # 0 =>
          \A s \in Session \intersect Fragile :
              AgentOf[s] \in r.key => AgentOf[s] \in r.covered \/ Newcomer(s)
    /\ \A e \in log :
          /\ Spoken(e, r.key \ r.agents) /\ \A q \in r.queue : q.session # e.session
          => Safe(e) \/ e \in r.entries \/ (r.skipped /\ e.session \in Fragile)

\* Before the output: what the next watermark speaks for is about to be safe.
OutputInv(r) ==
    \A e \in log :
        /\ Spoken(e, r.key)
        /\ e.ts <= r.state.mark[r.key] \/ e.ts <= r.latest
        => Safe(e) \/ \E d \in r.entries : Overlap(d) = Overlap(e)

HonestInv ==
    /\ primary \in StateManager => \A k \in Key : HonestFor(primary.mark[k], k)
    /\ backup \in StateManager => \A k \in Key : HonestFor(backup.mark[k], k)
    /\ \A p \in Proc : run[p] # None =>
          /\ run[p].phase = "scan" => ScanInv(run[p])
          /\ run[p].phase = "output" => OutputInv(run[p])
          /\ \A k \in Key :
                k # run[p].key \/ run[p].phase \in {"save", "replace"} =>
                    HonestFor(run[p].state.mark[k], k)

\* A command's first step: what it will scan and against what.
LEMMA BeginRunFields ==
    ASSUME TypeOK, NEW p \in Proc, NEW c \in Command, BeginRun(p, c)
    PROVE  /\ c.key \in Key /\ Loadable /\ Loaded \in StateManager
           /\ run'[p].phase = "scan" /\ run'[p].key = c.key /\ run'[p].cutoff = c.cutoff
           /\ run'[p].agents = c.key /\ run'[p].queue = {} /\ run'[p].entries = {}
           /\ run'[p].latest = 0 /\ run'[p].covered = Covered(Loaded, c.key)
           /\ run'[p].watermark \in {0, MigratedMark(Loaded, c.key)}
           /\ run'[p].state.mark =
                 [Loaded.mark EXCEPT ![c.key] = MigratedMark(Loaded, c.key)]
           /\ cut' = Max({cut, c.cutoff}) /\ primary' = Healed
           /\ \A q \in Proc \ {p} : run'[q] = run[q]
           /\ UNCHANGED <<world, backup, Processed, behind>>
<1>1. c.key \in Key /\ Loadable /\ Loaded \in StateManager
  BY CommandType, LoadedType DEF BeginRun, LockState
<1> DEFINE st == [Loaded EXCEPT !.mark[c.key] = MigratedMark(Loaded, c.key)]
           mark == IF c.mode = "incremental" THEN MigratedMark(Loaded, c.key) ELSE 0
<1>2. st.mark = [Loaded.mark EXCEPT ![c.key] = MigratedMark(Loaded, c.key)]
  BY <1>1 DEF StateManager
<1>3. run'[p] = [phase |-> "scan", key |-> c.key, mode |-> c.mode, cutoff |-> c.cutoff,
                 emits |-> c.emits, userOnly |-> c.userOnly,
                 state |-> st, watermark |-> mark, covered |-> Covered(Loaded, c.key),
                 agents |-> c.key, queue |-> {}, entries |-> {}, latest |-> 0,
                 ingested |-> FALSE, skipped |-> FALSE]
      /\ \A q \in Proc \ {p} : run'[q] = run[q]
  BY DEF BeginRun, TypeOK
<1>4. /\ cut' = Max({cut, c.cutoff}) /\ primary' = Healed
      /\ UNCHANGED <<world, backup, Processed, behind>>
  BY DEF BeginRun, results, Processed
<1>5. mark \in {0, MigratedMark(Loaded, c.key)}
  OBVIOUS
<1> HIDE DEF st, mark
<1> QED BY <1>1, <1>2, <1>3, <1>4, <1>5

\* The reset keeps the watermarks it loaded.
LEMMA BeginResetFields ==
    ASSUME TypeOK, NEW p \in Proc, BeginReset(p)
    PROVE  /\ Loadable /\ Loaded \in StateManager
           /\ run'[p].phase = "save" /\ run'[p].entries = {} /\ run'[p].latest = 0
           /\ run'[p].cutoff = 0 /\ run'[p].state.mark = Loaded.mark
           /\ primary' = Healed
           /\ \A q \in Proc \ {p} : run'[q] = run[q]
           /\ UNCHANGED <<world, backup, Processed, history>>
<1>1. Loadable /\ Loaded \in StateManager
  BY LoadedType DEF BeginReset, LockState
<1>2. [Loaded EXCEPT !.exact = {}, !.overlap = {}].mark = Loaded.mark
  BY <1>1 DEF StateManager
<1> QED BY <1>1, <1>2 DEF BeginReset, TypeOK, results, Processed

\* A scan step leaves everything alone but agents, queue, entries and the two
\* counters.
LEMMA ScanFields ==
    ASSUME TypeOK, NEW p \in Proc, run[p] # None,
           Discover(p) \/ Parse(p) \/ Skip(p)
    PROVE  /\ run'[p].key = run[p].key /\ run'[p].covered = run[p].covered
           /\ run'[p].watermark = run[p].watermark /\ run'[p].cutoff = run[p].cutoff
           /\ run'[p].latest = run[p].latest
           /\ UNCHANGED <<world, behind, cut>>
           /\ Discover(p) =>
                LET a == Min(run[p].agents)
                    bound == IF Floor(run[p], a) # 0 THEN Floor(run[p], a) ELSE run[p].cutoff
                IN  /\ a \in run[p].agents /\ run[p].queue = {}
                    /\ run'[p].agents = run[p].agents \ {a}
                    /\ \A u \in Session : AgentOf[u] = a /\ mtime[u] > bound =>
                          [session |-> u, mtime |-> mtime[u]] \in run'[p].queue
                    /\ run'[p].entries = run[p].entries /\ run'[p].skipped = run[p].skipped
           /\ Parse(p) => \E q \in run[p].queue :
                /\ run'[p].agents = run[p].agents /\ run'[p].queue = run[p].queue \ {q}
                /\ run'[p].entries = run[p].entries \union
                     Wanted(run[p], Ingested(run[p], q.session))
                /\ run'[p].skipped = run[p].skipped
                /\ declined' = declined \union
                     (Ingested(run[p], q.session) \ Wanted(run[p], Ingested(run[p], q.session)))
           /\ Skip(p) => \E q \in run[p].queue :
                /\ q.session \in Fragile
                /\ run'[p].agents = run[p].agents /\ run'[p].queue = run[p].queue \ {q}
                /\ run'[p].entries = run[p].entries /\ run'[p].skipped
<1>1. run[p] \in Run
  BY DEF TypeOK
<1>2. UNCHANGED <<world, behind, cut>>
  BY DEF Discover, Parse, Skip, history
<1>3. ASSUME Discover(p)
      PROVE  LET a == Min(run[p].agents)
                 bound == IF Floor(run[p], a) # 0 THEN Floor(run[p], a) ELSE run[p].cutoff
             IN  /\ a \in run[p].agents /\ run[p].queue = {}
                 /\ run' = [run EXCEPT ![p].agents = run[p].agents \ {a},
                      ![p].queue = {[session |-> s, mtime |-> mtime[s]] :
                              s \in {u \in Session : AgentOf[u] = a /\ mtime[u] > bound}}]
  <2>1. run[p].agents \in SUBSET Nat /\ run[p].agents # {} /\ run[p].queue = {}
    BY <1>1, <1>3, AgentsAreNumbered DEF Discover, Run
  <2>2. Min(run[p].agents) \in run[p].agents
    BY <2>1, MinOfNaturals
  <2> QED BY <1>3, <2>1, <2>2 DEF Discover, TypeOK
<1>4. ASSUME Parse(p)
      PROVE  \E q \in run[p].queue :
              /\ run' = [run EXCEPT
                    ![p].queue = @ \ {q},
                    ![p].ingested = TRUE,
                    ![p].entries = @ \union Wanted(run[p], Ingested(run[p], q.session))]
              /\ declined' = declined \union
                    (Ingested(run[p], q.session) \ Wanted(run[p], Ingested(run[p], q.session)))
  BY <1>4, Zenon DEF Parse
<1>5. ASSUME Skip(p)
      PROVE  \E q \in run[p].queue :
              /\ q.session \in Fragile
              /\ run' = [run EXCEPT ![p].queue = @ \ {q}, ![p].skipped = TRUE]
  BY <1>5, Zenon DEF Skip
<1>6. CASE Discover(p)
  <2> DEFINE a == Min(run[p].agents)
             bound == IF Floor(run[p], a) # 0 THEN Floor(run[p], a) ELSE run[p].cutoff
             queue == {[session |-> s, mtime |-> mtime[s]] :
                         s \in {u \in Session : AgentOf[u] = a /\ mtime[u] > bound}}
  <2>1. /\ a \in run[p].agents /\ run[p].queue = {}
        /\ run' = [run EXCEPT ![p].agents = run[p].agents \ {a}, ![p].queue = queue]
    BY <1>3, <1>6
  <2>2. \A u \in Session : AgentOf[u] = a /\ mtime[u] > bound =>
          [session |-> u, mtime |-> mtime[u]] \in queue
    OBVIOUS
  <2> HIDE DEF a, bound, queue
  <2>3. /\ run'[p].agents = run[p].agents \ {a} /\ run'[p].queue = queue
        /\ run'[p].entries = run[p].entries /\ run'[p].skipped = run[p].skipped
        /\ run'[p].key = run[p].key /\ run'[p].covered = run[p].covered
        /\ run'[p].watermark = run[p].watermark /\ run'[p].cutoff = run[p].cutoff
        /\ run'[p].latest = run[p].latest
    BY <1>1, <2>1 DEF Run, TypeOK
  <2>4. ~Parse(p) /\ ~Skip(p)
    BY <2>1 DEF Parse, Skip
  <2> QED BY <1>2, <2>1, <2>2, <2>3, <2>4 DEF a, bound
<1>7. CASE Parse(p)
  <2>1. PICK q \in run[p].queue :
              /\ run' = [run EXCEPT
                    ![p].queue = @ \ {q},
                    ![p].ingested = TRUE,
                    ![p].entries = @ \union Wanted(run[p], Ingested(run[p], q.session))]
              /\ declined' = declined \union
                    (Ingested(run[p], q.session) \ Wanted(run[p], Ingested(run[p], q.session)))
    BY <1>4, <1>7
  <2> DEFINE new == Wanted(run[p], Ingested(run[p], q.session))
  <2>2. run' = [run EXCEPT ![p].queue = @ \ {q}, ![p].ingested = TRUE, ![p].entries = @ \union new]
    BY <2>1
  <2> HIDE DEF new
  <2>3. /\ run'[p].agents = run[p].agents /\ run'[p].queue = run[p].queue \ {q}
        /\ run'[p].entries = run[p].entries \union new /\ run'[p].skipped = run[p].skipped
        /\ run'[p].key = run[p].key /\ run'[p].covered = run[p].covered
        /\ run'[p].watermark = run[p].watermark /\ run'[p].cutoff = run[p].cutoff
        /\ run'[p].latest = run[p].latest
    BY <1>1, <2>2 DEF Run, TypeOK
  <2>4. ~Discover(p)
    BY <2>1 DEF Discover
  <2>5. Skip(p) => run'[p].skipped
    <3>1. ASSUME Skip(p) PROVE run'[p].skipped
      <4>1. PICK z \in run[p].queue :
              run' = [run EXCEPT ![p].queue = @ \ {z}, ![p].skipped = TRUE]
        BY <1>5, <3>1
      <4> QED BY <1>1, <4>1 DEF Run, TypeOK
    <3> QED BY <3>1
  <2>6. Skip(p) => \E z \in run[p].queue :
                /\ z.session \in Fragile
                /\ run'[p].agents = run[p].agents /\ run'[p].queue = run[p].queue \ {z}
                /\ run'[p].entries = run[p].entries
    <3>1. ASSUME Skip(p)
          PROVE  \E z \in run[p].queue :
                   /\ z.session \in Fragile
                   /\ run'[p].agents = run[p].agents /\ run'[p].queue = run[p].queue \ {z}
                   /\ run'[p].entries = run[p].entries
      <4>1. PICK z \in run[p].queue :
              /\ z.session \in Fragile
              /\ run' = [run EXCEPT ![p].queue = @ \ {z}, ![p].skipped = TRUE]
        BY <1>5, <3>1
      <4> QED BY <1>1, <4>1 DEF Run, TypeOK
    <3> QED BY <3>1
  <2> QED BY <1>2, <2>1, <2>3, <2>4, <2>5, <2>6 DEF new
<1>8. CASE Skip(p) /\ ~Parse(p)
  <2>1. PICK q \in run[p].queue :
              /\ q.session \in Fragile
              /\ run' = [run EXCEPT ![p].queue = @ \ {q}, ![p].skipped = TRUE]
    BY <1>5, <1>8
  <2>2. /\ run'[p].agents = run[p].agents /\ run'[p].queue = run[p].queue \ {q}
        /\ run'[p].entries = run[p].entries /\ run'[p].skipped
        /\ run'[p].key = run[p].key /\ run'[p].covered = run[p].covered
        /\ run'[p].watermark = run[p].watermark /\ run'[p].cutoff = run[p].cutoff
        /\ run'[p].latest = run[p].latest
    BY <1>1, <2>1 DEF Run, TypeOK
  <2>3. ~Discover(p)
    BY <2>1 DEF Discover
  <2> QED BY <1>2, <1>8, <2>1, <2>2, <2>3
<1> QED BY <1>6, <1>7, <1>8

\* What is safe stays safe.
LEMMA SafeMonotone ==
    ASSUME NEW e, Safe(e), e.ts \in Time, cut \in Time, cut' \in Time,
           Processed \subseteq Processed', declined \subseteq declined',
           behind \subseteq behind', cut <= cut'
    PROVE  Safe(e)'
BY BoundsType DEF Safe, Handled, Time

\* Histories only grow.
LEMMA HistoriesGrow ==
    ASSUME TypeOK, TypeOK', [Next]_vars
    PROVE  /\ Processed \subseteq Processed' /\ declined \subseteq declined'
           /\ behind \subseteq behind' /\ cut <= cut'
           /\ log \subseteq log' /\ clock <= clock'
           /\ \A e \in Entry : Safe(e) => Safe(e)'
<1>1. cut \in Time /\ cut' \in Time /\ clock \in Time /\ cut <= cut /\ clock <= clock
  BY BoundsType DEF TypeOK, Time
<1>2. ASSUME NEW p \in Proc, NEW c \in Command, BeginRun(p, c)
      PROVE  cut <= cut' /\ UNCHANGED <<Processed, declined, behind, log, clock>>
  <2>1. c.cutoff \in Time /\ cut' = Max({cut, c.cutoff})
    BY <1>2, CommandType DEF BeginRun
  <2>2. cut' >= cut
    BY <1>1, <2>1, MaxOfTwo
  <2> QED BY <1>1, <1>2, <2>2, BoundsType DEF BeginRun, world, results, Processed, Time
<1>3. ASSUME NEW s \in Session, NEW ts \in Time, NEW role \in Role, NEW text \in Text,
             Write(s, ts, role, text)
      PROVE  /\ behind \subseteq behind' /\ log \subseteq log' /\ clock <= clock'
             /\ UNCHANGED <<Processed, declined, cut>>
  BY <1>1, <1>3, BoundsType DEF Write, results, Processed, Time
<1>4. ASSUME NEW p \in Proc, Output(p)
      PROVE  Processed \subseteq Processed' /\ UNCHANGED <<declined, behind, cut, log, clock>>
  BY <1>4 DEF Output, Processed, history, world
<1>5. ASSUME NEW p \in Proc, Discover(p) \/ Parse(p) \/ Skip(p) \/ Dedup(p)
      PROVE  declined \subseteq declined' /\ UNCHANGED <<Processed, behind, cut, log, clock>>
  BY <1>5 DEF Discover, Parse, Skip, Dedup, results, Processed, history, world
<1>6. ASSUME NEW p \in Proc, BeginReset(p) \/ ExitAllSkipped(p) \/ SaveBackup(p) \/ SavePrimary(p) \/ Abort(p)
      PROVE  UNCHANGED <<Processed, declined, behind, cut, log, clock>>
  BY <1>6 DEF BeginReset, ExitAllSkipped, SaveBackup, SavePrimary, Abort, results, Processed, history, world
<1>7. Damage \/ ManualRecovery \/ UNCHANGED vars => UNCHANGED <<Processed, declined, behind, cut, log, clock>>
  BY DEF Damage, ManualRecovery, vars, results, Processed, history, world
<1>8. /\ Processed \subseteq Processed' /\ declined \subseteq declined'
           /\ behind \subseteq behind' /\ cut <= cut'
      /\ log \subseteq log' /\ clock <= clock'
  BY <1>1, <1>2, <1>3, <1>4, <1>5, <1>6, <1>7 DEF Next, Proceed
<1>9. \A e \in Entry : Safe(e) => Safe(e)'
  BY <1>1, <1>8, SafeMonotone DEF Entry
<1> QED BY <1>8, <1>9

\* ClockInv is inductive.
LEMMA ClockInvStep ==
    ASSUME TypeOK, TypeOK', SaveInv, ClockInv, [Next]_vars
    PROVE  ClockInv'
<1> DEFINE Bounded(st) == \A k \in Key : st.mark[k] <= clock
           RunBounded(r) == /\ Bounded(r.state) /\ r.latest <= clock
                            /\ r.entries \subseteq log /\ r.cutoff <= cut
<1>0. /\ clock \in 0..MaxClock /\ clock' \in 0..MaxClock /\ MaxClock \in Nat
      /\ cut \in 0..MaxClock /\ cut' \in 0..MaxClock
  BY BoundsType DEF TypeOK, Time
<1>1. ASSUME NEW p \in Proc, NEW q \in Proc, run[p] # None, q # p
      PROVE  run[q] = None
  BY <1>1 DEF SaveInv
<1>2. ASSUME NEW s \in Session, NEW ts \in Time, NEW role \in Role, NEW text \in Text,
             Write(s, ts, role, text)
      PROVE  ClockInv'
  <2> DEFINE e == [session |-> s, ts |-> ts, role |-> role, text |-> text]
  <2>1. /\ clock' = clock + 1 /\ log' = log \union {e} /\ ts <= clock + 1
        /\ mtime' = [mtime EXCEPT ![s] = clock + 1]
        /\ UNCHANGED <<primary, backup, run, cut>>
    BY <1>0, <1>2 DEF Write, disk, Time
  <2>2. e.ts = ts /\ e.session = s
    OBVIOUS
  <2> HIDE DEF e
  <2>3. \A d \in log : d.session \in Session /\ d.ts \in 0..MaxClock /\ mtime[d.session] \in 0..MaxClock
    BY DEF TypeOK, Entry, Time
  <2>4. \A d \in log' : d.ts <= clock' /\ d.ts <= mtime'[d.session]
    <3>1. \A d \in log : d.ts <= clock' /\ d.ts <= mtime'[d.session]
      BY <1>0, <2>1, <2>3 DEF ClockInv, TypeOK
    <3>2. e.ts <= clock' /\ e.ts <= mtime'[e.session]
      BY <1>0, <2>1, <2>2 DEF TypeOK
    <3> QED BY <2>1, <3>1, <3>2
  <2>5. \A m \in 0..MaxClock : m <= clock => m <= clock'
    BY <1>0, <2>1
  <2>6. \A st \in StateManager : \A k \in Key : st.mark[k] \in 0..MaxClock
    BY DEF StateManager, Time
  <2>7. \A p \in Proc : run[p] # None => run[p].state \in StateManager /\ run[p].latest \in 0..MaxClock
    BY DEF TypeOK, Run, Time
  <2>8. \A p \in Proc : run[p] # None =>
          /\ \A k \in Key : run[p].state.mark[k] <= clock'
          /\ run[p].latest <= clock'
          /\ run[p].entries \subseteq log'
    BY <2>1, <2>5, <2>6, <2>7 DEF ClockInv
  <2> QED BY <2>1, <2>4, <2>5, <2>6, <2>8 DEF ClockInv
<1>3. ASSUME UNCHANGED <<clock, log, mtime>>,
             primary' \in StateManager => Bounded(primary'),
             backup' \in StateManager => Bounded(backup'),
             \A p \in Proc : run'[p] # None =>
               /\ Bounded(run'[p].state) /\ run'[p].latest <= clock
               /\ run'[p].entries \subseteq log /\ run'[p].cutoff <= cut'
      PROVE  ClockInv'
  BY <1>3 DEF ClockInv
<1>4. /\ primary \in StateManager => Bounded(primary)
      /\ backup \in StateManager => Bounded(backup)
      /\ \A p \in Proc : run[p] # None => RunBounded(run[p])
  BY DEF ClockInv
<1>5. Loadable => Loaded \in StateManager /\ Bounded(Loaded)
  <2>1. ASSUME Loadable PROVE Loaded \in StateManager /\ Bounded(Loaded)
    <3>1. Loaded \in StateManager
      BY <2>1, LoadedType
    <3>2. Loaded \in {primary, backup} \/ Loaded = Default
      BY DEF Loaded
    <3>3. Bounded(Default)
      BY <1>0 DEF Default
    <3> QED BY <1>4, <3>1, <3>2, <3>3
  <2> QED BY <2>1
<1>6. Loadable => (Healed \in StateManager => Bounded(Healed))
  BY <1>4 DEF Healed
<1>7. ASSUME NEW p \in Proc, NEW c \in Command, BeginRun(p, c)
      PROVE  ClockInv'
  <2>1. /\ c.key \in Key /\ Loadable /\ Loaded \in StateManager
        /\ run'[p].cutoff = c.cutoff /\ run'[p].entries = {} /\ run'[p].latest = 0
        /\ run'[p].state.mark = [Loaded.mark EXCEPT ![c.key] = MigratedMark(Loaded, c.key)]
        /\ cut' = Max({cut, c.cutoff}) /\ primary' = Healed
        /\ \A q \in Proc \ {p} : run'[q] = run[q]
        /\ UNCHANGED <<world, backup>>
    BY <1>7, BeginRunFields
  <2>2. MigratedMark(Loaded, c.key) <= clock
    <3>1. \/ MigratedMark(Loaded, c.key) = Loaded.mark[c.key]
          \/ \E a \in AliasesOf[c.key] : MigratedMark(Loaded, c.key) = Loaded.mark[a]
      BY <2>1, MigratedMarkType
    <3>2. AliasesOf[c.key] \subseteq Key
      BY <2>1, KeyType
    <3> QED BY <1>5, <2>1, <3>1, <3>2
  <2>3. Bounded(run'[p].state)
    <3>1. Loaded.mark \in [Key -> Time] /\ Bounded(Loaded)
      BY <1>5, <2>1 DEF StateManager
    <3> QED BY <2>1, <2>2, <3>1
  <2>4. c.cutoff <= cut'
    <3>1. c.cutoff \in Time /\ cut \in Time
      BY <1>0, CommandType DEF Time
    <3>2. cut' >= c.cutoff
      BY <2>1, <3>1, MaxOfTwo
    <3> QED BY <1>0, <3>1, <3>2 DEF Time
  <2>5. \A q \in Proc \ {p} : run'[q] = None
    BY <1>7, <2>1, NoneIsNew DEF SaveInv, BeginRun, LockState
  <2> HIDE DEF Bounded
  <2> QED BY <1>0, <1>3, <1>4, <1>6, <2>1, <2>3, <2>4, <2>5 DEF world
<1>8. ASSUME NEW p \in Proc, BeginReset(p)
      PROVE  ClockInv'
  <2>1. /\ Loadable /\ Loaded \in StateManager
        /\ run'[p].entries = {} /\ run'[p].latest = 0
        /\ run'[p].cutoff = 0 /\ run'[p].state.mark = Loaded.mark
        /\ primary' = Healed
        /\ \A q \in Proc \ {p} : run'[q] = run[q]
        /\ UNCHANGED <<world, backup, Processed, history>>
    BY <1>8, BeginResetFields
  <2>2. Bounded(run'[p].state)
    BY <1>5, <2>1
  <2>3. \A q \in Proc \ {p} : run'[q] = None
    BY <1>8, <2>1, NoneIsNew DEF SaveInv, BeginReset, LockState
  <2> HIDE DEF Bounded
  <2> QED BY <1>0, <1>3, <1>4, <1>6, <2>1, <2>2, <2>3 DEF world, history
<1>9. ASSUME NEW p \in Proc, run[p] # None, Discover(p) \/ Parse(p) \/ Skip(p)
      PROVE  ClockInv'
  <2>1. /\ run'[p].state = run[p].state
        /\ \A q \in Proc \ {p} : run'[q] = None
        /\ UNCHANGED <<primary, backup>>
    BY <1>1, <1>9, ScanKeepsState
  <2>2. /\ run'[p].cutoff = run[p].cutoff /\ run'[p].latest = run[p].latest
        /\ UNCHANGED <<clock, log, mtime, cut>>
    BY <1>9, ScanFields DEF world
  <2>3. run'[p].entries \subseteq log
    BY <1>4, <1>9, ScanFields DEF Wanted, Ingested
  <2> HIDE DEF Bounded
  <2> QED BY <1>3, <1>4, <1>9, <2>1, <2>2, <2>3
<1>10. ASSUME NEW p \in Proc, run[p] # None, Dedup(p)
       PROVE  ClockInv'
  <2>1. PICK kept \in Survivors(run[p]) :
          /\ kept \subseteq Entry
          /\ run'[p].entries = kept
          /\ run'[p].state = IF run[p].mode = "incremental"
                             THEN Marked(run[p].state, kept) ELSE run[p].state
    BY <1>10, DedupStep
  <2>2. /\ run[p] \in Run /\ run'[p].latest = RawExtractLatest(run[p])
        /\ UNCHANGED <<primary, backup, log, clock, cut>>
        /\ \A q \in Proc \ {p} : run'[q] = None
    BY <1>1, <1>10, DedupStep DEF history
  <2>3. UNCHANGED mtime /\ run'[p].cutoff = run[p].cutoff
    BY <1>10, DedupStep
  <2>4. run[p].state \in StateManager /\ run[p].entries \subseteq Entry
    BY <2>2 DEF Run
  <2>5. run'[p].state.mark = run[p].state.mark
    BY <2>1, <2>4, MarkedType
  <2>6. kept \subseteq log
    BY <1>4, <1>10, SurvivorsType
  <2>7. RawExtractLatest(run[p]) <= clock
    <3>1. \/ RawExtractLatest(run[p]) = 0
          \/ \E e \in run[p].entries : RawExtractLatest(run[p]) = e.ts
      BY <2>4, RawExtractLatestType
    <3> QED BY <1>0, <1>4, <1>10, <3>1 DEF ClockInv
  <2>8. Bounded(run'[p].state)
    BY <1>4, <1>10, <2>5
  <2> HIDE DEF Bounded
  <2> QED BY <1>3, <1>4, <1>10, <2>1, <2>2, <2>3, <2>6, <2>7, <2>8
<1>11. ASSUME NEW p \in Proc, run[p] # None, Output(p)
       PROVE  ClockInv'
  <2>1. /\ run[p] \in Run /\ run[p].key \in Key
        /\ run'[p].state.mark = [run[p].state.mark EXCEPT
              ![run[p].key] = Max({run[p].state.mark[run[p].key], run[p].latest})]
        /\ \A q \in Proc \ {p} : run'[q] = None
        /\ UNCHANGED <<primary, backup, log, clock, cut>>
    BY <1>1, <1>11, OutputStep DEF history
  <2>2. run[p].state.mark \in [Key -> Time] /\ run[p].latest \in Time
    BY <2>1 DEF Run, StateManager
  <2>3. UNCHANGED mtime /\ run'[p].cutoff = run[p].cutoff /\ run'[p].latest = run[p].latest
        /\ run'[p].entries = run[p].entries
    <3>1. PICK st : run' = [run EXCEPT ![p].phase = "save", ![p].state = st]
      <4>1. PICK exact, overlap :
              run' = [run EXCEPT
                  ![p].phase = "save",
                  ![p].state = [mark |-> [Marked(run[p].state, Reportable(run[p])).mark EXCEPT ![run[p].key] = Max({@, run[p].latest})],
                                exact |-> exact, overlap |-> overlap]]
        BY <1>11, Zenon DEF Output
      <4> QED BY <4>1, Zenon
    <3> QED BY <1>11, <2>1, <3>1 DEF Output, world, Run, TypeOK
  <2>4. Max({run[p].state.mark[run[p].key], run[p].latest}) \in {run[p].state.mark[run[p].key], run[p].latest}
    BY <2>1, <2>2, MaxOfTwo
  <2>5. Max({run[p].state.mark[run[p].key], run[p].latest}) <= clock
    BY <1>4, <1>11, <2>1, <2>4
  <2>6. Bounded(run'[p].state)
    <3>1. Bounded(run[p].state)
      BY <1>4, <1>11
    <3> QED BY <2>1, <2>2, <2>5, <3>1
  <2> HIDE DEF Bounded
  <2> QED BY <1>3, <1>4, <1>11, <2>1, <2>3, <2>6
<1>12. ASSUME NEW p \in Proc, run[p] # None, SaveBackup(p)
       PROVE  ClockInv'
  <2>1. run[p] \in Run
    BY <1>12 DEF TypeOK
  <2>2. /\ run'[p].state = run[p].state /\ run'[p].latest = run[p].latest
        /\ run'[p].entries = run[p].entries /\ run'[p].cutoff = run[p].cutoff
        /\ backup' \in {primary, backup} /\ UNCHANGED <<primary, clock, log, mtime, cut>>
        /\ \A q \in Proc \ {p} : run'[q] = None
    BY <1>1, <1>12, <2>1 DEF SaveBackup, TypeOK, Run, world, history
  <2> HIDE DEF Bounded
  <2> QED BY <1>3, <1>4, <1>12, <2>2
<1>13. ASSUME NEW p \in Proc, run[p] # None, ExitAllSkipped(p) \/ SavePrimary(p) \/ Abort(p)
       PROVE  ClockInv'
  <2>1. \A q \in Proc : run'[q] = None
    BY <1>1, <1>13 DEF ExitAllSkipped, SavePrimary, Abort, TypeOK
  <2>2. UNCHANGED <<backup, clock, log, mtime>> /\ primary' \in {primary, run[p].state}
    BY <1>13 DEF ExitAllSkipped, SavePrimary, Abort, disk, world
  <2> HIDE DEF Bounded
  <2> QED BY <1>3, <1>4, <1>13, <2>1, <2>2
<1>14. CASE Damage \/ ManualRecovery
  <2>1. /\ primary' \in {None, Malformed}
        /\ UNCHANGED <<backup, clock, log, mtime, run, cut>>
    BY <1>14 DEF Damage, ManualRecovery, world, history
  <2> HIDE DEF Bounded
  <2> QED BY <1>3, <1>4, <2>1, NoneIsNew
<1>15. CASE UNCHANGED vars
  BY <1>15 DEF ClockInv, vars, disk, world, history
<1> QED
  <2>1. ASSUME NEW p \in Proc, Proceed(p) PROVE ClockInv'
    BY <1>9, <1>10, <1>11, <1>12, <1>13, <2>1 DEF Proceed
  <2>2. ASSUME NEW p \in Proc, Skip(p), run[p] # None PROVE ClockInv'
    BY <1>9, <2>2
  <2>3. ASSUME NEW p \in Proc, Abort(p) PROVE ClockInv'
    BY <1>13, <2>3 DEF Abort
  <2> QED BY <1>2, <1>7, <1>8, <1>14, <1>15, <2>1, <2>2, <2>3 DEF Next

\* Only the agents write transcripts.
LEMMA OnlyWritesLog ==
    ASSUME [Next]_vars
    PROVE  (\E s \in Session, ts \in Time, role \in Role, text \in Text : Write(s, ts, role, text)) \/ log' = log
<1>1. ASSUME NEW p \in Proc, BeginReset(p) \/ \E c \in Command : BeginRun(p, c)
      PROVE  log' = log
  BY <1>1 DEF BeginReset, BeginRun, world
<1>2. ASSUME NEW p \in Proc, Discover(p) \/ Parse(p) \/ Skip(p) \/ Dedup(p) \/ Output(p)
      PROVE  log' = log
  BY <1>2 DEF Discover, Parse, Skip, Dedup, Output, world
<1>3. ASSUME NEW p \in Proc, ExitAllSkipped(p) \/ SaveBackup(p) \/ SavePrimary(p) \/ Abort(p)
      PROVE  log' = log
  BY <1>3 DEF ExitAllSkipped, SaveBackup, SavePrimary, Abort, world
<1>4. Damage \/ ManualRecovery \/ UNCHANGED vars => log' = log
  BY DEF Damage, ManualRecovery, world, vars
<1> QED BY <1>1, <1>2, <1>3, <1>4 DEF Next, Proceed

\* A step that writes no message keeps watermarks honest; a message is newer
\* than every watermark.
LEMMA HonestForStep ==
    ASSUME TypeOK, TypeOK', ClockInv, [Next]_vars,
           NEW mark \in Time, mark <= clock, NEW A, HonestFor(mark, A)
    PROVE  HonestFor(mark, A)'
<1>1. \A e \in Entry : Safe(e) => Safe(e)'
  BY HistoriesGrow
<1>2. log' \subseteq Entry
  BY DEF TypeOK
<1>3. ASSUME NEW s \in Session, NEW ts \in Time, NEW role \in Role, NEW text \in Text,
             Write(s, ts, role, text)
      PROVE  \A e \in log' : e \in log \/ (AgentOf[e.session] \notin FullWindow => e.ts = clock + 1)
  BY <1>3 DEF Write
<1>4. \A e \in log' : e \in log \/ (AgentOf[e.session] \notin FullWindow => e.ts = clock + 1)
  <2>1. (\E s \in Session, ts \in Time, role \in Role, text \in Text : Write(s, ts, role, text)) \/ log' = log
    BY OnlyWritesLog
  <2> QED BY <1>3, <2>1
<1>5. \A e \in log' : Spoken(e, A) /\ e.ts <= mark => e \in log
  <2>1. clock \in 0..MaxClock /\ mark \in 0..MaxClock /\ MaxClock \in Nat
    BY BoundsType DEF TypeOK, Time
  <2> QED BY <1>4, <2>1 DEF Spoken
<1> QED BY <1>1, <1>2, <1>5 DEF HonestFor, Spoken

\* An untouched run keeps its part of the invariant: a message that comes to a
\* transcript it has passed is recorded as such.
LEMMA IdleRunStep ==
    ASSUME TypeOK, TypeOK', ClockInv, [Next]_vars, HonestInv,
           NEW p \in Proc, run[p] # None, run'[p] = run[p]
    PROVE  /\ run[p].phase = "scan" => ScanInv(run[p])'
           /\ run[p].phase = "output" => OutputInv(run[p])'
           /\ \A k \in Key :
                k # run[p].key \/ run[p].phase \in {"save", "replace"} =>
                    HonestFor(run[p].state.mark[k], k)'
<1> DEFINE r == run[p]
<1>1. /\ r \in Run /\ r.state \in StateManager /\ r.latest \in Time
      /\ \A k \in Key : r.state.mark[k] \in Time /\ r.state.mark[k] <= clock
      /\ r.latest <= clock
  BY DEF TypeOK, Run, StateManager, ClockInv
<1>2. \A e \in Entry : Safe(e) => Safe(e)'
  BY HistoriesGrow
<1>3. log' \subseteq Entry /\ clock \in 0..MaxClock /\ MaxClock \in Nat
  BY BoundsType DEF TypeOK, Time
<1>4. ASSUME NEW e \in log', e \notin log
      PROVE  /\ AgentOf[e.session] \notin FullWindow => e.ts = clock + 1
             /\ Passed(r, e.session) => e \in behind'
  <2>1. (\E s \in Session, ts \in Time, role \in Role, text \in Text : Write(s, ts, role, text)) \/ log' = log
    BY OnlyWritesLog
  <2>2. PICK s \in Session, ts \in Time, role \in Role, text \in Text : Write(s, ts, role, text)
    BY <1>4, <2>1
  <2>3. e = [session |-> s, ts |-> ts, role |-> role, text |-> text]
    BY <1>4, <2>2 DEF Write
  <2>4. behind' = IF \E q \in Proc : Passed(run[q], s) THEN behind \union {e} ELSE behind
    BY <2>2, <2>3 DEF Write
  <2>5. AgentOf[s] \notin FullWindow => ts = clock + 1
    BY <2>2 DEF Write
  <2>6. e.session = s /\ e.ts = ts
    BY <2>3
  <2> QED BY <2>4, <2>5, <2>6
<1>5. ASSUME NEW k \in Key, k # r.key \/ r.phase \in {"save", "replace"}
      PROVE  HonestFor(r.state.mark[k], k)'
  <2>1. HonestFor(r.state.mark[k], k)
    BY <1>5 DEF HonestInv
  <2>2. HonestFor(r.state.mark[k], k)'
    <3> DEFINE m == r.state.mark[k]
    <3>1. m \in Time /\ m <= clock /\ HonestFor(m, k) /\ m' = m
      BY <1>1, <2>1
    <3> HIDE DEF m
    <3>2. ASSUME NEW e \in log', Spoken(e, k), e.ts <= m PROVE Safe(e)'
      <4>1. e \in log
        BY <1>3, <1>4, <3>1, <3>2 DEF Spoken, Time
      <4> QED BY <1>2, <1>3, <3>1, <3>2, <4>1 DEF HonestFor
    <3> QED BY <3>1, <3>2 DEF HonestFor, Spoken, m
  <2> QED BY <2>2
<1>6. ASSUME r.phase \in {"scan", "output"} PROVE r.key \in Key
  BY <1>6 DEF TypeOK
<1>7. ASSUME NEW m \in Time, m <= clock, NEW A, NEW e \in log', Spoken(e, A), e.ts <= m
      PROVE  e \in log
  BY <1>3, <1>4, <1>7 DEF Spoken, Time
<1>8. ASSUME r.phase = "output" PROVE OutputInv(r)'
  <2>1. OutputInv(r)
    BY <1>8 DEF HonestInv
  <2> DEFINE m == r.state.mark[r.key]
  <2>2. m \in Time /\ m <= clock
    BY <1>1, <1>6, <1>8
  <2>3. ASSUME NEW e \in log', Spoken(e, r.key), e.ts <= m \/ e.ts <= r.latest
        PROVE  Safe(e)' \/ \E d \in r.entries : Overlap(d) = Overlap(e)
    <3>1. e \in log
      <4> HIDE DEF m
      <4> QED BY <1>1, <1>7, <2>2, <2>3
    <3>2. Safe(e) \/ \E d \in r.entries : Overlap(d) = Overlap(e)
      BY <2>1, <2>3, <3>1 DEF OutputInv
    <3> QED BY <1>2, <1>3, <3>2
  <2> QED BY <2>3 DEF OutputInv, Spoken
<1>9. ASSUME r.phase = "scan" PROVE ScanInv(r)'
  <2>1. ScanInv(r)
    BY <1>9 DEF HonestInv
  <2> DEFINE m == r.state.mark[r.key]
  <2>2. m \in Time /\ m <= clock
    BY <1>1, <1>6, <1>9
  <2>3. ASSUME NEW e \in log', Spoken(e, r.covered), e.ts <= m PROVE Safe(e)'
    <3>1. e \in log
      <4> HIDE DEF m
      <4> QED BY <1>1, <1>7, <2>2, <2>3
    <3> QED BY <1>2, <1>3, <2>1, <2>3, <3>1 DEF ScanInv, HonestFor
  <2>4. ASSUME NEW e \in log', Spoken(e, r.key \ r.agents), \A q \in r.queue : q.session # e.session
        PROVE  Safe(e)' \/ e \in r.entries \/ (r.skipped /\ e.session \in Fragile)
    <3>1. CASE e \in log
      BY <1>2, <1>3, <2>1, <2>4, <3>1 DEF ScanInv
    <3>2. CASE e \notin log
      <4>1. Passed(r, e.session)
        BY <1>9, <2>4 DEF Passed, Spoken
      <4> QED BY <1>4, <3>2, <4>1 DEF Safe
    <3> QED BY <3>1, <3>2
  <2> QED BY <2>1, <2>3, <2>4 DEF ScanInv, HonestFor, Spoken
<1> QED BY <1>5, <1>8, <1>9

\* HonestInv is inductive.
LEMMA HonestInvStep ==
    ASSUME UpgradedInOrder, TypeOK, TypeOK', SaveInv, ClockInv, HonestInv, [Next]_vars
    PROVE  HonestInv'
<1> DEFINE Honest(st) == \A k \in Key : HonestFor(st.mark[k], k)
           HonestNext(st) == \A k \in Key : \A e \in log' :
                                Spoken(e, k) /\ e.ts <= st.mark[k] => Safe(e)'
           RunNext(p) == /\ run'[p].phase = "scan" => ScanInv(run[p])'
                         /\ run'[p].phase = "output" => OutputInv(run[p])'
                         /\ \A k \in Key :
                              k # run'[p].key \/ run'[p].phase \in {"save", "replace"} =>
                                \A e \in log' : Spoken(e, k) /\ e.ts <= run'[p].state.mark[k] => Safe(e)'
<1>1. ASSUME NEW p \in Proc, NEW q \in Proc, run[p] # None, q # p
      PROVE  run[q] = None
  BY <1>1 DEF SaveInv
<1>2. \A e \in Entry : Safe(e) => Safe(e)'
  BY HistoriesGrow
<1>3. log \subseteq Entry /\ MaxClock \in Nat /\ \A e \in Entry : e.ts \in 1..MaxClock
  BY BoundsType DEF TypeOK, Entry, Time
<1>4. ASSUME NEW m \in Time, m <= clock, NEW A, HonestFor(m, A)
      PROVE  \A e \in log' : Spoken(e, A) /\ e.ts <= m => Safe(e)'
  <2>1. HonestFor(m, A)'
    BY <1>4, HonestForStep
  <2> QED BY <2>1 DEF HonestFor, Spoken
<1>5. ASSUME NEW st \in StateManager, \A k \in Key : st.mark[k] <= clock, Honest(st)
      PROVE  HonestNext(st)
  BY <1>4, <1>5 DEF StateManager
<1>6. /\ primary \in StateManager => Honest(primary) /\ HonestNext(primary)
      /\ backup \in StateManager => Honest(backup) /\ HonestNext(backup)
  <2>1. primary \in StateManager => Honest(primary) /\ \A k \in Key : primary.mark[k] <= clock
    BY DEF HonestInv, ClockInv
  <2>2. backup \in StateManager => Honest(backup) /\ \A k \in Key : backup.mark[k] <= clock
    BY DEF HonestInv, ClockInv
  <2> HIDE DEF Honest, HonestNext
  <2> QED BY <1>5, <2>1, <2>2
<1>7. ASSUME primary' \in StateManager => HonestNext(primary'),
             backup' \in StateManager => HonestNext(backup'),
             \A p \in Proc : run'[p] # None => RunNext(p)
      PROVE  HonestInv'
  BY <1>7 DEF HonestInv, HonestFor, Spoken
<1>8. Loadable => /\ Loaded \in StateManager /\ Honest(Loaded)
                  /\ \A k \in Key : Loaded.mark[k] <= clock
                  /\ Healed \in StateManager => HonestNext(Healed)
  <2>1. ASSUME Loadable
        PROVE  /\ Loaded \in StateManager /\ Honest(Loaded)
               /\ \A k \in Key : Loaded.mark[k] <= clock
               /\ Healed \in StateManager => HonestNext(Healed)
    <3>1. Loaded \in StateManager
      BY <2>1, LoadedType
    <3>2. Loaded \in {primary, backup} \/ Loaded = Default
      BY DEF Loaded
    <3>3. Honest(Default) /\ \A k \in Key : Default.mark[k] <= clock
      <4>1. \A k \in Key : Default.mark[k] = 0
        BY DEF Default
      <4>2. \A k \in Key : HonestFor(Default.mark[k], k)
        BY <1>3, <4>1 DEF HonestFor
      <4>3. 0 <= clock
        BY BoundsType DEF TypeOK, Time
      <4> QED BY <4>1, <4>2, <4>3
    <3>4. /\ primary \in StateManager => \A k \in Key : primary.mark[k] <= clock
          /\ backup \in StateManager => \A k \in Key : backup.mark[k] <= clock
      BY DEF ClockInv
    <3>5. Healed \in {primary, backup}
      BY DEF Healed
    <3> HIDE DEF Honest, HonestNext
    <3> QED BY <1>6, <3>1, <3>2, <3>3, <3>4, <3>5
  <2> QED BY <2>1
<1>8o. Loadable => \A k \in Key : \A a, b \in AliasesOf[k] :
             0 < Loaded.mark[b] /\ Loaded.mark[b] < Loaded.mark[a] => b \subseteq a
  <2> SUFFICES ASSUME Loadable, NEW k \in Key, NEW a \in AliasesOf[k], NEW b \in AliasesOf[k],
                      0 < Loaded.mark[b], Loaded.mark[b] < Loaded.mark[a]
               PROVE  b \subseteq a
    OBVIOUS
  <2>1. CASE Loaded = Default
    <3>1. a \in Key /\ b \in Key
      BY KeyType
    <3> QED BY <2>1, <3>1 DEF Default
  <2>2. CASE Loaded # Default
    <3>1. Loaded \in {primary, backup} \ {None, Malformed}
      BY <1>8, <2>2, NoneIsNew DEF Loaded
    <3> QED BY <3>1 DEF UpgradedInOrder
  <2> QED BY <2>1, <2>2
<1>9. CASE UNCHANGED run /\ backup' = backup /\ primary' \in {primary, None, Malformed}
  <2>1. ASSUME NEW p \in Proc, run'[p] # None PROVE RunNext(p)
    <3>1. /\ run[p] # None /\ run'[p] = run[p]
      BY <1>9, <2>1
    <3>2. /\ run[p].phase = "scan" => ScanInv(run[p])'
          /\ run[p].phase = "output" => OutputInv(run[p])'
          /\ \A k \in Key :
               k # run[p].key \/ run[p].phase \in {"save", "replace"} =>
                   HonestFor(run[p].state.mark[k], k)'
      BY <3>1, IdleRunStep
    <3> QED BY <3>1, <3>2 DEF HonestFor, Spoken
  <2> HIDE DEF HonestNext, RunNext
  <2> QED BY <1>6, <1>7, <1>9, <2>1, NoneIsNew
<1>10. ASSUME NEW p \in Proc, NEW c \in Command, BeginRun(p, c)
       PROVE  HonestInv'
  <2> DEFINE st == Loaded
             m == MigratedMark(st, c.key)
  <2>1. /\ c.key \in Key /\ Loadable /\ Loaded \in StateManager
        /\ run'[p].phase = "scan" /\ run'[p].key = c.key
        /\ run'[p].agents = c.key /\ run'[p].covered = Covered(Loaded, c.key)
        /\ run'[p].watermark \in {0, m}
        /\ run'[p].state.mark = [Loaded.mark EXCEPT ![c.key] = m]
        /\ primary' = Healed
        /\ \A q \in Proc \ {p} : run'[q] = run[q]
        /\ UNCHANGED <<world, backup>>
    BY <1>10, BeginRunFields
  <2>2. /\ st \in StateManager /\ Honest(st) /\ st.mark \in [Key -> Time]
        /\ \A k \in Key : st.mark[k] <= clock
    BY <1>8, <2>1 DEF StateManager
  <2>3. /\ m \in Time
        /\ \/ m = st.mark[c.key]
           \/ /\ st.mark[c.key] = 0
              /\ \E a \in AliasesOf[c.key] : m = st.mark[a]
    BY <2>1, MigratedMarkType
  <2>4. AliasesOf[c.key] \subseteq Key
    BY <2>1, KeyType
  <2>4o. \A a, b \in AliasesOf[c.key] :
            0 < st.mark[b] /\ st.mark[b] < st.mark[a] => b \subseteq a
    BY <1>8o, <2>1
  <2> HIDE DEF st, m
  <2>5. HonestFor(m, Covered(st, c.key)) /\ m <= clock
    <3>1. CASE st.mark[c.key] # 0
      BY <2>1, <2>2, <2>3, <3>1 DEF Covered
    <3>2. CASE st.mark[c.key] = 0 /\ m = 0
      <4>1. 0 <= clock
        BY BoundsType DEF TypeOK, Time
      <4> QED BY <1>3, <3>2, <4>1 DEF HonestFor
    <3>3. CASE st.mark[c.key] = 0 /\ m # 0
      <4>1. PICK a \in AliasesOf[c.key] : m = st.mark[a]
        BY <2>3, <3>3
      <4>2. ASSUME NEW b \in AliasesOf[c.key], st.mark[b] # 0
            PROVE  HonestFor(m, b)
        <5>1. st.mark[b] \in Nat /\ m \in Nat /\ st.mark[b] <= m
          BY <2>1, <2>2, <2>3, <2>4, <4>2, <3>3, NewestAlias, BoundsType DEF Time, m
        <5>2. CASE st.mark[b] = m
          BY <2>2, <2>4, <5>2
        <5>3. CASE st.mark[b] < m
          <6>1. b \subseteq a
            BY <2>1, <2>4o, <4>1, <4>2, <5>1, <5>3
          <6> QED BY <2>2, <2>4, <4>1, <6>1 DEF HonestFor, Spoken
        <5> QED BY <5>1, <5>2, <5>3
      <4>3. Covered(st, c.key) = UNION {b \in AliasesOf[c.key] : st.mark[b] # 0}
        BY <3>3 DEF Covered
      <4> QED BY <2>2, <2>4, <4>1, <4>2, <4>3 DEF HonestFor, Spoken
    <3> QED BY <3>1, <3>2, <3>3
  <2>6. ASSUME m # 0, NEW s \in Session \intersect Fragile, AgentOf[s] \in c.key
        PROVE  AgentOf[s] \in Covered(st, c.key) \/ Newcomer(s)
    <3>1. CASE st.mark[c.key] # 0
      BY <2>6, <3>1 DEF Covered
    <3>2. CASE st.mark[c.key] = 0
      <4>1. PICK a \in AliasesOf[c.key] : m = st.mark[a]
        BY <2>3, <2>6, <3>2
      <4>2. AgentOf[s] \in a \/ Newcomer(s)
        BY <2>1, <2>6, <4>1 DEF Newcomer
      <4> QED BY <2>6, <3>2, <4>1, <4>2 DEF Covered
    <3> QED BY <3>1, <3>2
  <2>7. run'[p].state.mark[c.key] = m /\ \A k \in Key \ {c.key} : run'[p].state.mark[k] = st.mark[k]
    BY <2>1, <2>2 DEF st
  <2>8. \A e \in log' : Spoken(e, Covered(st, c.key)) /\ e.ts <= m => Safe(e)'
    BY <1>4, <2>3, <2>5
  <2>9. ScanInv(run[p])'
    <3>1. run'[p].covered = Covered(st, c.key) /\ run'[p].key \ run'[p].agents = {}
      BY <2>1 DEF st
    <3>2. \A e \in log' : ~Spoken(e, run'[p].key \ run'[p].agents)
      BY <3>1 DEF Spoken
    <3> QED BY <2>1, <2>6, <2>7, <2>8, <3>1, <3>2 DEF ScanInv, HonestFor, Spoken
  <2>10. HonestNext(st)
    BY <1>5, <2>2
  <2>11. RunNext(p)
    BY <2>1, <2>7, <2>9, <2>10
  <2>12. \A q \in Proc \ {p} : run'[q] = None
    BY <1>10, <2>1, NoneIsNew DEF SaveInv, BeginRun, LockState
  <2> HIDE DEF HonestNext, RunNext
  <2> QED BY <1>6, <1>7, <1>8, <2>1, <2>11, <2>12
<1>11. ASSUME NEW p \in Proc, BeginReset(p)
       PROVE  HonestInv'
  <2>1. /\ Loadable /\ Loaded \in StateManager
        /\ run'[p].phase = "save" /\ run'[p].state.mark = Loaded.mark
        /\ primary' = Healed
        /\ \A q \in Proc \ {p} : run'[q] = run[q]
        /\ UNCHANGED <<world, backup, Processed, history>>
    BY <1>11, BeginResetFields
  <2>2. HonestNext(Loaded)
    BY <1>5, <1>8, <2>1
  <2>3. RunNext(p)
    BY <2>1, <2>2
  <2>4. \A q \in Proc \ {p} : run'[q] = None
    BY <1>11, <2>1, NoneIsNew DEF SaveInv, BeginReset, LockState
  <2> HIDE DEF HonestNext, RunNext
  <2> QED BY <1>6, <1>7, <1>8, <2>1, <2>3, <2>4
<1>12. ASSUME NEW p \in Proc, run[p] # None, Discover(p) \/ Parse(p) \/ Skip(p)
       PROVE  HonestInv'
  <2> DEFINE r == run[p]
             m == r.state.mark[r.key]
  <2>1. /\ r \in Run /\ r.phase = "scan"
        /\ run'[p].state = r.state /\ run'[p].phase = "scan"
        /\ \A q \in Proc \ {p} : run'[q] = None
        /\ UNCHANGED <<primary, backup>>
    BY <1>1, <1>12, ScanKeepsState
  <2>2. /\ run'[p].key = r.key /\ run'[p].covered = r.covered
        /\ run'[p].watermark = r.watermark
        /\ UNCHANGED <<clock, log, mtime>>
    BY <1>12, ScanFields DEF world
  <2>3. /\ ScanInv(r) /\ r.key \in Key /\ r.cutoff <= cut
        /\ \A k \in Key : r.state.mark[k] \in Time /\ r.state.mark[k] <= clock
        /\ \A k \in Key : k # r.key => HonestFor(r.state.mark[k], k)
        /\ r.cutoff \in 0..MaxClock /\ cut \in 0..MaxClock
    BY <1>12, <2>1 DEF HonestInv, ClockInv, TypeOK, Run, StateManager, Time
  <2>4. \A k \in Key : k # r.key =>
          \A e \in log' : Spoken(e, k) /\ e.ts <= r.state.mark[k] => Safe(e)'
    BY <1>4, <2>3
  <2>5. \A e \in log' : Spoken(e, r.covered) /\ e.ts <= m => Safe(e)'
    BY <1>4, <2>3 DEF ScanInv
  <2>6. \A e \in log : e.session \in Session /\ mtime[e.session] \in 0..MaxClock /\ e.ts <= mtime[e.session]
    BY DEF TypeOK, Entry, Time, ClockInv
  <2>7. ASSUME NEW e \in log, Spoken(e, r.key), e.ts <= Floor(r, AgentOf[e.session]) \/ e.ts <= r.cutoff
        PROVE  Safe(e)
    <3>1. CASE e.ts <= r.cutoff
      BY <1>3, <2>3, <2>7, <3>1 DEF Safe
    <3>2. CASE e.ts <= Floor(r, AgentOf[e.session])
      <4>1. Floor(r, AgentOf[e.session]) # 0
        BY <1>3, <2>7, <3>2
      <4>2. AgentOf[e.session] \in r.covered /\ Floor(r, AgentOf[e.session]) = m
        BY <2>3, <4>1 DEF Floor, ScanInv
      <4> QED BY <2>3, <2>7, <3>2, <4>2 DEF ScanInv, HonestFor, Spoken
    <3> QED BY <2>7, <3>1, <3>2
  <2>8. ASSUME NEW e \in log, Spoken(e, r.key \ run'[p].agents), \A q \in run'[p].queue : q.session # e.session
        PROVE  Safe(e) \/ e \in declined' \/ e \in run'[p].entries \/ (run'[p].skipped /\ e.session \in Fragile)
    <3>1. Spoken(e, r.key)
      BY <2>8 DEF Spoken
    <3>2. CASE Discover(p)
      <4> DEFINE a == Min(r.agents)
                 bound == IF Floor(r, a) # 0 THEN Floor(r, a) ELSE r.cutoff
      <4>1. /\ r.queue = {} /\ run'[p].agents = r.agents \ {a}
            /\ \A u \in Session : AgentOf[u] = a /\ mtime[u] > bound =>
                  [session |-> u, mtime |-> mtime[u]] \in run'[p].queue
            /\ run'[p].entries = r.entries /\ run'[p].skipped = r.skipped
        BY <1>12, <3>2, ScanFields
      <4> HIDE DEF a
      <4>2. CASE AgentOf[e.session] # a
        <5>1. Spoken(e, r.key \ r.agents)
          BY <2>8, <4>1, <4>2 DEF Spoken
        <5> QED BY <2>3, <4>1, <5>1 DEF ScanInv
      <4>3. CASE AgentOf[e.session] = a
        <5>1. ~(mtime[e.session] > bound)
          <6>1. [session |-> e.session, mtime |-> mtime[e.session]].session = e.session
            OBVIOUS
          <6> HIDE DEF bound
          <6> QED BY <2>6, <2>8, <4>1, <4>3, <6>1
        <5>2. bound \in 0..MaxClock
          BY <2>1, <2>3, <1>3 DEF Floor, Run, Time
        <5>3. e.ts <= bound
          <6> HIDE DEF bound
          <6> QED BY <1>3, <2>6, <5>1, <5>2
        <5> QED BY <2>7, <3>1, <4>3, <5>3
      <4> QED BY <4>2, <4>3
    <3>3. CASE Parse(p)
      <4>1. PICK q \in r.queue :
                /\ run'[p].agents = r.agents /\ run'[p].queue = r.queue \ {q}
                /\ run'[p].entries = r.entries \union
                     Wanted(r, Ingested(r, q.session))
                /\ run'[p].skipped = r.skipped
                /\ declined' = declined \union
                     (Ingested(r, q.session) \ Wanted(r, Ingested(r, q.session)))
        BY <1>12, <3>3, ScanFields
      <4>2. CASE e.session # q.session
        <5>1. \A u \in r.queue : u.session # e.session
          BY <2>8, <4>1, <4>2
        <5>2. Spoken(e, r.key \ r.agents)
          BY <2>8, <4>1
        <5> QED BY <2>3, <4>1, <5>1, <5>2 DEF ScanInv
      <4>3. CASE e.session = q.session
        <5>1. Floor(r, AgentOf[q.session]) \in 0..MaxClock
          BY <2>1, <1>3 DEF Floor, Run, Time
        <5>2. \/ e.ts >= r.cutoff /\ e.ts > Floor(r, AgentOf[q.session])
              \/ e.ts <= r.cutoff \/ e.ts <= Floor(r, AgentOf[e.session])
          BY <1>3, <2>3, <4>3, <5>1
        <5>3. e \in Ingested(r, q.session) \/ Safe(e)
          BY <2>7, <3>1, <4>3, <5>2 DEF Ingested
        <5> QED BY <4>1, <5>3
      <4> QED BY <4>2, <4>3
    <3>4. CASE Skip(p)
      <4>1. PICK q \in r.queue :
                /\ q.session \in Fragile
                /\ run'[p].agents = r.agents /\ run'[p].queue = r.queue \ {q}
                /\ run'[p].entries = r.entries /\ run'[p].skipped
        BY <1>12, <3>4, ScanFields
      <4>2. CASE e.session # q.session
        <5>1. \A u \in r.queue : u.session # e.session
          BY <2>8, <4>1, <4>2
        <5>2. Spoken(e, r.key \ r.agents)
          BY <2>8, <4>1
        <5> QED BY <2>3, <4>1, <5>1, <5>2 DEF ScanInv
      <4>3. CASE e.session = q.session
        BY <4>1, <4>3
      <4> QED BY <4>2, <4>3
    <3> QED BY <1>12, <3>2, <3>3, <3>4
  <2>9. ScanInv(run[p])'
    <3>1. ASSUME NEW e \in log', Spoken(e, run'[p].key \ run'[p].agents),
                 \A q \in run'[p].queue : q.session # e.session
          PROVE  Safe(e)' \/ e \in run'[p].entries \/ (run'[p].skipped /\ e.session \in Fragile)
      <4>1. e \in log /\ e \in Entry /\ Spoken(e, r.key \ run'[p].agents)
        BY <1>3, <2>2, <3>1
      <4>2. e \in declined' => Safe(e)'
        BY DEF Safe
      <4> QED BY <1>2, <2>8, <3>1, <4>1, <4>2
    <3>2. /\ r.watermark \in {0, m}
          /\ m # 0 => \A s \in Session \intersect Fragile : AgentOf[s] \in r.key => AgentOf[s] \in r.covered \/ Newcomer(s)
      BY <2>3 DEF ScanInv
    <3>3. run'[p].state.mark[run'[p].key] = m
      BY <2>1, <2>2
    <3> HIDE DEF m
    <3> QED BY <2>2, <2>5, <3>1, <3>2, <3>3 DEF ScanInv, HonestFor, Spoken
  <2>10. RunNext(p)
    BY <2>1, <2>2, <2>4, <2>9
  <2> HIDE DEF HonestNext, RunNext
  <2> QED BY <1>6, <1>7, <2>1, <2>10
<1>13. ASSUME NEW p \in Proc, run[p] # None, Dedup(p)
       PROVE  HonestInv'
  <2> DEFINE r == run[p]
             m == r.state.mark[r.key]
  <2>1. PICK kept \in Survivors(r) :
          /\ kept \subseteq Entry
          /\ run'[p].entries = kept
          /\ run'[p].state = IF r.mode = "incremental" THEN Marked(r.state, kept) ELSE r.state
    BY <1>13, DedupStep
  <2>2. /\ r \in Run /\ r.phase = "scan" /\ r.queue = {} /\ r.agents = {}
        /\ run'[p].phase = "output" /\ run'[p].key = r.key
        /\ run'[p].latest = RawExtractLatest(r)
        /\ UNCHANGED <<primary, backup, log>>
        /\ \A q \in Proc \ {p} : run'[q] = None
    BY <1>1, <1>13, DedupStep
  <2>3. r.state \in StateManager /\ r.entries \subseteq Entry
    BY <2>2 DEF Run
  <2>4. run'[p].state.mark = r.state.mark
    BY <2>1, <2>3, MarkedType
  <2>5. /\ ScanInv(r) /\ r.key \in Key
        /\ \A k \in Key : r.state.mark[k] \in Time /\ r.state.mark[k] <= clock
        /\ \A k \in Key : k # r.key => HonestFor(r.state.mark[k], k)
    BY <1>13, <2>2, <2>3 DEF HonestInv, ClockInv, TypeOK, StateManager
  <2>6. HashesOf(r.state, Processed)
    BY <1>13, <2>2 DEF SaveInv, Pending
  <2>7. ASSUME NEW e \in r.entries
        PROVE  Handled(e) \/ \E d \in kept : Overlap(d) = Overlap(e)
    <3>1. CASE e \in Fresh(r) /\ r.mode # "force"
      <4>1. Cardinality({d \in kept : Overlap(d) = Overlap(e)}) = 1
        BY <2>1, <3>1 DEF Survivors
      <4>2. {d \in kept : Overlap(d) = Overlap(e)} # {}
        BY <4>1, FS_EmptySet
      <4> QED BY <4>2
    <3>2. CASE r.mode = "force"
      BY <2>1, <2>7, <3>2 DEF Survivors
    <3>3. CASE e \notin Fresh(r)
      <4>1. Exact(e) \in r.state.exact \/ Overlap(e) \in r.state.overlap
        BY <2>7, <3>3 DEF Fresh
      <4>2. \A d \in Processed : Exact(d) = Exact(e) => Overlap(d) = Overlap(e)
        BY DEF Exact, Overlap
      <4> QED BY <2>6, <4>1, <4>2 DEF HashesOf, Handled
    <3> QED BY <3>1, <3>2, <3>3
  <2>8. ASSUME NEW e \in log, Spoken(e, r.key), e.ts <= m \/ e.ts <= RawExtractLatest(r)
        PROVE  Safe(e) \/ \E d \in kept : Overlap(d) = Overlap(e)
    <3>1. Safe(e) \/ e \in r.entries \/ (r.skipped /\ e.session \in Fragile)
      BY <2>2, <2>5, <2>8 DEF ScanInv, Spoken
    <3>2. CASE r.skipped /\ e.session \in Fragile
      <4>1. RawExtractLatest(r) = 0
        BY <3>2 DEF RawExtractLatest
      <4>2. e.ts <= m /\ m # 0
        BY <1>3, <2>5, <2>8, <4>1 DEF Time
      <4>3. e.session \in Session
        BY <1>3 DEF Entry
      <4>4. Spoken(e, r.covered) \/ Newcomer(e.session)
        BY <2>5, <2>8, <3>2, <4>2, <4>3 DEF ScanInv, Spoken
      <4> QED BY <2>5, <3>2, <4>2, <4>4 DEF ScanInv, HonestFor, Safe, Refusable
    <3> QED BY <2>7, <3>1, <3>2 DEF Safe
  <2>9. OutputInv(run[p])'
    <3>1. run'[p].state.mark[run'[p].key] = m
      BY <2>2, <2>4
    <3>2. ASSUME NEW e \in log', Spoken(e, run'[p].key), e.ts <= m \/ e.ts <= run'[p].latest
          PROVE  Safe(e)' \/ \E d \in run'[p].entries : Overlap(d) = Overlap(e)
      <4> HIDE DEF m
      <4> QED BY <1>2, <1>3, <2>1, <2>2, <2>8, <3>2
    <3> HIDE DEF m
    <3> QED BY <3>1, <3>2 DEF OutputInv, Spoken
  <2>10. \A k \in Key : k # r.key =>
          \A e \in log' : Spoken(e, k) /\ e.ts <= r.state.mark[k] => Safe(e)'
    BY <1>4, <2>5
  <2>11. RunNext(p)
    BY <2>2, <2>4, <2>9, <2>10
  <2> HIDE DEF HonestNext, RunNext
  <2> QED BY <1>6, <1>7, <2>2, <2>11
<1>14. ASSUME NEW p \in Proc, run[p] # None, Output(p)
       PROVE  HonestInv'
  <2> DEFINE r == run[p]
             m == r.state.mark[r.key]
  <2>1. /\ r \in Run /\ r.phase = "output" /\ r.key \in Key
        /\ run'[p].phase = "save"
        /\ run'[p].state.mark = [r.state.mark EXCEPT ![r.key] = Max({m, r.latest})]
        /\ Processed' = Processed \union r.entries
        /\ UNCHANGED <<primary, backup, log>>
        /\ \A q \in Proc \ {p} : run'[q] = None
    BY <1>1, <1>14, OutputStep
  <2>2. /\ OutputInv(r) /\ r.latest \in Time /\ r.state.mark \in [Key -> Time]
        /\ \A k \in Key : r.state.mark[k] \in Time /\ r.state.mark[k] <= clock
        /\ \A k \in Key : k # r.key => HonestFor(r.state.mark[k], k)
    BY <1>14, <2>1 DEF HonestInv, ClockInv, Run, StateManager
  <2>3. m \in Time /\ Max({m, r.latest}) \in {m, r.latest}
    BY <2>1, <2>2, MaxOfTwo
  <2>4. \A k \in Key : k # r.key =>
          \A e \in log' : Spoken(e, k) /\ e.ts <= r.state.mark[k] => Safe(e)'
    BY <1>4, <2>2
  <2>5. ASSUME NEW e \in log', Spoken(e, r.key), e.ts <= Max({m, r.latest})
        PROVE  Safe(e)'
    <3>1. e \in log /\ e \in Entry
      BY <1>3, <2>1
    <3>2. Safe(e) \/ \E d \in r.entries : Overlap(d) = Overlap(e)
      BY <2>2, <2>3, <2>5, <3>1 DEF OutputInv
    <3> QED BY <1>2, <2>1, <3>1, <3>2 DEF Safe, Handled
  <2>6. \A k \in Key : run'[p].state.mark[k] =
             IF k = r.key THEN Max({m, r.latest}) ELSE r.state.mark[k]
    <3> HIDE DEF m
    <3> QED BY <2>1, <2>2
  <2>7. HonestNext(run'[p].state)
    <3> HIDE DEF m
    <3> QED BY <2>4, <2>5, <2>6
  <2>8. RunNext(p)
    BY <2>1, <2>7
  <2> HIDE DEF HonestNext, RunNext
  <2> QED BY <1>6, <1>7, <2>1, <2>8
<1>15. ASSUME NEW p \in Proc, run[p] # None, run[p].phase \in {"save", "replace"}
       PROVE  run[p].state \in StateManager /\ HonestNext(run[p].state)
  <2>1. /\ run[p].state \in StateManager /\ \A k \in Key : run[p].state.mark[k] <= clock
        /\ Honest(run[p].state)
    BY <1>15 DEF HonestInv, ClockInv, TypeOK, Run
  <2> HIDE DEF Honest, HonestNext
  <2> QED BY <1>5, <2>1
<1>16. ASSUME NEW p \in Proc, run[p] # None, SaveBackup(p)
       PROVE  HonestInv'
  <2>1. run[p] \in Run /\ run[p].phase = "save"
    BY <1>16 DEF SaveBackup, TypeOK
  <2>2. /\ run'[p].state = run[p].state /\ run'[p].phase = "replace"
        /\ backup' \in {primary, backup} /\ UNCHANGED primary
        /\ \A q \in Proc \ {p} : run'[q] = None
    BY <1>1, <1>16, <2>1 DEF SaveBackup, TypeOK, Run
  <2>3. RunNext(p)
    BY <1>15, <1>16, <2>1, <2>2
  <2> HIDE DEF HonestNext, RunNext
  <2> QED BY <1>6, <1>7, <2>2, <2>3
<1>17. ASSUME NEW p \in Proc, run[p] # None, ExitAllSkipped(p) \/ SavePrimary(p) \/ Abort(p)
       PROVE  HonestInv'
  <2>1. \A q \in Proc : run'[q] = None
    BY <1>1, <1>17 DEF ExitAllSkipped, SavePrimary, Abort, TypeOK
  <2>2. /\ UNCHANGED backup
        /\ \/ primary' = primary
           \/ primary' = run[p].state /\ run[p].phase = "replace"
    BY <1>17 DEF ExitAllSkipped, SavePrimary, Abort, disk
  <2> HIDE DEF HonestNext, RunNext
  <2> QED BY <1>6, <1>7, <1>15, <1>17, <2>1, <2>2
<1> QED
  <2> HIDE DEF Honest, HonestNext, RunNext
  <2>1. ASSUME NEW p \in Proc, Proceed(p) PROVE HonestInv'
    BY <1>12, <1>13, <1>14, <1>16, <1>17, <2>1 DEF Proceed
  <2>2. ASSUME NEW p \in Proc, Skip(p), run[p] # None PROVE HonestInv'
    BY <1>12, <2>2
  <2>3. ASSUME NEW p \in Proc, Abort(p) PROVE HonestInv'
    BY <1>17, <2>3 DEF Abort
  <2>4. ASSUME NEW s \in Session, NEW ts \in Time, NEW role \in Role, NEW text \in Text,
             Write(s, ts, role, text)
        PROVE  HonestInv'
    BY <1>9, <2>4 DEF Write, disk
  <2>5. CASE Damage \/ ManualRecovery
    BY <1>9, <2>5 DEF Damage, ManualRecovery
  <2>6. CASE UNCHANGED vars
    BY <1>9, <2>6 DEF vars, disk
  <2> QED BY <1>10, <1>11, <2>1, <2>2, <2>3, <2>4, <2>5, <2>6 DEF Next

\* What each watermark of state.json and its backup speaks for, in any state.
LEMMA HonestInvHolds == Spec /\ []UpgradedInOrder => []HonestInv
<1>1. Init => ClockInv /\ HonestInv
  BY NoneIsNew DEF Init, ClockInv, HonestInv
<1>2. TypeOK /\ TypeOK' /\ SaveInv /\ ClockInv /\ [Next]_vars => ClockInv'
  BY ClockInvStep
<1>3. /\ TypeOK /\ TypeOK' /\ SaveInv /\ ClockInv /\ HonestInv /\ UpgradedInOrder
      /\ [Next]_vars
      => HonestInv'
  BY HonestInvStep
<1> QED BY <1>1, <1>2, <1>3, SaveInvHolds, PTL DEF Spec

\* Each message up to a saved watermark was processed, unless a --user-only run
\* left it out, a lookback limit cut it, a running scan had passed its
\* transcript, or the parser may refuse the transcript of an agent that just
\* joined (migrate_watermark_aliases stores the inherited watermark whether or
\* not the run then parses it).
HonestButForNewcomers ==
    \A st \in {primary, backup} \ {None, Malformed}, k \in Key, e \in log :
        /\ AgentOf[e.session] \in k \ FullWindow
        /\ e.ts <= st.mark[k]
        => \/ Handled(e) \/ e \in declined
           \/ e \in behind \/ e.ts <= cut \/ Refusable(e)

\* Every message a watermark skips is accounted for in one of these ways,
\* whichever transcripts the parser refuses, as long as the compositions in
\* state.json were upgraded in order.
THEOREM SkippedIsAccountedFor == Spec /\ []UpgradedInOrder => []HonestButForNewcomers
<1>1. TypeOK /\ HonestInv => HonestButForNewcomers
  <2> SUFFICES ASSUME TypeOK, HonestInv, NEW st \in {primary, backup} \ {None, Malformed}
               PROVE  \A k \in Key : HonestFor(st.mark[k], k)
    BY DEF HonestButForNewcomers, HonestFor, Spoken, Safe
  <2> QED BY DEF TypeOK, HonestInv
<1> QED BY <1>1, HonestInvHolds, SaveInvHolds, PTL

\* Where the transcripts of newcomers parse, each message up to a saved
\* watermark was processed, left out by a --user-only run that read it, cut by
\* a lookback limit, or written to a transcript that a running scan had passed.
THEOREM WatermarksAreHonest ==
    NewcomersParse => (Spec /\ []UpgradedInOrder => []WatermarkIsHonest)
<1> SUFFICES ASSUME NewcomersParse PROVE Spec /\ []UpgradedInOrder => []WatermarkIsHonest
  OBVIOUS
<1>1. TypeOK /\ HonestButForNewcomers => WatermarkIsHonest
  <2>1. TypeOK => \A e \in log : e.session \in Session
    BY DEF TypeOK, Entry
  <2> QED BY <2>1 DEF HonestButForNewcomers, WatermarkIsHonest, NewcomersParse, Refusable
<1> QED BY <1>1, SkippedIsAccountedFor, SaveInvHolds, PTL

-----------------------------------------------------------------------------
\* What runs hold back: nothing but echoes, when every command outputs what it
\* extracts (--emit json, or -o), and nothing of the assistant without
\* --user-only.

AllReport == \A c \in Command : c.emits
NoneUserOnly == \A c \in Command : ~c.userOnly

\* A run whose output step is still to come.
Extracting(r) == r # None /\ r.phase \in {"scan", "output"}

\* The options of a run are those of a command, from its first step to its last.
OptionsInv ==
    \A p \in Proc : Extracting(run[p]) =>
        \E c \in Command : run[p].emits = c.emits /\ run[p].userOnly = c.userOnly

\* Under AllReport and NoneUserOnly, what the two histories may hold.
UnsaidInv == AllReport => \A e \in unsaid : e.text \in Echo
DeclinedInv == NoneUserOnly => declined = {}

\* Steps of a run keep its options.
LEMMA OptionsStay ==
    ASSUME TypeOK, NEW p \in Proc, run[p] # None,
           Discover(p) \/ Parse(p) \/ Skip(p) \/ Dedup(p)
    PROVE  /\ Extracting(run[p])
           /\ run'[p].emits = run[p].emits /\ run'[p].userOnly = run[p].userOnly
           /\ \A q \in Proc \ {p} : run'[q] = run[q]
<1>1. run[p] \in Run
  BY DEF TypeOK
<1>2. CASE Discover(p)
  <2>1. PICK agents, queue : run' = [run EXCEPT ![p].agents = agents, ![p].queue = queue]
    BY <1>2 DEF Discover, TypeOK
  <2> QED BY <1>1, <1>2, <2>1 DEF Discover, Scanning, Extracting, TypeOK, Run
<1>3. CASE Parse(p)
  <2>1. PICK queue, entries :
           run' = [run EXCEPT ![p].queue = queue, ![p].ingested = TRUE, ![p].entries = entries]
    <3>1. PICK q \in run[p].queue :
            run' = [run EXCEPT
              ![p].queue = @ \ {q},
              ![p].ingested = TRUE,
              ![p].entries = @ \union Wanted(run[p], Ingested(run[p], q.session))]
      BY <1>3, Zenon DEF Parse
    <3> QED BY <3>1 DEF TypeOK
  <2> QED BY <1>1, <1>3, <2>1 DEF Parse, NextSource, Scanning, Extracting, TypeOK, Run
<1>4. CASE Skip(p)
  <2>1. PICK queue : run' = [run EXCEPT ![p].queue = queue, ![p].skipped = TRUE]
    BY <1>4 DEF Skip, TypeOK
  <2> QED BY <1>1, <1>4, <2>1 DEF Skip, NextSource, Scanning, Extracting, TypeOK, Run
<1>5. CASE Dedup(p)
  BY <1>5, DedupStep DEF Extracting
<1> QED BY <1>2, <1>3, <1>4, <1>5

\* OptionsInv is inductive.
LEMMA OptionsInvStep ==
    ASSUME TypeOK, OptionsInv, [Next]_vars
    PROVE  OptionsInv'
<1>1. ASSUME NEW p \in Proc, NEW c \in Command, BeginRun(p, c)
      PROVE  OptionsInv'
  <2>1. run'[p].emits = c.emits /\ run'[p].userOnly = c.userOnly
    BY <1>1 DEF BeginRun, TypeOK
  <2>2. \A q \in Proc \ {p} : run'[q] = run[q]
    BY <1>1 DEF BeginRun, TypeOK
  <2> QED BY <2>1, <2>2 DEF OptionsInv, Extracting
<1>2. ASSUME NEW p \in Proc, ~Extracting(run'[p]), \A q \in Proc \ {p} : run'[q] = run[q]
      PROVE  OptionsInv'
  BY <1>2 DEF OptionsInv, Extracting
<1>3. ASSUME NEW p \in Proc, BeginReset(p)
      PROVE  OptionsInv'
  BY <1>2, <1>3 DEF BeginReset, TypeOK, Extracting
<1>4. ASSUME NEW p \in Proc, run[p] # None,
             Discover(p) \/ Parse(p) \/ Skip(p) \/ Dedup(p)
      PROVE  OptionsInv'
  BY <1>4, OptionsStay DEF OptionsInv, Extracting
<1>5. ASSUME NEW p \in Proc, run[p] # None, Output(p)
      PROVE  OptionsInv'
  BY <1>2, <1>5, OutputStep DEF Extracting
<1>6. ASSUME NEW p \in Proc, run[p] # None, SaveBackup(p)
      PROVE  OptionsInv'
  <2>1. run[p] \in Run
    BY <1>6 DEF TypeOK
  <2>2. run'[p].phase = "replace" /\ \A q \in Proc \ {p} : run'[q] = run[q]
    BY <1>6, <2>1 DEF SaveBackup, TypeOK, Run
  <2> QED BY <1>2, <2>2 DEF Extracting
<1>7. ASSUME NEW p \in Proc, ExitAllSkipped(p) \/ SavePrimary(p) \/ Abort(p)
      PROVE  OptionsInv'
  <2>1. run' = [run EXCEPT ![p] = None]
    BY <1>7 DEF ExitAllSkipped, SavePrimary, Abort
  <2> QED BY <1>2, <2>1 DEF Extracting, TypeOK
<1>8. CASE UNCHANGED run
  BY <1>8 DEF OptionsInv, Extracting
<1>9. ASSUME NEW s \in Session, NEW ts \in Time, NEW role \in Role, NEW text \in Text,
             Write(s, ts, role, text)
      PROVE  UNCHANGED run
  BY <1>9 DEF Write
<1>10. Damage \/ ManualRecovery \/ UNCHANGED vars => UNCHANGED run
  BY DEF Damage, ManualRecovery, vars
<1> QED BY <1>1, <1>3, <1>4, <1>5, <1>6, <1>7, <1>8, <1>9, <1>10 DEF Next, Proceed

\* So are the other two, which it supports.
LEMMA HeldBackStep ==
    ASSUME TypeOK, OptionsInv, UnsaidInv, DeclinedInv, [Next]_vars
    PROVE  UnsaidInv' /\ DeclinedInv'
<1>1. ASSUME NEW p \in Proc, run[p] # None, Output(p)
      PROVE  /\ UNCHANGED declined
             /\ AllReport => unsaid' \subseteq unsaid \union {e \in Entry : e.text \in Echo}
  <2>1. run[p] \in Run /\ run[p].phase = "output" /\ run[p].entries \subseteq Entry
    BY <1>1 DEF Output, TypeOK, Run
  <2>2. AllReport => run[p].emits
    BY <1>1, <2>1 DEF AllReport, OptionsInv, Extracting
  <2>3. unsaid' = unsaid \union (run[p].entries \ Reported(run[p])) /\ UNCHANGED declined
    BY <1>1 DEF Output, history
  <2>4. run[p].emits => Reported(run[p]) = {e \in run[p].entries : e.text \notin Echo}
    BY DEF Reported, Reportable
  <2> QED BY <2>1, <2>2, <2>3, <2>4
<1>2. ASSUME NEW p \in Proc, run[p] # None, Parse(p)
      PROVE  UNCHANGED unsaid /\ (NoneUserOnly => UNCHANGED declined)
  <2>1. Extracting(run[p])
    BY <1>2 DEF Parse, NextSource, Scanning, Extracting
  <2>2. NoneUserOnly => ~run[p].userOnly
    BY <2>1 DEF NoneUserOnly, OptionsInv
  <2>3. PICK q \in run[p].queue :
          declined' = declined \union
            (Ingested(run[p], q.session) \ Wanted(run[p], Ingested(run[p], q.session)))
    BY <1>2 DEF Parse
  <2>4. UNCHANGED unsaid
    BY <1>2 DEF Parse, results
  <2> QED BY <2>2, <2>3, <2>4 DEF Wanted
<1>3. ASSUME NEW p \in Proc, BeginReset(p) \/ \E c \in Command : BeginRun(p, c)
      PROVE  UNCHANGED <<unsaid, declined>>
  BY <1>3 DEF BeginReset, BeginRun, results, history
<1>4. ASSUME NEW p \in Proc, Discover(p) \/ Skip(p) \/ Dedup(p)
      PROVE  UNCHANGED <<unsaid, declined>>
  BY <1>4 DEF Discover, Skip, Dedup, results, history
<1>5. ASSUME NEW p \in Proc, ExitAllSkipped(p) \/ SaveBackup(p) \/ SavePrimary(p) \/ Abort(p)
      PROVE  UNCHANGED <<unsaid, declined>>
  BY <1>5 DEF ExitAllSkipped, SaveBackup, SavePrimary, Abort, results, history
<1>6. ASSUME NEW s \in Session, NEW ts \in Time, NEW role \in Role, NEW text \in Text,
             Write(s, ts, role, text)
      PROVE  UNCHANGED <<unsaid, declined>>
  BY <1>6 DEF Write, results
<1>7. Damage \/ ManualRecovery \/ UNCHANGED vars => UNCHANGED <<unsaid, declined>>
  BY DEF Damage, ManualRecovery, vars, results, history
<1>8. CASE UNCHANGED <<unsaid, declined>>
  BY <1>8 DEF UnsaidInv, DeclinedInv
<1>9. ASSUME NEW p \in Proc, Output(p), run[p] # None PROVE UnsaidInv' /\ DeclinedInv'
  BY <1>1, <1>9 DEF UnsaidInv, DeclinedInv
<1>10. ASSUME NEW p \in Proc, Parse(p), run[p] # None PROVE UnsaidInv' /\ DeclinedInv'
  BY <1>2, <1>10 DEF UnsaidInv, DeclinedInv
<1> QED BY <1>3, <1>4, <1>5, <1>6, <1>7, <1>8, <1>9, <1>10 DEF Next, Proceed

\* They hold.
LEMMA HeldBackHolds == Spec => [](TypeOK /\ UnsaidInv /\ DeclinedInv)
<1>1. Init => OptionsInv /\ UnsaidInv /\ DeclinedInv
  BY DEF Init, OptionsInv, Extracting, UnsaidInv, DeclinedInv
<1>2. TypeOK /\ OptionsInv /\ [Next]_vars => OptionsInv'
  BY OptionsInvStep
<1>3. TypeOK /\ OptionsInv /\ UnsaidInv /\ DeclinedInv /\ [Next]_vars
      => UnsaidInv' /\ DeclinedInv'
  BY HeldBackStep
<1> QED BY <1>1, <1>2, <1>3, ExtractionTypeOK, PTL DEF Spec

\* e was output, or held back as an echo of aicx's own output.
OutputOrEcho(e) == e \in emitted \/ e.text \in Echo

\* Every hash of state.json and its backup is that of an entry which reached
\* stdout or a report, or of an echo.
SeenWasOutput ==
    \A st \in {primary, backup} \ {None, Malformed} :
        /\ \A h \in st.exact : \E e \in Processed : Exact(e) = h /\ OutputOrEcho(e)
        /\ \A h \in st.overlap : \E e \in Processed : Overlap(e) = h /\ OutputOrEcho(e)

\* What dedup will hold back was output, where every command is run with
\* --emit json or -o; the default, which prints nothing, breaks it.
THEOREM SeenIsOutput == AllReport => (Spec => []SeenWasOutput)
<1> SUFFICES ASSUME AllReport PROVE Spec => []SeenWasOutput
  OBVIOUS
<1>1. UnsaidInv /\ SeenWasProcessed => SeenWasOutput
  <2>1. UnsaidInv => \A e \in Processed : OutputOrEcho(e)
    BY DEF UnsaidInv, Processed, OutputOrEcho
  <2> QED BY <2>1 DEF SeenWasProcessed, SeenWasOutput
<1> QED BY <1>1, SeenIsProcessed, HeldBackHolds, PTL

\* Each message up to a saved watermark was output or is an echo, it or the
\* twin dedup prefers to it, or it fell to a lookback limit or to a scan that
\* had passed its transcript.
WatermarkIsReported ==
    \A st \in {primary, backup} \ {None, Malformed}, k \in Key, e \in log :
        /\ AgentOf[e.session] \in k \ FullWindow
        /\ e.ts <= st.mark[k]
        => \/ \E d \in Processed : Overlap(d) = Overlap(e) /\ OutputOrEcho(d)
           \/ e \in behind \/ e.ts <= cut

\* A watermark skips only what was reported, where every command outputs what it
\* extracts and none is --user-only: silent runs and --user-only are the only
\* options that let messages go by unreported.
THEOREM WatermarksAreReported ==
    AllReport /\ NoneUserOnly /\ NewcomersParse =>
        (Spec /\ []UpgradedInOrder => []WatermarkIsReported)
<1> SUFFICES ASSUME AllReport, NoneUserOnly, NewcomersParse
             PROVE  Spec /\ []UpgradedInOrder => []WatermarkIsReported
  OBVIOUS
<1>1. UnsaidInv /\ DeclinedInv /\ WatermarkIsHonest => WatermarkIsReported
  <2>1. UnsaidInv => \A e \in Processed : OutputOrEcho(e)
    BY DEF UnsaidInv, Processed, OutputOrEcho
  <2>2. DeclinedInv => declined = {}
    BY DEF DeclinedInv
  <2> QED BY <2>1, <2>2 DEF WatermarkIsHonest, WatermarkIsReported, Handled
<1> QED BY <1>1, WatermarksAreHonest, HeldBackHolds, PTL
=============================================================================
