--------------------------- MODULE AicxLocksProofs ---------------------------
(***************************************************************************)
(* Proofs about AicxLocks, for every set of processes and threads.         *)
(***************************************************************************)
EXTENDS AicxLocks, FiniteSetTheorems, TLAPS

(***************************************************************************)
(* The inductive invariants.  LoneExclusion alone is not inductive: it     *)
(* says nothing of the record locks that keep a newcomer out.  Three facts *)
(* are added: the kernel's own exclusion between processes, that a thread  *)
(* past os_try_lock has its process's record lock in its own mode (true    *)
(* only where no sibling thread can drop it), and that only exclusive      *)
(* acquirers reach write_holder.  LocalExclusion needs that the counters   *)
(* of LocalState count the guards that are out.                            *)
(***************************************************************************)

\* The kernel never grants conflicting record locks to two processes.
KernelExclusion ==
    \A p, q \in Proc : p # q /\ osLock[p] = "exclusive" => osLock[q] = "none"

\* write_holder runs for exclusive acquirers only.
HolderIsExclusive ==
    \A t \in Thread : pc[t] = "holder" => mode[t] = "exclusive"

LocksInv == /\ TypeOK
            /\ KernelExclusion
            /\ HolderIsExclusive
            /\ LockFollowsHandle
            /\ KillAdviceNamesHolder

-----------------------------------------------------------------------------
\* Type correctness does not depend on how threads are spread.
LEMMA TypeStep == TypeOK /\ [Next]_vars => TypeOK'
<1> SUFFICES ASSUME TypeOK, [Next]_vars PROVE TypeOK'
  OBVIOUS
<1> USE ProcOfType DEF TypeOK, holderFile, Label, LockMode, LocalState, FreshLocal, Goto,
        DropRecordLock
<1>1. ASSUME NEW t \in Thread, NEW m \in LockMode, Open(t, m) PROVE TypeOK'
  BY <1>1 DEF Open
<1>2. ASSUME NEW t \in Thread, AcquireLocal(t) PROVE TypeOK'
  <2> DEFINE p == ProcOf[t]
  <2>1. /\ local[p] \in LocalState
        /\ local[p].readers + 1 \in Nat /\ local[p].writer \in BOOLEAN
    OBVIOUS
  <2>2. local' \in [Proc -> LocalState]
    <3>1. /\ [local[p] EXCEPT !.readers = local[p].readers + 1] \in LocalState
          /\ [local[p] EXCEPT !.writer = TRUE] \in LocalState
      BY <2>1
    <3>2. \/ local' = [local EXCEPT ![p] = [local[p] EXCEPT !.readers = local[p].readers + 1]]
          \/ local' = [local EXCEPT ![p] = [local[p] EXCEPT !.writer = TRUE]]
      BY <1>2 DEF AcquireLocal
    <3> QED  BY <3>1, <3>2
  <2> QED
    BY <1>2, <2>2 DEF AcquireLocal
<1>3. ASSUME NEW t \in Thread, LocalTimeout(t) PROVE TypeOK'
  BY <1>3 DEF LocalTimeout
<1>4. ASSUME NEW t \in Thread, OsLock(t) PROVE TypeOK'
  BY <1>4 DEF OsLock
<1>5. ASSUME NEW t \in Thread, OsTimeout(t) PROVE TypeOK'
  BY <1>5 DEF OsTimeout
<1>6. ASSUME NEW t \in Thread, RemoveStaleHolder(t) PROVE TypeOK'
  BY <1>6 DEF RemoveStaleHolder
<1>6f. ASSUME NEW t \in Thread, RemoveFails(t) PROVE TypeOK'
  BY <1>6f DEF RemoveFails
<1>6e. ASSUME NEW t \in Thread, OsError(t) PROVE TypeOK'
  BY <1>6e DEF OsError
<1>7. ASSUME NEW t \in Thread, WriteHolder(t) PROVE TypeOK'
  BY <1>7 DEF WriteHolder
<1>8. ASSUME NEW t \in Thread, WriteHolderFails(t) PROVE TypeOK'
  BY <1>8 DEF WriteHolderFails
<1>9. ASSUME NEW t \in Thread, DropSidecar(t) PROVE TypeOK'
  BY <1>9 DEF DropSidecar, OwnsSidecar
<1>9f. ASSUME NEW t \in Thread, DropSidecarFails(t) PROVE TypeOK'
  BY <1>9f DEF DropSidecarFails
<1>10. ASSUME NEW t \in Thread, Unlock(t) PROVE TypeOK'
  BY <1>10 DEF Unlock
<1>11. ASSUME NEW t \in Thread, ReleaseLocal(t) PROVE TypeOK'
  <2> DEFINE p == ProcOf[t]
             n == IF local[p].readers = 0 THEN 0 ELSE local[p].readers - 1
  <2>1. local[p] \in LocalState /\ n \in Nat /\ local[p].writer \in BOOLEAN
    OBVIOUS
  <2>2. local' \in [Proc -> LocalState]
    <3>1. /\ [local[p] EXCEPT !.readers = n] \in LocalState
          /\ [local[p] EXCEPT !.writer = FALSE] \in LocalState
      BY <2>1
    <3>2. \/ local' = [local EXCEPT ![p] = [local[p] EXCEPT !.readers = n]]
          \/ local' = [local EXCEPT ![p] = [local[p] EXCEPT !.writer = FALSE]]
      BY <1>11 DEF ReleaseLocal
    <3> QED  BY <3>1, <3>2
  <2> QED
    BY <1>11, <2>2 DEF ReleaseLocal
<1>12. ASSUME NEW t \in Thread, CloseFile(t) PROVE TypeOK'
  BY <1>12 DEF CloseFile
<1>13. ASSUME NEW p \in Proc, Die(p) PROVE TypeOK'
  BY <1>13 DEF Die
<1>14. CASE UNCHANGED vars
  BY <1>14 DEF vars
<1> QED
  BY <1>1, <1>2, <1>3, <1>4, <1>5, <1>6, <1>6f, <1>6e, <1>7, <1>8, <1>9, <1>9f, <1>10, <1>11,
     <1>12, <1>13, <1>14 DEF Next, Proceed

\* The initial state is well typed.
LEMMA TypeInit == Init => TypeOK
<1> SUFFICES ASSUME Init PROVE TypeOK
  OBVIOUS
<1>1. left \in BOOLEAN
  BY Zenon DEF Init
<1> QED
  BY <1>1, ProcOfType DEF Init, TypeOK, Label, LockMode, LocalState, FreshLocal

\* Every state of the lock protocol is well typed, for any assignment of
\* threads to processes (acquire_with_timeout and Drop of locks.rs).
THEOREM LocksTypeOK == Spec => []TypeOK
  BY TypeInit, TypeStep, PTL DEF Spec

-----------------------------------------------------------------------------
\* A thread step other than OsLock changes one pc, frees a record lock or
\* none, and keeps the mode: the kernel's exclusion cannot break.
LEMMA KernelStep ==
  ASSUME TypeOK, KernelExclusion, [Next]_vars PROVE KernelExclusion'
<1> USE ProcOfType DEF TypeOK, KernelExclusion, DropRecordLock
<1>1. ASSUME NEW t \in Thread, OsLock(t) PROVE KernelExclusion'
  BY <1>1 DEF OsLock, Conflict, LockMode
<1>2. ASSUME NEW p \in Proc, DropRecordLock(p) PROVE KernelExclusion'
  BY <1>2
<1>3. CASE UNCHANGED osLock
  BY <1>3
<1> QED
  BY <1>1, <1>2, <1>3 DEF Next, Proceed, vars, Open, AcquireLocal,
     LocalTimeout, OsTimeout, OsError, RemoveStaleHolder, RemoveFails, WriteHolder,
     WriteHolderFails, DropSidecar, DropSidecarFails, Unlock, ReleaseLocal, CloseFile, Die

\* A thread enters write_holder from OsLock only, and in exclusive mode.
LEMMA HolderStep ==
  ASSUME TypeOK, HolderIsExclusive, [Next]_vars PROVE HolderIsExclusive'
<1> USE ProcOfType DEF TypeOK, HolderIsExclusive, Goto, LockMode
<1>1. ASSUME NEW t \in Thread, NEW m \in LockMode, Open(t, m)  PROVE HolderIsExclusive'
  BY <1>1 DEF Open
<1>2. ASSUME NEW t \in Thread, OsLock(t)  PROVE HolderIsExclusive'
  BY <1>2 DEF OsLock
<1>3. ASSUME NEW t \in Thread, NEW label \in Label \ {"holder"}, Goto(t, label), mode' = mode
      PROVE  HolderIsExclusive'
  BY <1>3
<1>4. ASSUME NEW p \in Proc, Die(p)  PROVE HolderIsExclusive'
  BY <1>4 DEF Die
<1>5. CASE UNCHANGED vars
  BY <1>5 DEF vars
<1>6. ASSUME NEW t \in Thread, Proceed(t) \/ OsError(t) \/ DropSidecar(t) \/ DropSidecarFails(t), ~OsLock(t)
      PROVE  \E label \in Label \ {"holder"} : Goto(t, label) /\ mode' = mode
  BY <1>6 DEF Proceed, AcquireLocal, LocalTimeout, OsTimeout, OsError, RemoveStaleHolder,
     RemoveFails, WriteHolder, WriteHolderFails, DropSidecar, DropSidecarFails, Unlock, ReleaseLocal, CloseFile, Label
<1>7. ASSUME NEW t \in Thread, Proceed(t) \/ OsError(t) \/ DropSidecar(t) \/ DropSidecarFails(t)  PROVE HolderIsExclusive'
  BY <1>2, <1>3, <1>6, <1>7
<1> QED
  BY <1>1, <1>4, <1>5, <1>7 DEF Next

\* The sidecar is written by the holder and cleared before it lets go.
LEMMA SidecarStep ==
  ASSUME TypeOK, HolderIsExclusive, KillAdviceNamesHolder, [Next]_vars
  PROVE  KillAdviceNamesHolder'
<1> USE ProcOfType, NoHolderIsNoThread DEF TypeOK, KillAdviceNamesHolder, Goto, holderFile
<1>1. ASSUME NEW t \in Thread, WriteHolder(t) PROVE KillAdviceNamesHolder'
  BY <1>1 DEF WriteHolder, HolderIsExclusive
<1>2. ASSUME NEW t \in Thread, DropSidecar(t) PROVE KillAdviceNamesHolder'
  BY <1>2 DEF DropSidecar, OwnsSidecar, holderFile
<1>2f. ASSUME NEW t \in Thread, DropSidecarFails(t) PROVE KillAdviceNamesHolder'
  BY <1>2f DEF DropSidecarFails
<1>3. ASSUME NEW p \in Proc, Die(p) PROVE KillAdviceNamesHolder'
  BY <1>3 DEF Die
<1>4. ASSUME NEW t \in Thread, NEW m \in LockMode, Open(t, m)
      PROVE  KillAdviceNamesHolder'
  BY <1>4 DEF Open
<1>5. ASSUME NEW t \in Thread,
             AcquireLocal(t) \/ LocalTimeout(t) \/ OsLock(t) \/ OsTimeout(t) \/ OsError(t)
      PROVE  KillAdviceNamesHolder'
  BY <1>5 DEF AcquireLocal, LocalTimeout, OsLock, OsTimeout, OsError
<1>6. ASSUME NEW t \in Thread,
             \/ RemoveStaleHolder(t) \/ RemoveFails(t) \/ WriteHolderFails(t)
             \/ Unlock(t) \/ ReleaseLocal(t) \/ CloseFile(t)
      PROVE  KillAdviceNamesHolder'
  BY <1>6 DEF RemoveStaleHolder, RemoveFails, WriteHolderFails, Unlock, ReleaseLocal,
     CloseFile
<1>7. CASE UNCHANGED vars
  BY <1>7 DEF vars
<1> QED
  BY <1>1, <1>2, <1>2f, <1>3, <1>4, <1>5, <1>6, <1>7 DEF Next, Proceed

\* Nobody but a lone holder can drop its record lock, and every holder drops
\* it on its way out.
LEMMA FollowStep ==
  ASSUME TypeOK, LockFollowsHandle, [Next]_vars
  PROVE  LockFollowsHandle'
<1> USE ProcOfType DEF Alone, TypeOK, LockFollowsHandle, Goto,
        DropRecordLock, LockMode, Label
<1>1. ASSUME NEW t \in Thread, NEW m \in LockMode, Open(t, m)
      PROVE  LockFollowsHandle'
  BY <1>1 DEF Open
<1>2. ASSUME NEW t \in Thread, AcquireLocal(t) PROVE LockFollowsHandle'
  BY <1>2 DEF AcquireLocal
<1>3. ASSUME NEW t \in Thread, LocalTimeout(t) PROVE LockFollowsHandle'
  BY <1>3 DEF LocalTimeout
<1>4. ASSUME NEW t \in Thread, OsLock(t) PROVE LockFollowsHandle'
  BY <1>4 DEF OsLock
<1>5. ASSUME NEW t \in Thread, OsTimeout(t) PROVE LockFollowsHandle'
  BY <1>5 DEF OsTimeout
<1>6. ASSUME NEW t \in Thread, RemoveStaleHolder(t) PROVE LockFollowsHandle'
  BY <1>6 DEF RemoveStaleHolder
<1>6f. ASSUME NEW t \in Thread, RemoveFails(t) PROVE LockFollowsHandle'
  BY <1>6f DEF RemoveFails
<1>6e. ASSUME NEW t \in Thread, OsError(t) PROVE LockFollowsHandle'
  BY <1>6e DEF OsError
<1>7. ASSUME NEW t \in Thread, WriteHolder(t) PROVE LockFollowsHandle'
  BY <1>7 DEF WriteHolder
<1>8. ASSUME NEW t \in Thread, WriteHolderFails(t) PROVE LockFollowsHandle'
  BY <1>8 DEF WriteHolderFails
<1>9. ASSUME NEW t \in Thread, DropSidecar(t) PROVE LockFollowsHandle'
  BY <1>9 DEF DropSidecar, OwnsSidecar
<1>9f. ASSUME NEW t \in Thread, DropSidecarFails(t) PROVE LockFollowsHandle'
  BY <1>9f DEF DropSidecarFails
<1>10. ASSUME NEW t \in Thread, Unlock(t) PROVE LockFollowsHandle'
  BY <1>10 DEF Unlock
<1>11. ASSUME NEW t \in Thread, ReleaseLocal(t) PROVE LockFollowsHandle'
  BY <1>11 DEF ReleaseLocal
<1>12. ASSUME NEW t \in Thread, CloseFile(t) PROVE LockFollowsHandle'
  BY <1>12 DEF CloseFile
<1>13. ASSUME NEW p \in Proc, Die(p) PROVE LockFollowsHandle'
  BY <1>13 DEF Die
<1>14. CASE UNCHANGED vars
  BY <1>14 DEF vars
<1> QED
  BY <1>1, <1>2, <1>3, <1>4, <1>5, <1>6, <1>6f, <1>6e, <1>7, <1>8, <1>9, <1>9f, <1>10, <1>11,
     <1>12, <1>13, <1>14 DEF Next, Proceed

\* The invariant holds initially.
LEMMA LocksInvInit == Init => LocksInv
  BY TypeInit, ProcOfType DEF Init, LocksInv, KernelExclusion,
     HolderIsExclusive, LockFollowsHandle, KillAdviceNamesHolder

\* The invariant yields exclusion between the handles of lone threads.
LEMMA LocksInvExcludes ==
  ASSUME LocksInv PROVE LoneExclusion
  BY ProcOfType DEF Alone, LocksInv, TypeOK, KernelExclusion,
     LockFollowsHandle, LoneExclusion, InUse, LockMode

\* The invariant is inductive.
LEMMA LocksInvStep == LocksInv /\ [Next]_vars => LocksInv'
  BY TypeStep, KernelStep, HolderStep, SidecarStep, FollowStep DEF LocksInv

\* Among the processes with one thread on the lock file an exclusive handle of
\* locks.rs excludes every other handle, for any number of processes and
\* whatever the processes with several threads do.
THEOREM LoneThreadsExclude == Spec => []LoneExclusion
<1>1. LocksInv => LoneExclusion
  BY LocksInvExcludes
<1> QED
  BY <1>1, LocksInvInit, LocksInvStep, PTL DEF Spec

\* The handle of a lone thread keeps the record lock until it is dropped, and
\* no error path of acquire_with_timeout leaks one in any process.
THEOREM LockFollowsLoneHandle == Spec => []LockFollowsHandle
<1>1. LocksInv => LockFollowsHandle
  BY DEF LocksInv
<1> QED
  BY <1>1, LocksInvInit, LocksInvStep, PTL DEF Spec

\* However threads are spread, a live pid in the sidecar is the pid of an
\* exclusive holder: the advice of handle_lock_timeout never names a bystander.
THEOREM KillAdviceIsSound == Spec => []KillAdviceNamesHolder
<1> DEFINE Inv == TypeOK /\ HolderIsExclusive /\ KillAdviceNamesHolder
<1>1. Init => Inv
  BY LocksInvInit DEF LocksInv
<1>2. Inv /\ [Next]_vars => Inv'
  BY TypeStep, HolderStep, SidecarStep
<1> QED
  BY <1>1, <1>2, PTL DEF Spec

-----------------------------------------------------------------------------
\* The LocalGuards that are out.
Guarded(t) == pc[t] \in {"os", "late", "recover", "holder", "held", "unlock", "unwind"}
Guards(p, m) == {t \in Thread : ProcOf[t] = p /\ mode[t] = m /\ Guarded(t)}

\* LocalState counts them, and a writer is alone.
LocalOK(p) ==
    /\ local[p].readers = Cardinality(Guards(p, "shared"))
    /\ local[p].writer \/ Guards(p, "exclusive") = {}
    /\ Guards(p, "exclusive") # {} => Guards(p, "shared") = {}
    /\ \A s, t \in Guards(p, "exclusive") : s = t
LocalInv == \A p \in Proc : LocalOK(p)

\* A process none of whose guards and counters change stays in order.
LEMMA LocalKept ==
  ASSUME NEW p \in Proc, LocalOK(p), local'[p] = local[p],
         \A m \in LockMode : Guards(p, m)' = Guards(p, m)
  PROVE  LocalOK(p)'
  BY DEF LocalOK, LockMode

\* A step that neither takes nor drops a guard changes no set of guards.
LEMMA GuardsKept ==
  ASSUME local' = local, LocalInv,
         \A t \in Thread : /\ Guarded(t)' <=> Guarded(t)
                           /\ Guarded(t) => mode'[t] = mode[t]
  PROVE  LocalInv'
<1>1. \A p \in Proc, m \in LockMode : Guards(p, m)' = Guards(p, m)
  BY DEF Guards
<1> QED  BY <1>1, LocalKept DEF LocalInv

\* Taking a guard: CanAcquireLocal looked at the counters that count them.
LEMMA TakeGuard ==
  ASSUME TypeOK, LocalInv, NEW t \in Thread, AcquireLocal(t)
  PROVE  LocalInv'
<1> DEFINE p == ProcOf[t]
<1>1. p \in Proc /\ pc[t] = "local" /\ ~Guarded(t) /\ Guarded(t)' /\ mode' = mode
  BY ProcOfType DEF TypeOK, AcquireLocal, Goto, Guarded
<1>2. \A u \in Thread \ {t} : Guarded(u)' <=> Guarded(u)
  BY DEF TypeOK, AcquireLocal, Goto, Guarded
<1>3. ASSUME NEW q \in Proc \ {p}  PROVE LocalOK(q)'
  <2>1. local'[q] = local[q]
    BY <1>1 DEF TypeOK, AcquireLocal
  <2>2. \A m \in LockMode : Guards(q, m)' = Guards(q, m)
    BY <1>1, <1>2 DEF Guards
  <2> QED  BY <2>1, <2>2, LocalKept DEF LocalInv
<1>4. LocalOK(p)'
  <2>0. LocalOK(p) /\ local[p] \in LocalState /\ ~local[p].writer
    BY <1>1 DEF LocalInv, TypeOK, AcquireLocal, CanAcquireLocal
  <2>1. ASSUME NEW m, mode[t] = m
        PROVE  Guards(p, m)' = Guards(p, m) \cup {t} /\ t \notin Guards(p, m)
    BY <1>1, <1>2, <2>1 DEF Guards
  <2>2. ASSUME NEW m, mode[t] # m  PROVE Guards(p, m)' = Guards(p, m)
    BY <1>1, <1>2, <2>2 DEF Guards
  <2>3. IsFiniteSet(Guards(p, "shared"))
    BY ThreadsAreFinite, FS_Subset DEF Guards
  <2>4. Guards(p, "exclusive") = {}
    BY <2>0 DEF LocalOK
  <2>5. CASE mode[t] = "shared"
    <3>1. local'[p] = [local[p] EXCEPT !.readers = local[p].readers + 1]
      BY <1>1, <2>5 DEF TypeOK, AcquireLocal
    <3>2. local'[p].readers = local[p].readers + 1 /\ local'[p].writer = local[p].writer
      BY <2>0, <3>1 DEF LocalState
    <3>3. Cardinality(Guards(p, "shared")') = local[p].readers + 1
      BY <2>0, <2>1, <2>3, <2>5, FS_AddElement DEF LocalOK
    <3>4. Guards(p, "exclusive")' = {}
      BY <2>2, <2>4, <2>5 DEF LockMode
    <3> QED  BY <3>2, <3>3, <3>4 DEF LocalOK
  <2>6. CASE mode[t] = "exclusive"
    <3>1. local'[p] = [local[p] EXCEPT !.writer = TRUE] /\ local[p].readers = 0
      BY <1>1, <2>6 DEF TypeOK, AcquireLocal, CanAcquireLocal
    <3>2. local'[p].readers = 0 /\ local'[p].writer
      BY <2>0, <3>1 DEF LocalState
    <3>3. Guards(p, "shared") = {}
      BY <2>0, <2>3, <3>1, FS_EmptySet DEF LocalOK
    <3>4. Guards(p, "shared")' = {} /\ Guards(p, "exclusive")' = {t}
      BY <2>1, <2>2, <2>4, <2>6, <3>3 DEF LockMode
    <3> QED  BY <3>2, <3>4, FS_EmptySet DEF LocalOK
  <2> QED  BY <1>1, <2>5, <2>6 DEF TypeOK, LockMode
<1> QED  BY <1>3, <1>4 DEF LocalInv

\* Dropping a guard: the counter it was counted by goes down.
LEMMA DropGuard ==
  ASSUME TypeOK, LocalInv, NEW t \in Thread, ReleaseLocal(t)
  PROVE  LocalInv'
<1> DEFINE p == ProcOf[t]
<1>1. p \in Proc /\ pc[t] = "unwind" /\ Guarded(t) /\ ~Guarded(t)' /\ mode' = mode
  BY ProcOfType DEF TypeOK, ReleaseLocal, Goto, Guarded
<1>2. \A u \in Thread \ {t} : Guarded(u)' <=> Guarded(u)
  BY DEF TypeOK, ReleaseLocal, Goto, Guarded
<1>3. ASSUME NEW q \in Proc \ {p}  PROVE LocalOK(q)'
  <2>1. local'[q] = local[q]
    BY <1>1 DEF TypeOK, ReleaseLocal
  <2>2. \A m \in LockMode : Guards(q, m)' = Guards(q, m)
    BY <1>1, <1>2 DEF Guards
  <2> QED  BY <2>1, <2>2, LocalKept DEF LocalInv
<1>4. LocalOK(p)'
  <2>0. LocalOK(p) /\ local[p] \in LocalState
    BY <1>1 DEF LocalInv, TypeOK
  <2>1. ASSUME NEW m, mode[t] = m
        PROVE  Guards(p, m)' = Guards(p, m) \ {t} /\ t \in Guards(p, m)
    BY <1>1, <1>2, <2>1 DEF Guards
  <2>2. ASSUME NEW m, mode[t] # m  PROVE Guards(p, m)' = Guards(p, m)
    BY <1>1, <1>2, <2>2 DEF Guards
  <2>3. IsFiniteSet(Guards(p, "shared"))
    BY ThreadsAreFinite, FS_Subset DEF Guards
  <2>5. CASE mode[t] = "shared"
    <3>1. local'[p] = [local[p] EXCEPT !.readers =
                          IF local[p].readers = 0 THEN 0 ELSE local[p].readers - 1]
      BY <1>1, <2>5 DEF TypeOK, ReleaseLocal
    <3>2. Cardinality(Guards(p, "shared")) \in Nat /\ Cardinality(Guards(p, "shared")) # 0
      BY <2>1, <2>3, <2>5, FS_CardinalityType, FS_EmptySet
    <3>3. Cardinality(Guards(p, "shared")') = local[p].readers - 1
      BY <2>0, <2>1, <2>3, <2>5, FS_RemoveElement DEF LocalOK
    <3>4. local'[p].readers = local[p].readers - 1 /\ local'[p].writer = local[p].writer
      BY <2>0, <3>1, <3>2 DEF LocalState, LocalOK
    <3>5. Guards(p, "exclusive")' = {}
      BY <2>0, <2>1, <2>2, <2>5 DEF LockMode, LocalOK
    <3> QED  BY <3>3, <3>4, <3>5 DEF LocalOK
  <2>6. CASE mode[t] = "exclusive"
    <3>1. local'[p] = [local[p] EXCEPT !.writer = FALSE]
      BY <1>1, <2>6 DEF TypeOK, ReleaseLocal
    <3>2. local'[p].readers = local[p].readers
      BY <2>0, <3>1 DEF LocalState
    <3>3. Guards(p, "exclusive")' = {}
      BY <2>0, <2>1, <2>6 DEF LocalOK
    <3>4. Guards(p, "shared")' = Guards(p, "shared")
      BY <2>2, <2>6 DEF LockMode
    <3> QED  BY <2>0, <3>2, <3>3, <3>4 DEF LocalOK
  <2> QED  BY <1>1, <2>5, <2>6 DEF TypeOK, LockMode
<1> QED  BY <1>3, <1>4 DEF LocalInv

\* Every step keeps the guards and the counters in agreement.
LEMMA LocalStep == TypeOK /\ LocalInv /\ [Next]_vars => LocalInv'
<1> SUFFICES ASSUME TypeOK, LocalInv, [Next]_vars  PROVE LocalInv'
  OBVIOUS
<1>1. ASSUME NEW t \in Thread, NEW m \in LockMode, Open(t, m)  PROVE LocalInv'
  BY <1>1, GuardsKept DEF Open, Goto, Guarded, TypeOK
<1>2. ASSUME NEW t \in Thread, ReleaseLocal(t) \/ AcquireLocal(t)  PROVE LocalInv'
  BY <1>2, TakeGuard, DropGuard
<1>3. ASSUME NEW t \in Thread,
             \/ LocalTimeout(t) \/ OsLock(t) \/ OsTimeout(t) \/ OsError(t)
             \/ RemoveStaleHolder(t) \/ RemoveFails(t)
      PROVE  LocalInv'
  <2>1. local' = local /\ mode' = mode
    BY <1>3 DEF LocalTimeout, OsLock, OsTimeout, OsError, RemoveStaleHolder, RemoveFails
  <2>2. \A u \in Thread : Guarded(u)' <=> Guarded(u)
    BY <1>3 DEF LocalTimeout, OsLock, OsTimeout, OsError, RemoveStaleHolder, RemoveFails, Goto, Guarded, TypeOK
  <2> QED  BY <2>1, <2>2, GuardsKept
<1>4. ASSUME NEW t \in Thread,
             \/ WriteHolder(t) \/ WriteHolderFails(t) \/ DropSidecar(t) \/ DropSidecarFails(t)
             \/ Unlock(t) \/ CloseFile(t)
      PROVE  LocalInv'
  <2>1. local' = local /\ mode' = mode
    BY <1>4 DEF WriteHolder, WriteHolderFails, DropSidecar, DropSidecarFails, Unlock, CloseFile
  <2>2. \A u \in Thread : Guarded(u)' <=> Guarded(u)
    BY <1>4 DEF WriteHolder, WriteHolderFails, DropSidecar, DropSidecarFails, Unlock, CloseFile,
                Goto, Guarded, TypeOK
  <2> QED  BY <2>1, <2>2, GuardsKept
<1>5. ASSUME NEW p \in Proc, Die(p)  PROVE LocalInv'
  <2>1. ASSUME NEW q \in Proc \ {p}  PROVE LocalOK(q)'
    <3>1. local'[q] = local[q]
      BY <1>5 DEF Die, TypeOK
    <3>2. \A m \in LockMode : Guards(q, m)' = Guards(q, m)
      BY <1>5 DEF Die, Guards, Guarded
    <3> QED  BY <3>1, <3>2, LocalKept DEF LocalInv
  <2>2. LocalOK(p)'
    <3>1. local'[p].readers = 0
      BY <1>5 DEF Die, TypeOK, FreshLocal
    <3>2. Guards(p, "shared")' = {} /\ Guards(p, "exclusive")' = {}
      BY <1>5 DEF Die, Guards, Guarded
    <3> QED  BY <3>1, <3>2, FS_EmptySet DEF LocalOK
  <2> QED  BY <2>1, <2>2 DEF LocalInv
<1>6. CASE UNCHANGED vars
  BY <1>6, GuardsKept DEF vars, Guarded
<1> QED
  BY <1>1, <1>2, <1>3, <1>4, <1>5, <1>6 DEF Next, Proceed

\* The in-process lock of locks.rs keeps the threads of one process apart:
\* one that has an exclusive handle, or is about to, is the only one.
THEOREM LocalLockExcludes == Spec => []LocalExclusion
<1>1. Init => LocalInv
  <2> SUFFICES ASSUME Init, NEW p \in Proc  PROVE LocalOK(p)
    BY DEF LocalInv
  <2>1. Guards(p, "shared") = {} /\ Guards(p, "exclusive") = {}
    BY DEF Init, Guards, Guarded
  <2>2. local[p].readers = 0
    BY DEF Init, FreshLocal
  <2> QED  BY <2>1, <2>2, FS_EmptySet DEF LocalOK
<1>2. TypeOK /\ LocalInv => LocalExclusion
  <2> SUFFICES ASSUME TypeOK, LocalInv, NEW s \in Thread, NEW t \in Thread, s # t,
                      ProcOf[s] = ProcOf[t], InUse(s), InUse(t), mode[s] # "shared"
               PROVE  FALSE
    BY ProcOfType DEF LocalExclusion
  <2>1. LocalOK(ProcOf[s]) /\ mode[s] = "exclusive" /\ mode[t] \in LockMode
    BY ProcOfType DEF LocalInv, TypeOK, LockMode
  <2>2. s \in Guards(ProcOf[s], "exclusive") /\ t \in Guards(ProcOf[s], mode[t])
    BY <2>1 DEF Guards, Guarded, InUse
  <2> QED  BY <2>1, <2>2 DEF LocalOK, LockMode
<1> QED
  BY <1>1, <1>2, TypeInit, TypeStep, LocalStep, PTL DEF Spec

-----------------------------------------------------------------------------
\* The handles as the lock of ReadWriteLock.

\* Every step admits one thread beside compatible handles, or lets go of some
\* handles, or leaves all handles as they are.
LEMMA HandleStep ==
  ASSUME TypeOK, LoneExclusion', LocalExclusion', [Next]_vars
  PROVE  [Lock!Next]_([t \in Thread |-> IF InUse(t) THEN mode[t] ELSE "none"])
<1> DEFINE has == [t \in Thread |-> IF InUse(t) THEN mode[t] ELSE "none"]
<1> USE ProcOfType DEF TypeOK, InUse, Goto
<1>1. ASSUME NEW t \in Thread, OsLock(t)
      PROVE  Lock!Acquire(t, mode[t]) /\ mode[t] \in {"shared", "exclusive"}
  <2>1. /\ mode' = mode /\ mode[t] \in LockMode
        /\ \A s \in Thread : s # t => pc'[s] = pc[s]
        /\ pc[t] \in {"os", "late"} /\ pc'[t] \in {"held", "holder"}
    BY <1>1 DEF OsLock
  <2>2. has' = [has EXCEPT ![t] = mode[t]]
    BY <2>1
  <2>3. ASSUME NEW d \in Thread, KeptApart(t, d)
        PROVE  Lock!Compatible(mode[t], has[d])
    <3>1. CASE InUse(d)
      <4>1. InUse(t)' /\ InUse(d)' /\ mode'[t] = mode[t] /\ mode'[d] = mode[d]
        BY <2>1, <2>3, <3>1 DEF KeptApart
      <4>2. mode[t] = "shared" /\ mode[d] = "shared"
        BY <2>3, <4>1 DEF KeptApart, LoneExclusion, LocalExclusion, Alone
      <4> QED BY <3>1, <4>2 DEF Lock!Compatible
    <3>2. CASE ~InUse(d)
      BY <3>2 DEF Lock!Compatible
    <3> QED BY <3>1, <3>2
  <2>4. has[t] = "none"
    BY <2>1
  <2> HIDE DEF has
  <2>5. \A d \in Thread :
            <<t, d>> \in {r \in Thread \X Thread : KeptApart(r[1], r[2])} =>
                Lock!Compatible(mode[t], has[d])
    BY <2>3
  <2> QED
    BY <2>1, <2>2, <2>4, <2>5 DEF Lock!Acquire, LockMode, has
<1>2. ASSUME NEW D \in SUBSET Thread, mode' = mode,
             \A t \in D : ~InUse(t)',
             \A t \in Thread \ D : InUse(t)' <=> InUse(t)
      PROVE  Lock!Release(D)
  BY <1>2 DEF Lock!Release
<1>3. ASSUME NEW t \in Thread, WriteHolderFails(t) \/ DropSidecar(t) \/ DropSidecarFails(t)
      PROVE  Lock!Release({t})
  <2>1. /\ mode' = mode /\ pc'[t] \in {"unwind", "unlock"}
        /\ \A s \in Thread \ {t} : pc'[s] = pc[s]
    BY <1>3 DEF WriteHolderFails, DropSidecar, DropSidecarFails
  <2> QED BY <1>2, <2>1
<1>4. ASSUME NEW p \in Proc, Die(p)
      PROVE  Lock!Release({t \in Thread : ProcOf[t] = p})
  <2>1. /\ mode' = mode
        /\ \A s \in Thread : pc'[s] = IF ProcOf[s] = p THEN "dead" ELSE pc[s]
    BY <1>4 DEF Die
  <2> QED BY <1>2, <2>1
<1>5. ASSUME NEW t \in Thread, NEW m \in LockMode, Open(t, m)
      PROVE  has' = has
  BY <1>5 DEF Open
<1>6. ASSUME NEW t \in Thread,
             \/ AcquireLocal(t) \/ LocalTimeout(t) \/ OsTimeout(t)
             \/ OsError(t) \/ RemoveStaleHolder(t) \/ RemoveFails(t)
             \/ WriteHolder(t) \/ Unlock(t)
             \/ ReleaseLocal(t) \/ CloseFile(t)
      PROVE  has' = has
  <2>1. /\ mode' = mode
        /\ \A s \in Thread : InUse(s)' <=> InUse(s)
    BY <1>6 DEF AcquireLocal, LocalTimeout, OsTimeout, OsError, RemoveStaleHolder,
       RemoveFails, WriteHolder, Unlock, ReleaseLocal, CloseFile
  <2> QED BY <2>1
<1>7. ASSUME UNCHANGED vars PROVE has' = has
  BY <1>7 DEF vars
<1>8. ASSUME NEW D \in SUBSET Thread, Lock!Release(D) PROVE Lock!Next
  BY <1>8 DEF Lock!Next
<1> HIDE DEF has, TypeOK, InUse, Goto
<1>9. ASSUME NEW t \in Thread, OsLock(t) PROVE Lock!Next
  <2>1. mode[t] \in {"shared", "exclusive"} /\ Lock!Acquire(t, mode[t])
    BY <1>1, <1>9
  <2> QED BY <2>1 DEF Lock!Next, Lock!Acquire
<1>10. ASSUME NEW t \in Thread, WriteHolderFails(t) \/ DropSidecar(t) \/ DropSidecarFails(t)
       PROVE  Lock!Next
  <2>1. {t} \in SUBSET Thread
    OBVIOUS
  <2> QED BY <1>3, <1>8, <1>10, <2>1
<1>11. ASSUME NEW p \in Proc, Die(p) PROVE Lock!Next
  <2>1. {t \in Thread : ProcOf[t] = p} \in SUBSET Thread
    OBVIOUS
  <2> QED BY <1>4, <1>8, <1>11, <2>1
<1>12. Lock!Next \/ has' = has
  <2>1. CASE Next
    BY <2>1, <1>5, <1>6, <1>9, <1>10, <1>11, Zenon DEF Next, Proceed
  <2>2. CASE UNCHANGED vars
    BY <2>2, <1>7
  <2> QED BY <2>1, <2>2
<1> QED
  BY <1>12 DEF has

\* The protocol of descriptors, record locks, LocalLock and sidecars implements
\* the reader/writer lock its callers rely on, among lone threads and among
\* the threads of one process, for any number of processes and threads.
THEOREM HandlesImplementLock == Spec => HandlesAreLocks
<1>1. Init => Lock!Init
  BY DEF Init, Lock!Init, InUse
<1>2. /\ TypeOK /\ LoneExclusion' /\ LocalExclusion' /\ [Next]_vars
      => [Lock!Next]_([t \in Thread |-> IF InUse(t) THEN mode[t] ELSE "none"])
  BY HandleStep
<1> QED
  BY <1>1, <1>2, LocksTypeOK, LoneThreadsExclude, LocalLockExcludes, PTL
     DEF Spec, HandlesAreLocks, Lock!Spec
=============================================================================
