------------------------------ MODULE AicxLocks ------------------------------
(***************************************************************************)
(* One advisory lock file of ~/.aicx/locks and every thread that uses it   *)
(* (src/src/locks.rs, Unix build).                                         *)
(*                                                                         *)
(* An acquirer opens the lock file, takes the in-process reader/writer     *)
(* lock (LocalLock), then a POSIX record lock over the whole file, and, if *)
(* exclusive, leaves a ".holder" sidecar naming itself.  The record lock   *)
(* belongs to the PROCESS, not to the descriptor: F_UNLCK, or closing any  *)
(* descriptor of the file, drops whatever the process holds.  Deadlines    *)
(* are not clocks here: while it is blocked, an acquirer may find at any   *)
(* moment that its deadline has passed.                                    *)
(***************************************************************************)
EXTENDS Naturals, FiniteSets

CONSTANTS
    Proc,       \* the CLI and MCP processes that share the store
    Thread,     \* their threads
    ProcOf,     \* the process each thread runs in
    Hindered    \* threads whose removals of the ".holder" file may fail

ASSUME ProcOfType == ProcOf \in [Thread -> Proc]
ASSUME ThreadsAreFinite == IsFiniteSet(Thread)
ASSUME HinderedType == Hindered \subseteq Thread

VARIABLES
    alive,      \* the processes that have not died
    pc,         \* where each thread is in acquire_with_timeout / drop
    mode,       \* the LockMode of its current (or last) request
    osLock,     \* the record lock each process holds on the file
    local,      \* LocalState of each process
    sidecar,    \* the ".holder" file: the token in it names a thread
    left        \* history: that file outlived its handle, whose removal failed

holderFile == <<sidecar, left>>
vars == <<alive, pc, mode, osLock, local, holderFile>>

LockMode == {"shared", "exclusive"}

\* No ".holder" file on disk.
NoHolder == "no holder"

ASSUME NoHolderIsNoThread == NoHolder \notin Thread

\* t is the only thread of its process that takes this lock: every command of
\* the CLI, but not the MCP server, whose tool calls run on blocking threads.
Alone(t) == \A s \in Thread : ProcOf[s] = ProcOf[t] => s = t

\* pc values: "idle" no handle and no request; "local" fd open, waiting for
\* the LocalLock; "os" and "late" polling fcntl before and after the deadline
\* was seen to pass; "recover" about to delete a dead holder's sidecar;
\* "holder" record lock taken, write_holder running; "held" the LockHandle is
\* the caller's; "unlock" and "unwind" inside drop; "close" local guard gone,
\* descriptor still open.
Label == {"idle", "local", "os", "late", "recover", "holder", "held",
          "unlock", "unwind", "close", "dead"}

LocalState == [readers : Nat, writer : BOOLEAN]
FreshLocal == [readers |-> 0, writer |-> FALSE]

Init == /\ alive = Proc
        /\ pc = [t \in Thread |-> "idle"]
        /\ mode = [t \in Thread |-> "shared"]
        /\ osLock = [p \in Proc |-> "none"]
        /\ local = [p \in Proc |-> FreshLocal]
        /\ sidecar = NoHolder /\ left = FALSE

Goto(t, label) == pc' = [pc EXCEPT ![t] = label]

-----------------------------------------------------------------------------
\* The record lock, as the kernel grants it (fcntl F_SETLK).

\* Mutant: an exclusive request is refused by another writer only.
ConflictIgnoresReaders(p, m) == \E q \in Proc \ {p} : osLock[q] = "exclusive"

\* Another process holds a record lock that conflicts with m.
Conflict(p, m) ==
    \E q \in Proc \ {p} : \/ osLock[q] = "exclusive"
                          \/ osLock[q] = "shared" /\ m = "exclusive"

\* F_UNLCK on, or close of, any descriptor of p: the whole lock of p is gone.
DropRecordLock(p) == osLock' = [osLock EXCEPT ![p] = "none"]

-----------------------------------------------------------------------------
\* acquire_with_timeout

\* Enter: open the lock file.
Open(t, m) ==
    /\ pc[t] = "idle"
    /\ Goto(t, "local")
    /\ mode' = [mode EXCEPT ![t] = m]
    /\ UNCHANGED <<alive, osLock, local, holderFile>>

\* Mutant: a local writer does not wait for the local readers.
CanAcquireLocalIgnoresReaders(p, m) == ~local[p].writer

CanAcquireLocal(p, m) == /\ ~local[p].writer
                         /\ m = "exclusive" => local[p].readers = 0

\* acquire_local succeeds.
AcquireLocal(t) ==
    LET p == ProcOf[t] IN
    /\ pc[t] = "local"
    /\ CanAcquireLocal(p, mode[t])
    /\ local' = IF mode[t] = "shared"
                THEN [local EXCEPT ![p].readers = @ + 1]
                ELSE [local EXCEPT ![p].writer = TRUE]
    /\ Goto(t, "os")
    /\ UNCHANGED <<alive, mode, osLock, holderFile>>

\* acquire_local runs past the deadline: the error return closes the file.
LocalTimeout(t) ==
    /\ pc[t] = "local"
    /\ ~CanAcquireLocal(ProcOf[t], mode[t])
    /\ DropRecordLock(ProcOf[t])
    /\ Goto(t, "idle")
    /\ UNCHANGED <<alive, mode, local, holderFile>>

\* os_try_lock succeeds; a shared handle is returned at once, an exclusive
\* acquirer goes on to write_holder.
OsLock(t) ==
    LET p == ProcOf[t] IN
    /\ pc[t] \in {"os", "late"}
    /\ ~Conflict(p, mode[t])
    /\ osLock' = [osLock EXCEPT ![p] = mode[t]]
    /\ Goto(t, IF mode[t] = "shared" THEN "held" ELSE "holder")
    /\ UNCHANGED <<alive, mode, local, holderFile>>

\* What the liveness probe may answer for a pid read from the sidecar: a dead
\* process may look alive (undecidable probe, recycled pid), never the reverse.
PidIsAlive(p) == IF p \in alive THEN {TRUE} ELSE BOOLEAN

\* os_try_lock fails for another reason than a conflict: the error return drops
\* the local guard, then the file.
OsError(t) ==
    /\ pc[t] \in {"os", "late"}
    /\ Goto(t, "unwind")
    /\ UNCHANGED <<alive, mode, osLock, local, holderFile>>

\* Mutant: a request that is refused past its deadline polls on.
OsTimeoutWaits(t) ==
    /\ pc[t] \in {"os", "late"}
    /\ Conflict(ProcOf[t], mode[t])
    /\ IF sidecar = NoHolder
       THEN Goto(t, "late")
       ELSE \E live \in PidIsAlive(ProcOf[sidecar]) :
                Goto(t, IF live THEN "late" ELSE "recover")
    /\ UNCHANGED <<alive, mode, osLock, local, holderFile>>

\* os_try_lock would block past the deadline and handle_lock_timeout reads the
\* sidecar: no sidecar or a live holder fails the request, a dead one is
\* about to be cleaned up.
OsTimeout(t) ==
    /\ pc[t] \in {"os", "late"}
    /\ Conflict(ProcOf[t], mode[t])
    /\ IF sidecar = NoHolder
       THEN Goto(t, "unwind")
       ELSE \E live \in PidIsAlive(ProcOf[sidecar]) :
                Goto(t, IF live THEN "unwind" ELSE "recover")
    /\ UNCHANGED <<alive, mode, osLock, local, holderFile>>

\* The second half of handle_lock_timeout: delete the sidecar, retry at once.
RemoveStaleHolder(t) ==
    /\ pc[t] = "recover"
    /\ sidecar' = NoHolder /\ left' = FALSE
    /\ Goto(t, "late")
    /\ UNCHANGED <<alive, mode, osLock, local>>

\* remove_file fails and its error is ignored: the request retries at once, and
\* at the next conflict finds the same dead holder.
RemoveFails(t) ==
    /\ t \in Hindered /\ pc[t] = "recover"
    /\ Goto(t, "late")
    /\ UNCHANGED <<alive, mode, osLock, local, holderFile>>

\* write_holder replaces the sidecar (atomic_write) and the handle is returned.
WriteHolder(t) ==
    /\ pc[t] = "holder"
    /\ sidecar' = t /\ left' = FALSE
    /\ Goto(t, "held")
    /\ UNCHANGED <<alive, mode, osLock, local>>

\* Mutant: the descriptor survives the error return.
WriteHolderFailsLeaks(t) ==
    /\ pc[t] = "holder"
    /\ local' = [local EXCEPT ![ProcOf[t]].writer = FALSE]
    /\ Goto(t, "idle")
    /\ UNCHANGED <<alive, mode, osLock, holderFile>>

\* write_holder fails: the error return drops the local guard, then the file.
WriteHolderFails(t) ==
    /\ pc[t] = "holder"
    /\ Goto(t, "unwind")
    /\ UNCHANGED <<alive, mode, osLock, local, holderFile>>

-----------------------------------------------------------------------------
\* Drop for LockHandle, then the fields of the struct.

\* Mutant: drop leaves the sidecar behind.
DropSidecarForgets(t) ==
    /\ pc[t] = "held"
    /\ Goto(t, "unlock")
    /\ UNCHANGED <<alive, mode, osLock, local, holderFile>>

\* Only an exclusive handle has a sidecar, and it is removed only while it
\* carries this handle's token.
OwnsSidecar(t) == mode[t] = "exclusive" /\ sidecar = t

DropSidecar(t) ==
    /\ pc[t] = "held"
    /\ IF OwnsSidecar(t) THEN sidecar' = NoHolder /\ left' = FALSE
                         ELSE UNCHANGED holderFile
    /\ Goto(t, "unlock")
    /\ UNCHANGED <<alive, mode, osLock, local>>

\* The removal fails, its error is ignored, and drop goes on.
DropSidecarFails(t) ==
    /\ t \in Hindered /\ pc[t] = "held"
    /\ OwnsSidecar(t)
    /\ left' = TRUE
    /\ Goto(t, "unlock")
    /\ UNCHANGED <<alive, mode, osLock, local, sidecar>>

\* os_unlock
Unlock(t) ==
    /\ pc[t] = "unlock"
    /\ DropRecordLock(ProcOf[t])
    /\ Goto(t, "unwind")
    /\ UNCHANGED <<alive, mode, local, holderFile>>

\* Mutant: every guard is released as if it were a reader's.
ReleaseLocalAsReader(t) ==
    /\ pc[t] = "unwind"
    /\ local' = [local EXCEPT ![ProcOf[t]].readers = @ - 1]
    /\ Goto(t, "close")
    /\ UNCHANGED <<alive, mode, osLock, holderFile>>

\* Drop for LocalGuard.
ReleaseLocal(t) ==
    LET p == ProcOf[t] IN
    /\ pc[t] = "unwind"
    /\ local' = IF mode[t] = "shared"
                THEN [local EXCEPT ![p].readers = IF @ = 0 THEN 0 ELSE @ - 1]
                ELSE [local EXCEPT ![p].writer = FALSE]
    /\ Goto(t, "close")
    /\ UNCHANGED <<alive, mode, osLock, holderFile>>

\* The File is dropped last: close(2).
CloseFile(t) ==
    /\ pc[t] = "close"
    /\ DropRecordLock(ProcOf[t])
    /\ Goto(t, "idle")
    /\ UNCHANGED <<alive, mode, local, holderFile>>

-----------------------------------------------------------------------------
\* A process dies: the kernel closes its descriptors, its sidecar stays.
Die(p) ==
    /\ p \in alive
    /\ alive' = alive \ {p}
    /\ pc' = [t \in Thread |-> IF ProcOf[t] = p THEN "dead" ELSE pc[t]]
    /\ DropRecordLock(p)
    /\ local' = [local EXCEPT ![p] = FreshLocal]
    /\ UNCHANGED <<mode, holderFile>>

\* The steps a thread that is inside this module keeps taking.
Proceed(t) ==
    \/ AcquireLocal(t) \/ LocalTimeout(t)
    \/ OsLock(t) \/ OsTimeout(t) \/ RemoveStaleHolder(t) \/ RemoveFails(t)
    \/ WriteHolder(t) \/ WriteHolderFails(t)
    \/ Unlock(t) \/ ReleaseLocal(t) \/ CloseFile(t)

Next == \/ \E t \in Thread : \/ \E m \in LockMode : Open(t, m)
                             \/ Proceed(t)
                             \/ OsError(t)
                             \/ DropSidecar(t) \/ DropSidecarFails(t)
        \/ \E p \in Proc : Die(p)

Spec == Init /\ [][Next]_vars

\* The scheduler keeps running every thread that is inside acquire or drop,
\* and deadlines do pass.  Nobody is obliged to ask, to let go, or to die.
FairSpec == Spec /\ \A t \in Thread : WF_vars(Proceed(t))

-----------------------------------------------------------------------------
TypeOK ==
    /\ alive \subseteq Proc
    /\ pc \in [Thread -> Label]
    /\ mode \in [Thread -> LockMode]
    /\ osLock \in [Proc -> LockMode \union {"none"}]
    /\ local \in [Proc -> LocalState]
    /\ sidecar \in Thread \union {NoHolder} /\ left \in BOOLEAN

\* The thread owns a handle, or is writing the holder record under the lock.
InUse(t) == pc[t] \in {"holder", "held"}

\* "so separate CLI/MCP processes serialize writes to shared state"
\* (locks.rs, module comment): an exclusive handle excludes every other
\* handle, whichever process and thread it belongs to.
MutualExclusion ==
    \A s, t \in Thread :
        s # t /\ InUse(s) /\ InUse(t) =>
            mode[s] = "shared" /\ mode[t] = "shared"

\* The same among the processes that have one thread on the lock, whatever the
\* processes with several do.
LoneExclusion ==
    \A s, t \in Thread :
        /\ s # t /\ Alone(s) /\ Alone(t) /\ InUse(s) /\ InUse(t)
        => mode[s] = "shared" /\ mode[t] = "shared"

\* The same among the threads of one process, which LocalLock is there for.
LocalExclusion ==
    \A s, t \in Thread :
        /\ s # t /\ ProcOf[s] = ProcOf[t] /\ InUse(s) /\ InUse(t)
        => mode[s] = "shared" /\ mode[t] = "shared"

\* A handle is the lock of ReadWriteLock, in the mode it was asked for, among
\* lone threads and among the threads of one process: it is granted beside
\* compatible handles only, kept in that mode, and given up whenever the code
\* drops it, fails after the grant, or dies; no other step grants or takes it.
KeptApart(s, t) == /\ s # t
                   /\ \/ ProcOf[s] = ProcOf[t]
                      \/ Alone(s) /\ Alone(t)
Lock == INSTANCE ReadWriteLock WITH
            Client <- Thread,
            Rival  <- {r \in Thread \X Thread : KeptApart(r[1], r[2])},
            held   <- [t \in Thread |-> IF InUse(t) THEN mode[t] ELSE "none"]

HandlesAreLocks == Lock!Spec

\* handle_lock_timeout tells the operator to kill the pid in the sidecar.  If
\* that process is alive, the thread it names really has the exclusive lock,
\* unless the removal of that very file failed when its handle was dropped.
KillAdviceNamesHolder ==
    sidecar # NoHolder /\ ~left /\ ProcOf[sidecar] \in alive =>
        pc[sidecar] = "held" /\ mode[sidecar] = "exclusive"

\* The handle of a thread that is alone in its process keeps the record lock
\* until it is dropped, whatever the others do; and no record lock outlives
\* the request it was taken for, in any process.
LockFollowsHandle ==
    /\ \A t \in Thread : Alone(t) /\ pc[t] \in {"holder", "held", "unlock"} =>
           osLock[ProcOf[t]] = mode[t]
    /\ \A p \in Proc : osLock[p] # "none" =>
           \E t \in Thread :
               /\ ProcOf[t] = p
               /\ pc[t] \in {"holder", "held", "unlock", "unwind", "close"}

\* A request comes back with the handle or an error, however long the holder
\* keeps the lock and whoever dies meanwhile, unless its removals of a dead
\* holder's sidecar fail for ever: then it spins past its deadline.
AcquireReturns ==
    \A t \in Thread :
        <>[][~RemoveFails(t)]_vars =>
            (pc[t] \in {"local", "os", "late", "recover"} ~>
                 pc[t] \in {"held", "idle", "dead"})
=============================================================================
