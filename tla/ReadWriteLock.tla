---------------------------- MODULE ReadWriteLock ----------------------------
(***************************************************************************)
(* What a lock file of ~/.aicx/locks promises its users, without           *)
(* descriptors, record locks, sidecars or deadlines: "separate CLI/MCP     *)
(* processes serialize writes to shared state" (src/src/locks.rs).         *)
(***************************************************************************)

CONSTANTS Client,   \* those who may ask for the lock
          Rival     \* the pairs of clients the lock keeps apart

VARIABLE held       \* the mode in which each client has the lock, if any

Init == held = [c \in Client |-> "none"]

Compatible(m, n) == "exclusive" \in {m, n} => "none" \in {m, n}

\* One client at a time is admitted, beside what its rivals have.
Acquire(c, m) ==
    /\ held[c] = "none"
    /\ \A d \in Client : <<c, d>> \in Rival => Compatible(m, held[d])
    /\ held' = [held EXCEPT ![c] = m]

\* A client lets go, or a process dies and all its threads let go at once.
Release(D) == held' = [c \in Client |-> IF c \in D THEN "none" ELSE held[c]]

Next == \/ \E c \in Client, m \in {"shared", "exclusive"} : Acquire(c, m)
        \/ \E D \in SUBSET Client : Release(D)

Spec == Init /\ [][Next]_held
=============================================================================
