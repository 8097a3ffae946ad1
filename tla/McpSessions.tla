----------------------------- MODULE McpSessions -----------------------------
(***************************************************************************)
(* The HTTP sessions of the MCP server: AicxSessionManager                 *)
(* (src/src/mcp.rs) caps the number of rmcp's sessions and closes those    *)
(* nobody has used for a while.  It keeps `last_seen` beside rmcp's own    *)
(* map, and no operation holds both locks, or any lock over an await: the  *)
(* requests and the cleanup task interleave between any two of its steps.  *)
(*                                                                         *)
(* rmcp's LocalSessionManager is external: create_session inserts a new    *)
(* id, close_session removes the id if it is there and may then report an  *)
(* error, everything else succeeds only for an id that is there.           *)
(***************************************************************************)
EXTENDS Naturals, FiniteSets

CONSTANTS
    Id,             \* session ids; rmcp never hands one out twice
    Task,           \* HTTP requests in progress
    Ticker,         \* the task of spawn_mcp_session_cleanup
    MaxSessions,    \* max_sessions
    Cancellable,    \* awaits at which a request's future may be dropped
    None            \* no session

Actor == Task \union {Ticker}

\* The awaits of an operation, named for the step that follows.
Label == {"idle", "sweep", "next", "forget", "close", "count", "create",
          "restore", "has", "use", "first touch", "touch", "remove"}

ASSUME SessionsAssumption ==
    /\ None \notin Id
    /\ Ticker \notin Task
    /\ MaxSessions \in Nat \ {0}
    /\ Cancellable \subseteq Label

VARIABLES
    live,       \* inner.sessions
    used,       \* ids rmcp has handed out
    lastSeen,   \* last_seen: no entry, within idle_ttl, or past it
    pc,         \* where each actor is
    op,         \* the operation it runs
    target,     \* the session its operation is about
    expired,    \* sweep: the entries still to close that nobody has touched since
    closing     \* the session it closes

vars == <<live, used, lastSeen, pc, op, target, expired, closing>>

Init ==
    /\ live = {} /\ used = {}
    /\ lastSeen = [i \in Id |-> "none"]
    /\ pc = [a \in Actor |-> "idle"]
    /\ op = [a \in Actor |-> "none"]
    /\ target = [a \in Actor |-> None]
    /\ expired = [a \in Actor |-> {}]
    /\ closing = [a \in Actor |-> None]

-----------------------------------------------------------------------------
Goto(a, label) == pc' = [pc EXCEPT ![a] = label]

Finish(a) ==
    /\ pc' = [pc EXCEPT ![a] = "idle"]
    /\ op' = [op EXCEPT ![a] = "none"]
    /\ target' = [target EXCEPT ![a] = None]

\* The actor's operation returns, with or without an error.
Return(a) ==
    /\ Finish(a)
    /\ expired' = [expired EXCEPT ![a] = {}]
    /\ closing' = [closing EXCEPT ![a] = None]

\* still_expired compares with the moment the sweep began: an entry that was
\* replaced or removed since is passed over, however long the sweep takes.
StillExpired(i) == [a \in Actor |-> expired[a] \ {i}]

-----------------------------------------------------------------------------
\* What requests and the ticker begin.

\* create_session and restore_session sweep first; so does every tick.
BeginCreate(a) ==
    /\ a \in Task /\ pc[a] = "idle"
    /\ op' = [op EXCEPT ![a] = "create"]
    /\ Goto(a, "sweep")
    /\ UNCHANGED <<live, used, lastSeen, target, expired, closing>>

BeginRestore(a, i) ==
    /\ a \in Task /\ pc[a] = "idle" /\ i \in used
    /\ op' = [op EXCEPT ![a] = "restore"]
    /\ target' = [target EXCEPT ![a] = i]
    /\ Goto(a, "sweep")
    /\ UNCHANGED <<live, used, lastSeen, expired, closing>>

\* A message or a stream for a session: has_session, then the operation.
BeginRequest(a, i) ==
    /\ a \in Task /\ pc[a] = "idle" /\ i \in used
    /\ op' = [op EXCEPT ![a] = "request"]
    /\ target' = [target EXCEPT ![a] = i]
    /\ Goto(a, "has")
    /\ UNCHANGED <<live, used, lastSeen, expired, closing>>

\* The client deletes its session, or rmcp's worker of it has ended.
BeginClose(a, i) ==
    /\ a \in Task /\ pc[a] = "idle" /\ i \in used
    /\ op' = [op EXCEPT ![a] = "close"]
    /\ closing' = [closing EXCEPT ![a] = i]
    /\ Goto(a, "forget")
    /\ UNCHANGED <<live, used, lastSeen, target, expired>>

Tick ==
    /\ pc[Ticker] = "idle"
    /\ op' = [op EXCEPT ![Ticker] = "sweep"]
    /\ Goto(Ticker, "sweep")
    /\ UNCHANGED <<live, used, lastSeen, target, expired, closing>>

-----------------------------------------------------------------------------
\* sweep_idle_sessions_at

ListExpired(a) ==
    /\ pc[a] = "sweep"
    /\ expired' = [expired EXCEPT ![a] = {i \in Id : lastSeen[i] = "idle"}]
    /\ Goto(a, "next")
    /\ UNCHANGED <<live, used, lastSeen, op, target, closing>>

\* still_expired; close_session comes after the lock was given back.
Recheck(a, i) ==
    /\ pc[a] = "next" /\ i \in expired[a]
    /\ expired' = [expired EXCEPT ![a] = @ \ {i}]
    /\ closing' = [closing EXCEPT ![a] = i]
    /\ Goto(a, "forget")
    /\ UNCHANGED <<live, used, lastSeen, op, target>>

\* Mutant: every sweep goes on to the capacity check.
SweepThenCount(a) ==
    /\ pc[a] = "next" /\ expired[a] = {}
    /\ Goto(a, "count")
    /\ UNCHANGED <<live, used, lastSeen, op, target, expired, closing>>

SweepDone(a) ==
    /\ pc[a] = "next" /\ expired[a] = {}
    /\ \/ op[a] = "sweep" /\ Return(a)
       \/ /\ op[a] # "sweep"
          /\ Goto(a, "count")
          /\ UNCHANGED <<op, target, expired, closing>>
    /\ UNCHANGED <<live, used, lastSeen>>

-----------------------------------------------------------------------------
\* close_session: last_seen first, rmcp's session after it.

\* Mutant: rmcp's session is closed while its entry is left to the sweep.
ForgetNothing(a) ==
    /\ pc[a] = "forget"
    /\ Goto(a, "close")
    /\ UNCHANGED <<live, used, lastSeen, op, target, expired, closing>>

Forget(a) ==
    /\ pc[a] = "forget"
    /\ lastSeen' = [lastSeen EXCEPT ![closing[a]] = "none"]
    /\ expired' = StillExpired(closing[a])
    /\ Goto(a, "close")
    /\ UNCHANGED <<live, used, op, target, closing>>

CloseInner(a) ==
    /\ pc[a] = "close"
    /\ live' = live \ {closing[a]}
    /\ \/ op[a] = "close" /\ Return(a)
       \/ /\ op[a] # "close"
          /\ Goto(a, "next")
          /\ closing' = [closing EXCEPT ![a] = None]
          /\ UNCHANGED <<op, target, expired>>
    /\ UNCHANGED <<used, lastSeen>>

\* The session's worker is gone: the error ends the sweep, and the creation
\* that swept, with the rest of the list unvisited.
CloseFails(a) ==
    /\ pc[a] = "close" /\ closing[a] \in live
    /\ live' = live \ {closing[a]}
    /\ Return(a)
    /\ UNCHANGED <<used, lastSeen>>

-----------------------------------------------------------------------------
\* ensure_session_capacity, create_session, restore_session

\* Mutant: the cap is compared with >.
CountOffByOne(a) ==
    /\ pc[a] = "count"
    /\ \/ Cardinality(live) > MaxSessions /\ Return(a)
       \/ /\ Cardinality(live) <= MaxSessions
          /\ Goto(a, op[a])
          /\ UNCHANGED <<op, target, expired, closing>>
    /\ UNCHANGED <<live, used, lastSeen>>

Count(a) ==
    /\ pc[a] = "count"
    /\ \/ Cardinality(live) >= MaxSessions /\ Return(a)
       \/ /\ Cardinality(live) < MaxSessions
          /\ Goto(a, op[a])
          /\ UNCHANGED <<op, target, expired, closing>>
    /\ UNCHANGED <<live, used, lastSeen>>

Create(a, i) ==
    /\ pc[a] = "create" /\ i \notin used
    /\ used' = used \union {i} /\ live' = live \union {i}
    /\ target' = [target EXCEPT ![a] = i]
    /\ Goto(a, "first touch")
    /\ UNCHANGED <<lastSeen, op, expired, closing>>

\* AlreadyPresent or NotSupported: the server configures no store from which
\* rmcp could restore a session.
Restore(a) ==
    /\ pc[a] = "restore"
    /\ Goto(a, IF target[a] \in live THEN "touch" ELSE "remove")
    /\ UNCHANGED <<live, used, lastSeen, op, target, expired, closing>>

-----------------------------------------------------------------------------
\* has_session, and the operations behind it

HasSession(a) ==
    /\ pc[a] = "has"
    /\ Goto(a, IF target[a] \in live THEN "first touch" ELSE "remove")
    /\ UNCHANGED <<live, used, lastSeen, op, target, expired, closing>>

\* Mutant: a session found alive is not touched.
TouchForgotten(a) ==
    /\ pc[a] \in {"first touch", "touch"}
    /\ \/ pc[a] = "first touch" /\ Goto(a, "use")
          /\ UNCHANGED <<op, target, expired, closing>>
       \/ pc[a] = "touch" /\ Return(a)
    /\ UNCHANGED <<live, used, lastSeen>>

\* touch_session; a creation goes on with initialize_session, has_session
\* with what the request is for, and the touch after those is the last step.
Touch(a) ==
    LET i == target[a] IN
    /\ pc[a] \in {"first touch", "touch"}
    /\ lastSeen' = [lastSeen EXCEPT ![i] = "fresh"]
    /\ expired' = StillExpired(i)
    /\ \/ pc[a] = "first touch" /\ Goto(a, "use") /\ UNCHANGED <<op, target>>
       \/ pc[a] = "touch" /\ Finish(a)
    /\ UNCHANGED <<live, used, closing>>

\* initialize_session, create_stream, accept_message,
\* create_standalone_stream, resume
UseSession(a) ==
    /\ pc[a] = "use" /\ target[a] \in live
    /\ Goto(a, "touch")
    /\ UNCHANGED <<live, used, lastSeen, op, target, expired, closing>>

\* has_session of a session that is gone; restore_session's NotSupported.
RemoveEntry(a) ==
    /\ pc[a] = "remove"
    /\ lastSeen' = [lastSeen EXCEPT ![target[a]] = "none"]
    /\ expired' = StillExpired(target[a])
    /\ Finish(a)
    /\ UNCHANGED <<live, used, closing>>

\* rmcp refuses: no such session, a full channel, a failed spawn.
InnerFails(a) ==
    /\ pc[a] \in {"create", "use", "restore"}
    /\ Return(a)
    /\ UNCHANGED <<live, used, lastSeen>>

-----------------------------------------------------------------------------
\* idle_ttl passes without a touch.
Idle(i) ==
    /\ lastSeen[i] = "fresh"
    /\ lastSeen' = [lastSeen EXCEPT ![i] = "idle"]
    /\ UNCHANGED <<live, used, pc, op, target, expired, closing>>

\* The client hangs up and the request's future is dropped at an await.
Cancel(a) ==
    /\ a \in Task /\ pc[a] \in Cancellable \ {"idle"}
    /\ Return(a)
    /\ UNCHANGED <<live, used, lastSeen>>

\* What an actor does next once its operation has begun.
Step(a) ==
    \/ ListExpired(a) \/ SweepDone(a)
    \/ \E i \in Id : Recheck(a, i) \/ Create(a, i)
    \/ Forget(a) \/ CloseInner(a) \/ CloseFails(a)
    \/ Count(a) \/ Restore(a) \/ InnerFails(a)
    \/ HasSession(a) \/ Touch(a) \/ UseSession(a) \/ RemoveEntry(a)

\* A client speaks to session i.
Asks(i) == \E a \in Task : BeginRequest(a, i) \/ BeginRestore(a, i)

Next ==
    \/ \E a \in Task : BeginCreate(a) \/ Cancel(a)
    \/ \E i \in Id : Asks(i) \/ Idle(i) \/ (\E a \in Task : BeginClose(a, i))
    \/ Tick
    \/ \E a \in Actor : Step(a)

Spec == Init /\ [][Next]_vars

\* The runtime polls every future that is ready, the interval ticks, time
\* passes; nobody is obliged to send a request.
Fairness ==
    /\ \A a \in Actor : WF_vars(Step(a))
    /\ WF_vars(Tick)
    /\ \A i \in Id : WF_vars(Idle(i))

FairSpec == Spec /\ Fairness

-----------------------------------------------------------------------------
\* The ticker only sweeps and closes.
TypeOK ==
    /\ used \subseteq Id /\ live \subseteq used
    /\ lastSeen \in [Id -> {"none", "fresh", "idle"}]
    /\ pc \in [Actor -> Label]
    /\ pc[Ticker] \in {"idle", "sweep", "next", "forget", "close"}
    /\ op \in [Actor -> {"none", "sweep", "create", "restore", "request", "close"}]
    /\ target \in [Actor -> Id \union {None}]
    /\ expired \in [Actor -> SUBSET Id]
    /\ closing \in [Actor -> Id \union {None}]

\* The sweep can find session i, or somebody is about to enter or to close it.
Tracked(i) ==
    \/ lastSeen[i] # "none"
    \/ \E a \in Actor : pc[a] = "first touch" /\ target[a] = i
    \/ \E a \in Actor : pc[a] = "close" /\ closing[a] = i

\* The sweep walks last_seen and the cap counts rmcp's map: a session that
\* is in the second and not in the first counts against the cap for ever.
\* None is, but for one whose first touch, or whose close, is under way
\* (and is not abandoned there).
LiveSessionsAreTracked == \A i \in live : Tracked(i)

\* Requests that have passed the cap and have not created their session yet.
Admitted == {a \in Task : pc[a] \in {"create", "restore"}}

\* The sessions are counted and one is created after an await, so requests in
\* progress may all pass the check.  The cap is exceeded by no more than the
\* requests in progress besides one, however long this goes on: what has
\* been admitted never adds up.
OvershootIsBounded ==
    Cardinality(live) + Cardinality(Admitted) < MaxSessions + Cardinality(Task)

\* A session nobody speaks to any more ends up in neither map, whatever the
\* late touches, half-done closes and failed sweeps around it.
QuietSessionsVanish ==
    \A i \in Id :
        <>[][~Asks(i)]_vars => <>[](i \notin live /\ lastSeen[i] = "none")
=============================================================================
