------------------------- MODULE McpSessionsProofs -------------------------
(***************************************************************************)
(* Theorems about McpSessions, for any number of ids, requests and         *)
(* sessions allowed.                                                       *)
(***************************************************************************)
EXTENDS McpSessions, FiniteSetTheorems, TLAPS

\* What an actor has in hand at each of its awaits.
ActorOK(a) ==
    /\ pc[a] \in {"sweep", "next", "count"} => op[a] \in {"sweep", "create", "restore"}
    /\ pc[a] \in {"forget", "close"} =>
           op[a] \in {"sweep", "create", "restore", "close"} /\ closing[a] \in Id
    /\ op[a] = "restore" => target[a] \in used
    /\ pc[a] \in {"restore", "has", "use", "first touch", "touch", "remove"} =>
           target[a] \in used
    /\ pc[a] = "count" => op[a] # "sweep"
    /\ pc[a] = "remove" => target[a] \notin live

TickerOK == op[Ticker] \in {"none", "sweep"}

SessionsInv == TypeOK /\ TickerOK /\ (\A a \in Actor : ActorOK(a))

-----------------------------------------------------------------------------
\* The steps the specification is made of.
LEMMA NextCases ==
    ASSUME Next
    PROVE  \/ \E a \in Task : BeginCreate(a)
           \/ \E a \in Task : Cancel(a)
           \/ \E a \in Task, i \in Id : BeginRequest(a, i)
           \/ \E a \in Task, i \in Id : BeginRestore(a, i)
           \/ \E a \in Task, i \in Id : BeginClose(a, i)
           \/ \E i \in Id : Idle(i)
           \/ Tick
           \/ \E a \in Actor : ListExpired(a)
           \/ \E a \in Actor : SweepDone(a)
           \/ \E a \in Actor, i \in Id : Recheck(a, i)
           \/ \E a \in Actor, i \in Id : Create(a, i)
           \/ \E a \in Actor : Forget(a)
           \/ \E a \in Actor : CloseInner(a)
           \/ \E a \in Actor : CloseFails(a)
           \/ \E a \in Actor : Count(a)
           \/ \E a \in Actor : Restore(a)
           \/ \E a \in Actor : InnerFails(a)
           \/ \E a \in Actor : HasSession(a)
           \/ \E a \in Actor : Touch(a)
           \/ \E a \in Actor : UseSession(a)
           \/ \E a \in Actor : RemoveEntry(a)
BY DEF Next, Step, Asks, Actor

LEMMA InvInit == Init => SessionsInv
<1> SUFFICES ASSUME Init PROVE SessionsInv
  OBVIOUS
<1>1. TypeOK
  BY DEF Init, TypeOK, Label, Actor
<1>2. TickerOK
  BY DEF Init, TickerOK, Actor
<1>3. \A a \in Actor : ActorOK(a)
  BY DEF Init, ActorOK
<1> QED
  BY <1>1, <1>2, <1>3 DEF SessionsInv

LEMMA ReturnKeepsInv ==
    ASSUME SessionsInv, NEW a \in Actor, Return(a), live' \subseteq live,
           UNCHANGED <<used, lastSeen>>
    PROVE  SessionsInv'
<1> USE SessionsAssumption DEF SessionsInv, Actor, Return, Finish
<1>1. TypeOK'
  BY DEF TypeOK, Label
<1>2. TickerOK'
  BY DEF TypeOK, TickerOK
<1>3. ASSUME NEW b \in Actor PROVE ActorOK(b)'
  BY <1>3 DEF TypeOK, ActorOK
<1> QED
  BY <1>1, <1>2, <1>3

LEMMA InvStep == SessionsInv /\ [Next]_vars => SessionsInv'
<1> SUFFICES ASSUME SessionsInv, [Next]_vars PROVE SessionsInv'
  OBVIOUS
<1> USE SessionsAssumption DEF SessionsInv, Actor
<1>1. ASSUME NEW a \in Task, BeginCreate(a) PROVE SessionsInv'
  <2>1. TypeOK'
    BY <1>1 DEF TypeOK, Label, TickerOK, ActorOK, BeginCreate, Goto
  <2>2. TickerOK'
    BY <1>1 DEF TypeOK, TickerOK, BeginCreate, Goto
  <2>3. ASSUME NEW b \in Actor PROVE ActorOK(b)'
    BY <1>1, <2>3 DEF TypeOK, TickerOK, ActorOK, BeginCreate, Goto
  <2> QED
    BY <2>1, <2>2, <2>3
<1>2. ASSUME NEW a \in Task, Cancel(a) PROVE SessionsInv'
  BY <1>2, ReturnKeepsInv DEF Cancel
<1>3. ASSUME NEW a \in Task, NEW i \in Id, BeginRequest(a, i) PROVE SessionsInv'
  <2>1. TypeOK'
    BY <1>3 DEF TypeOK, Label, TickerOK, ActorOK, BeginRequest, Goto
  <2>2. TickerOK'
    BY <1>3 DEF TypeOK, TickerOK, BeginRequest, Goto
  <2>3. ASSUME NEW b \in Actor PROVE ActorOK(b)'
    BY <1>3, <2>3 DEF TypeOK, TickerOK, ActorOK, BeginRequest, Goto
  <2> QED
    BY <2>1, <2>2, <2>3
<1>4. ASSUME NEW a \in Task, NEW i \in Id, BeginRestore(a, i) PROVE SessionsInv'
  <2>1. TypeOK'
    BY <1>4 DEF TypeOK, Label, TickerOK, ActorOK, BeginRestore, Goto
  <2>2. TickerOK'
    BY <1>4 DEF TypeOK, TickerOK, BeginRestore, Goto
  <2>3. ASSUME NEW b \in Actor PROVE ActorOK(b)'
    BY <1>4, <2>3 DEF TypeOK, TickerOK, ActorOK, BeginRestore, Goto
  <2> QED
    BY <2>1, <2>2, <2>3
<1>5. ASSUME NEW a \in Task, NEW i \in Id, BeginClose(a, i) PROVE SessionsInv'
  <2>1. TypeOK'
    BY <1>5 DEF TypeOK, Label, TickerOK, ActorOK, BeginClose, Goto
  <2>2. TickerOK'
    BY <1>5 DEF TypeOK, TickerOK, BeginClose, Goto
  <2>3. ASSUME NEW b \in Actor PROVE ActorOK(b)'
    BY <1>5, <2>3 DEF TypeOK, TickerOK, ActorOK, BeginClose, Goto
  <2> QED
    BY <2>1, <2>2, <2>3
<1>6. ASSUME NEW i \in Id, Idle(i) PROVE SessionsInv'
  <2>1. TypeOK'
    BY <1>6 DEF TypeOK, Label, TickerOK, ActorOK, Idle
  <2>2. TickerOK'
    BY <1>6 DEF TypeOK, TickerOK, Idle
  <2>3. ASSUME NEW b \in Actor PROVE ActorOK(b)'
    BY <1>6, <2>3 DEF TypeOK, TickerOK, ActorOK, Idle
  <2> QED
    BY <2>1, <2>2, <2>3
<1>7. ASSUME Tick PROVE SessionsInv'
  <2>1. TypeOK'
    BY <1>7 DEF TypeOK, Label, TickerOK, ActorOK, Tick, Goto
  <2>2. TickerOK'
    BY <1>7 DEF TypeOK, TickerOK, Tick, Goto
  <2>3. ASSUME NEW b \in Actor PROVE ActorOK(b)'
    BY <1>7, <2>3 DEF TypeOK, TickerOK, ActorOK, Tick, Goto
  <2> QED
    BY <2>1, <2>2, <2>3
<1>8. ASSUME NEW a \in Actor, ListExpired(a) PROVE SessionsInv'
  <2>1. TypeOK'
    BY <1>8 DEF TypeOK, Label, TickerOK, ActorOK, ListExpired, Goto
  <2>2. TickerOK'
    BY <1>8 DEF TypeOK, TickerOK, ListExpired, Goto
  <2>3. ASSUME NEW b \in Actor PROVE ActorOK(b)'
    BY <1>8, <2>3 DEF TypeOK, TickerOK, ActorOK, ListExpired, Goto
  <2> QED
    BY <2>1, <2>2, <2>3
<1>9. ASSUME NEW a \in Actor, SweepDone(a) PROVE SessionsInv'
  <2>1. CASE op[a] = "sweep"
    BY <1>9, <2>1, ReturnKeepsInv DEF SweepDone
  <2>2. CASE ~(op[a] = "sweep")
    <3>1. /\ pc' = [pc EXCEPT ![a] = "count"]
            /\ UNCHANGED <<live, used, lastSeen, op, target, expired, closing>>
      BY <1>9, <2>2 DEF SweepDone, Goto
    <3>2. op[a] \in {"create", "restore"}
      BY <1>9, <2>2 DEF SweepDone, ActorOK
    <3>3. a # Ticker \/ op[a] = "sweep"
      BY <1>9, <3>2 DEF TickerOK, SweepDone
    <3>4. TypeOK'
      BY <3>1, <3>2, <3>3 DEF TypeOK, Label
    <3>5. TickerOK'
      BY <3>1, <3>2, <3>3 DEF TypeOK, TickerOK
    <3>6. ASSUME NEW b \in Actor PROVE ActorOK(b)'
      BY <3>1, <3>2, <3>6 DEF TypeOK, ActorOK
    <3> QED
      BY <3>4, <3>5, <3>6
  <2> QED
    BY <2>1, <2>2
<1>10. ASSUME NEW a \in Actor, NEW i \in Id, Recheck(a, i) PROVE SessionsInv'
  <2>1. TypeOK'
    BY <1>10 DEF TypeOK, Label, TickerOK, ActorOK, Recheck, Goto
  <2>2. TickerOK'
    BY <1>10 DEF TypeOK, TickerOK, Recheck, Goto
  <2>3. ASSUME NEW b \in Actor PROVE ActorOK(b)'
    BY <1>10, <2>3 DEF TypeOK, TickerOK, ActorOK, Recheck, Goto
  <2> QED
    BY <2>1, <2>2, <2>3
<1>11. ASSUME NEW a \in Actor, NEW i \in Id, Create(a, i) PROVE SessionsInv'
  <2>1. TypeOK'
    BY <1>11 DEF TypeOK, Label, TickerOK, ActorOK, Create, Goto
  <2>2. TickerOK'
    BY <1>11 DEF TypeOK, TickerOK, Create, Goto
  <2>3. ASSUME NEW b \in Actor PROVE ActorOK(b)'
    BY <1>11, <2>3 DEF TypeOK, TickerOK, ActorOK, Create, Goto
  <2> QED
    BY <2>1, <2>2, <2>3
<1>12. ASSUME NEW a \in Actor, Forget(a) PROVE SessionsInv'
  <2>1. TypeOK'
    BY <1>12 DEF TypeOK, Label, TickerOK, ActorOK, Forget, Goto, StillExpired
  <2>2. TickerOK'
    BY <1>12 DEF TypeOK, TickerOK, Forget, Goto, StillExpired
  <2>3. ASSUME NEW b \in Actor PROVE ActorOK(b)'
    BY <1>12, <2>3 DEF TypeOK, TickerOK, ActorOK, Forget, Goto, StillExpired
  <2> QED
    BY <2>1, <2>2, <2>3
<1>13. ASSUME NEW a \in Actor, CloseInner(a) PROVE SessionsInv'
  <2>1. CASE op[a] = "close"
    BY <1>13, <2>1, ReturnKeepsInv DEF CloseInner
  <2>2. CASE ~(op[a] = "close")
    <3>1. /\ pc' = [pc EXCEPT ![a] = "next"]
            /\ closing' = [closing EXCEPT ![a] = None] /\ live' \subseteq live
            /\ UNCHANGED <<used, lastSeen, op, target, expired>>
      BY <1>13, <2>2 DEF CloseInner, Goto
    <3>2. op[a] \in {"sweep", "create", "restore"}
      BY <1>13, <2>2 DEF CloseInner, ActorOK
    <3>3. a # Ticker \/ op[a] = "sweep"
      BY <1>13, <3>2 DEF TickerOK, CloseInner
    <3>4. TypeOK'
      BY <3>1, <3>2, <3>3 DEF TypeOK, Label
    <3>5. TickerOK'
      BY <3>1, <3>2, <3>3 DEF TypeOK, TickerOK
    <3>6. ASSUME NEW b \in Actor PROVE ActorOK(b)'
      BY <3>1, <3>2, <3>6 DEF TypeOK, ActorOK
    <3> QED
      BY <3>4, <3>5, <3>6
  <2> QED
    BY <2>1, <2>2
<1>14. ASSUME NEW a \in Actor, CloseFails(a) PROVE SessionsInv'
  BY <1>14, ReturnKeepsInv DEF CloseFails
<1>15. ASSUME NEW a \in Actor, Count(a) PROVE SessionsInv'
  <2>1. CASE Return(a)
    BY <1>15, <2>1, ReturnKeepsInv DEF Count
  <2>2. CASE ~(Return(a))
    <3>1. /\ pc' = [pc EXCEPT ![a] = op[a]]
            /\ UNCHANGED <<live, used, lastSeen, op, target, expired, closing>>
      BY <1>15, <2>2 DEF Count, Goto
    <3>2. op[a] \in {"create", "restore"}
      BY <1>15, <2>2 DEF Count, ActorOK
    <3>3. a # Ticker \/ op[a] = "sweep"
      BY <1>15, <3>2 DEF TickerOK, Count
    <3>4. TypeOK'
      BY <3>1, <3>2, <3>3 DEF TypeOK, Label
    <3>5. TickerOK'
      BY <3>1, <3>2, <3>3 DEF TypeOK, TickerOK
    <3>6. ASSUME NEW b \in Actor PROVE ActorOK(b)'
      BY <3>1, <3>2, <3>6 DEF TypeOK, ActorOK
    <3> QED
      BY <3>4, <3>5, <3>6
  <2> QED
    BY <2>1, <2>2
<1>16. ASSUME NEW a \in Actor, Restore(a) PROVE SessionsInv'
  <2>1. TypeOK'
    BY <1>16 DEF TypeOK, Label, TickerOK, ActorOK, Restore, Goto
  <2>2. TickerOK'
    BY <1>16 DEF TypeOK, TickerOK, Restore, Goto
  <2>3. ASSUME NEW b \in Actor PROVE ActorOK(b)'
    BY <1>16, <2>3 DEF TypeOK, TickerOK, ActorOK, Restore, Goto
  <2> QED
    BY <2>1, <2>2, <2>3
<1>17. ASSUME NEW a \in Actor, InnerFails(a) PROVE SessionsInv'
  BY <1>17, ReturnKeepsInv DEF InnerFails
<1>18. ASSUME NEW a \in Actor, HasSession(a) PROVE SessionsInv'
  <2>1. TypeOK'
    BY <1>18 DEF TypeOK, Label, TickerOK, ActorOK, HasSession, Goto
  <2>2. TickerOK'
    BY <1>18 DEF TypeOK, TickerOK, HasSession, Goto
  <2>3. ASSUME NEW b \in Actor PROVE ActorOK(b)'
    BY <1>18, <2>3 DEF TypeOK, TickerOK, ActorOK, HasSession, Goto
  <2> QED
    BY <2>1, <2>2, <2>3
<1>19. ASSUME NEW a \in Actor, Touch(a) PROVE SessionsInv'
  <2>1. /\ pc[a] \in {"first touch", "touch"}
        /\ lastSeen' = [lastSeen EXCEPT ![target[a]] = "fresh"]
        /\ expired' = [b \in Actor |-> expired[b] \ {target[a]}]
        /\ UNCHANGED <<live, used, closing>>
    BY <1>19 DEF Touch, StillExpired
  <2>2. a # Ticker /\ target[a] \in used
    BY <2>1 DEF TypeOK, ActorOK
  <2>3. CASE pc[a] = "first touch"
    <3>1. pc' = [pc EXCEPT ![a] = "use"] /\ UNCHANGED <<op, target>>
      BY <1>19, <2>3 DEF Touch, Goto
    <3>2. TypeOK'
      BY <2>1, <3>1 DEF TypeOK, Label
    <3>3. TickerOK'
      BY <2>2, <3>1 DEF TypeOK, TickerOK
    <3>4. ASSUME NEW b \in Actor PROVE ActorOK(b)'
      BY <2>1, <2>2, <3>1, <3>4 DEF TypeOK, ActorOK
    <3> QED
      BY <3>2, <3>3, <3>4
  <2>4. CASE pc[a] = "touch"
    <3>1. /\ pc' = [pc EXCEPT ![a] = "idle"] /\ op' = [op EXCEPT ![a] = "none"]
          /\ target' = [target EXCEPT ![a] = None]
      BY <1>19, <2>4 DEF Touch, Finish
    <3>2. TypeOK'
      BY <2>1, <3>1 DEF TypeOK, Label
    <3>3. TickerOK'
      BY <2>2, <3>1 DEF TypeOK, TickerOK
    <3>4. ASSUME NEW b \in Actor PROVE ActorOK(b)'
      BY <2>1, <2>2, <3>1, <3>4 DEF TypeOK, ActorOK
    <3> QED
      BY <3>2, <3>3, <3>4
  <2> QED
    BY <2>1, <2>3, <2>4
<1>20. ASSUME NEW a \in Actor, UseSession(a) PROVE SessionsInv'
  <2>1. TypeOK'
    BY <1>20 DEF TypeOK, Label, TickerOK, ActorOK, UseSession, Goto
  <2>2. TickerOK'
    BY <1>20 DEF TypeOK, TickerOK, UseSession, Goto
  <2>3. ASSUME NEW b \in Actor PROVE ActorOK(b)'
    BY <1>20, <2>3 DEF TypeOK, TickerOK, ActorOK, UseSession, Goto
  <2> QED
    BY <2>1, <2>2, <2>3
<1>21. ASSUME NEW a \in Actor, RemoveEntry(a) PROVE SessionsInv'
  <2>1. TypeOK'
    BY <1>21 DEF TypeOK, Label, TickerOK, ActorOK, RemoveEntry, Finish, StillExpired
  <2>2. TickerOK'
    BY <1>21 DEF TypeOK, TickerOK, RemoveEntry, Finish, StillExpired
  <2>3. ASSUME NEW b \in Actor PROVE ActorOK(b)'
    BY <1>21, <2>3 DEF TypeOK, TickerOK, ActorOK, RemoveEntry, Finish, StillExpired
  <2> QED
    BY <2>1, <2>2, <2>3
<1>22. CASE UNCHANGED vars
  BY <1>22 DEF vars, TypeOK, TickerOK, ActorOK
<1> QED
  BY NextCases, <1>1, <1>2, <1>3, <1>4, <1>5, <1>6, <1>7, <1>8, <1>9, <1>10, <1>11, <1>12, <1>13, <1>14, <1>15, <1>16, <1>17, <1>18, <1>19, <1>20, <1>21, <1>22

\* The maps, the program counters and the lists of the sweeps keep their
\* types; only sessions that were handed out are alive.
THEOREM SessionsTypeOK == Spec => []TypeOK
<1>1. Spec => []SessionsInv
  BY InvInit, InvStep, PTL DEF Spec
<1>2. SessionsInv => TypeOK
  BY DEF SessionsInv
<1> QED
  BY <1>1, <1>2, PTL

-----------------------------------------------------------------------------
\* A client hangs up and a request is abandoned between session i and its
\* entry: created and not entered yet, or forgotten and not closed yet.
Drops(i) ==
    \E a \in Task :
        /\ Cancel(a)
        /\ \/ pc[a] = "first touch" /\ target[a] = i
           \/ pc[a] = "close" /\ closing[a] = i

\* A session that is new or tracked stays tracked while it lives, unless a
\* request is dropped at one of the two awaits.
LEMMA TrackedStep ==
    ASSUME SessionsInv, [Next]_vars, NEW s \in live', s \in live => Tracked(s), ~Drops(s)
    PROVE  Tracked(s)'
<1> USE SessionsAssumption DEF SessionsInv, Actor
<1>1. ASSUME NEW a \in Task, BeginCreate(a) PROVE Tracked(s)'
  BY <1>1 DEF Tracked, TypeOK, TickerOK, ActorOK, BeginCreate, Goto
<1>2. ASSUME NEW a \in Task, Cancel(a) PROVE Tracked(s)'
  BY <1>2 DEF Tracked, Drops, TypeOK, TickerOK, ActorOK, Cancel, Return, Finish
<1>3. ASSUME NEW a \in Task, NEW i \in Id, BeginRequest(a, i) PROVE Tracked(s)'
  BY <1>3 DEF Tracked, TypeOK, TickerOK, ActorOK, BeginRequest, Goto
<1>4. ASSUME NEW a \in Task, NEW i \in Id, BeginRestore(a, i) PROVE Tracked(s)'
  BY <1>4 DEF Tracked, TypeOK, TickerOK, ActorOK, BeginRestore, Goto
<1>5. ASSUME NEW a \in Task, NEW i \in Id, BeginClose(a, i) PROVE Tracked(s)'
  BY <1>5 DEF Tracked, TypeOK, TickerOK, ActorOK, BeginClose, Goto
<1>6. ASSUME NEW i \in Id, Idle(i) PROVE Tracked(s)'
  BY <1>6 DEF Tracked, TypeOK, TickerOK, ActorOK, Idle
<1>7. ASSUME Tick PROVE Tracked(s)'
  BY <1>7 DEF Tracked, TypeOK, TickerOK, ActorOK, Tick, Goto
<1>8. ASSUME NEW a \in Actor, ListExpired(a) PROVE Tracked(s)'
  BY <1>8 DEF Tracked, TypeOK, TickerOK, ActorOK, ListExpired, Goto
<1>9. ASSUME NEW a \in Actor, SweepDone(a) PROVE Tracked(s)'
  <2>1. /\ pc[a] = "next" /\ UNCHANGED <<live, lastSeen>>
        /\ \A b \in Actor \ {a} : pc'[b] = pc[b] /\ target'[b] = target[b] /\ closing'[b] = closing[b]
    BY <1>9 DEF SweepDone, Return, Finish, Goto, TypeOK
  <2> QED
    BY <2>1 DEF Tracked
<1>10. ASSUME NEW a \in Actor, NEW i \in Id, Recheck(a, i) PROVE Tracked(s)'
  BY <1>10 DEF Tracked, TypeOK, TickerOK, ActorOK, Recheck, Goto
<1>11. ASSUME NEW a \in Actor, NEW i \in Id, Create(a, i) PROVE Tracked(s)'
  BY <1>11 DEF Tracked, TypeOK, TickerOK, ActorOK, Create, Goto
<1>12. ASSUME NEW a \in Actor, Forget(a) PROVE Tracked(s)'
  BY <1>12 DEF Tracked, TypeOK, TickerOK, ActorOK, Forget, Goto, StillExpired
<1>13. ASSUME NEW a \in Actor, CloseInner(a) PROVE Tracked(s)'
  <2>1. /\ pc[a] = "close" /\ live' = live \ {closing[a]} /\ lastSeen' = lastSeen
        /\ \A b \in Actor \ {a} : pc'[b] = pc[b] /\ target'[b] = target[b] /\ closing'[b] = closing[b]
    BY <1>13 DEF CloseInner, Return, Finish, Goto, TypeOK
  <2> QED
    BY <2>1 DEF Tracked
<1>14. ASSUME NEW a \in Actor, CloseFails(a) PROVE Tracked(s)'
  BY <1>14 DEF Tracked, TypeOK, TickerOK, ActorOK, CloseFails, Return, Finish
<1>15. ASSUME NEW a \in Actor, Count(a) PROVE Tracked(s)'
  <2>1. /\ pc[a] = "count" /\ UNCHANGED <<live, lastSeen>>
        /\ \A b \in Actor \ {a} : pc'[b] = pc[b] /\ target'[b] = target[b] /\ closing'[b] = closing[b]
    BY <1>15 DEF Count, Return, Finish, Goto, TypeOK
  <2> QED
    BY <2>1 DEF Tracked
<1>16. ASSUME NEW a \in Actor, Restore(a) PROVE Tracked(s)'
  BY <1>16 DEF Tracked, TypeOK, TickerOK, ActorOK, Restore, Goto
<1>17. ASSUME NEW a \in Actor, InnerFails(a) PROVE Tracked(s)'
  BY <1>17 DEF Tracked, TypeOK, TickerOK, ActorOK, InnerFails, Return, Finish
<1>18. ASSUME NEW a \in Actor, HasSession(a) PROVE Tracked(s)'
  BY <1>18 DEF Tracked, TypeOK, TickerOK, ActorOK, HasSession, Goto
<1>19. ASSUME NEW a \in Actor, Touch(a) PROVE Tracked(s)'
  <2>1. /\ pc[a] \in {"first touch", "touch"} /\ live' = live
        /\ lastSeen' = [lastSeen EXCEPT ![target[a]] = "fresh"]
        /\ \A b \in Actor \ {a} : pc'[b] = pc[b] /\ target'[b] = target[b] /\ closing'[b] = closing[b]
    BY <1>19 DEF Touch, Finish, Goto, TypeOK
  <2>2. s \in Id /\ lastSeen'[s] = IF target[a] = s THEN "fresh" ELSE lastSeen[s]
    BY <2>1 DEF TypeOK
  <2>3. CASE lastSeen'[s] # "none"
    BY <2>3 DEF Tracked
  <2>4. CASE lastSeen'[s] = "none"
    <3>1. target[a] # s /\ lastSeen[s] = "none"
      BY <2>2, <2>4
    <3>t. Tracked(s)
      BY <2>1
    <3>2. PICK b \in Actor : \/ pc[b] = "first touch" /\ target[b] = s
                             \/ pc[b] = "close" /\ closing[b] = s
      BY <3>1, <3>t DEF Tracked
    <3>3. b # a
      BY <2>1, <3>1, <3>2
    <3> QED
      BY <2>1, <3>2, <3>3 DEF Tracked
  <2> QED
    BY <2>3, <2>4
<1>20. ASSUME NEW a \in Actor, UseSession(a) PROVE Tracked(s)'
  BY <1>20 DEF Tracked, TypeOK, TickerOK, ActorOK, UseSession, Goto
<1>21. ASSUME NEW a \in Actor, RemoveEntry(a) PROVE Tracked(s)'
  BY <1>21 DEF Tracked, TypeOK, TickerOK, ActorOK, RemoveEntry, Finish, StillExpired
<1>22. CASE UNCHANGED vars
  BY <1>22 DEF Tracked, vars
<1> QED
  BY NextCases, <1>1, <1>2, <1>3, <1>4, <1>5, <1>6, <1>7, <1>8, <1>9, <1>10, <1>11, <1>12, <1>13, <1>14, <1>15, <1>16, <1>17, <1>18, <1>19, <1>20, <1>21, <1>22

\* No step loses track of a session (live, but neither swept nor about to be
\* entered or closed) but the drop of a request at one of the two awaits.
OnlyDropsLoseTrack ==
    [][\A i \in live' : ~Tracked(i)' => (i \in live /\ ~Tracked(i)) \/ Drops(i)]_vars

\* However requests, sweeps and failed closes interleave, and wherever else
\* clients hang up, a session is lost for the sweep only when its request is
\* dropped right before its first touch or half-way through its close.
THEOREM DropsAloneLoseTrack == Spec => OnlyDropsLoseTrack
<1> DEFINE Kept == \A i \in live' : ~Tracked(i)' => (i \in live /\ ~Tracked(i)) \/ Drops(i)
<1>1. SessionsInv /\ [Next]_vars => [Kept]_vars
  BY TrackedStep
<1> QED
  BY <1>1, InvInit, InvStep, PTL DEF Spec, OnlyDropsLoseTrack

\* No request is abandoned between a session and its entry.
Safe == "first touch" \notin Cancellable /\ "close" \notin Cancellable

\* Unless a request is dropped in one of the two places, every live session
\* is one the sweep can see, or is about to be, or is about to be closed.
THEOREM LiveSessionsStayTracked ==
    ASSUME Safe
    PROVE  Spec => []LiveSessionsAreTracked
<1>1. Init => LiveSessionsAreTracked
  BY DEF Init, LiveSessionsAreTracked
<1>2. \A i \in Id : ~Drops(i)
  BY DEF Safe, Drops, Cancel
<1>3. ASSUME SessionsInv, LiveSessionsAreTracked, [Next]_vars
      PROVE  LiveSessionsAreTracked'
  <2> SUFFICES ASSUME NEW s \in live' PROVE Tracked(s)'
    BY DEF LiveSessionsAreTracked
  <2>1. s \in Id
    BY <1>3, InvStep DEF SessionsInv, TypeOK
  <2>2. s \in live => Tracked(s)
    BY <1>3 DEF LiveSessionsAreTracked
  <2> QED
    BY <1>2, <1>3, <2>1, <2>2, TrackedStep
<1> QED
  BY <1>1, <1>3, InvInit, InvStep, PTL DEF Spec

-----------------------------------------------------------------------------
\* The sessions there are and those admitted, in numbers.
CapInv == IsFiniteSet(live) /\ OvershootIsBounded

LEMMA SizeOfLess ==
    ASSUME IsFiniteSet(Task), CapInv, live' \subseteq live, Admitted' \subseteq Admitted
    PROVE  CapInv'
<1>1. IsFiniteSet(Admitted) /\ IsFiniteSet(Admitted')
  BY FS_Subset DEF Admitted
<1>2. /\ IsFiniteSet(live') /\ Cardinality(live') <= Cardinality(live)
      /\ Cardinality(Admitted') <= Cardinality(Admitted)
  BY <1>1, FS_Subset DEF CapInv
<1>3. /\ Cardinality(live) \in Nat /\ Cardinality(live') \in Nat
      /\ Cardinality(Admitted) \in Nat /\ Cardinality(Admitted') \in Nat
      /\ Cardinality(Task) \in Nat
  BY <1>1, <1>2, FS_CardinalityType DEF CapInv
<1> QED
  BY <1>2, <1>3, SessionsAssumption DEF CapInv, OvershootIsBounded

LEMMA CapStep ==
    ASSUME IsFiniteSet(Task)
    PROVE  SessionsInv /\ CapInv /\ [Next]_vars => CapInv'
<1> SUFFICES ASSUME SessionsInv, CapInv, [Next]_vars PROVE CapInv'
  OBVIOUS
<1> USE SessionsAssumption
<1>0. /\ Cardinality(Task) \in Nat
      /\ IsFiniteSet(Admitted) /\ Cardinality(Admitted) \in Nat
      /\ IsFiniteSet(Admitted') /\ Cardinality(Admitted') \in Nat
      /\ Cardinality(Admitted') <= Cardinality(Task)
      /\ IsFiniteSet(live) /\ Cardinality(live) \in Nat
  BY FS_Subset, FS_CardinalityType DEF Admitted, CapInv
<1>1. ASSUME NEW a \in Task, BeginCreate(a) PROVE CapInv'
  <2>1. live' \subseteq live /\ Admitted' \subseteq Admitted
    BY <1>1 DEF BeginCreate, Goto, Admitted, SessionsInv, TypeOK, Actor
  <2> QED
    BY <2>1, SizeOfLess
<1>2. ASSUME NEW a \in Task, Cancel(a) PROVE CapInv'
  <2>1. live' \subseteq live /\ Admitted' \subseteq Admitted
    BY <1>2 DEF Cancel, Return, Finish, Admitted, SessionsInv, TypeOK, Actor
  <2> QED
    BY <2>1, SizeOfLess
<1>3. ASSUME NEW a \in Task, NEW i \in Id, BeginRequest(a, i) PROVE CapInv'
  <2>1. live' \subseteq live /\ Admitted' \subseteq Admitted
    BY <1>3 DEF BeginRequest, Goto, Admitted, SessionsInv, TypeOK, Actor
  <2> QED
    BY <2>1, SizeOfLess
<1>4. ASSUME NEW a \in Task, NEW i \in Id, BeginRestore(a, i) PROVE CapInv'
  <2>1. live' \subseteq live /\ Admitted' \subseteq Admitted
    BY <1>4 DEF BeginRestore, Goto, Admitted, SessionsInv, TypeOK, Actor
  <2> QED
    BY <2>1, SizeOfLess
<1>5. ASSUME NEW a \in Task, NEW i \in Id, BeginClose(a, i) PROVE CapInv'
  <2>1. live' \subseteq live /\ Admitted' \subseteq Admitted
    BY <1>5 DEF BeginClose, Goto, Admitted, SessionsInv, TypeOK, Actor
  <2> QED
    BY <2>1, SizeOfLess
<1>6. ASSUME NEW i \in Id, Idle(i) PROVE CapInv'
  <2>1. live' \subseteq live /\ Admitted' \subseteq Admitted
    BY <1>6 DEF Idle, Admitted, SessionsInv, TypeOK, Actor
  <2> QED
    BY <2>1, SizeOfLess
<1>7. ASSUME Tick PROVE CapInv'
  <2>1. live' \subseteq live /\ Admitted' \subseteq Admitted
    BY <1>7 DEF Tick, Goto, Admitted, SessionsInv, TypeOK, Actor
  <2> QED
    BY <2>1, SizeOfLess
<1>8. ASSUME NEW a \in Actor, ListExpired(a) PROVE CapInv'
  <2>1. live' \subseteq live /\ Admitted' \subseteq Admitted
    BY <1>8 DEF ListExpired, Goto, Admitted, SessionsInv, TypeOK, Actor
  <2> QED
    BY <2>1, SizeOfLess
<1>9. ASSUME NEW a \in Actor, SweepDone(a) PROVE CapInv'
  <2>1. live' \subseteq live /\ Admitted' \subseteq Admitted
    BY <1>9 DEF SweepDone, Return, Finish, Goto, Admitted, SessionsInv, TypeOK, Actor
  <2> QED
    BY <2>1, SizeOfLess
<1>10. ASSUME NEW a \in Actor, NEW i \in Id, Recheck(a, i) PROVE CapInv'
  <2>1. live' \subseteq live /\ Admitted' \subseteq Admitted
    BY <1>10 DEF Recheck, Goto, Admitted, SessionsInv, TypeOK, Actor
  <2> QED
    BY <2>1, SizeOfLess
<1>11. ASSUME NEW a \in Actor, NEW i \in Id, Create(a, i) PROVE CapInv'
  <2>1. a \in Admitted
    BY <1>11 DEF Create, Admitted, SessionsInv, TypeOK, Actor
  <2>2. Admitted' = Admitted \ {a}
    BY <1>11 DEF Create, Goto, Admitted, SessionsInv, TypeOK, Actor
  <2>3. Cardinality(Admitted') = Cardinality(Admitted) - 1
    BY <1>0, <2>1, <2>2, FS_RemoveElement
  <2>4. i \notin live /\ live' = live \union {i}
    BY <1>11 DEF Create, SessionsInv, TypeOK
  <2>5. IsFiniteSet(live') /\ Cardinality(live') = Cardinality(live) + 1
    BY <1>0, <2>4, FS_AddElement
  <2> QED
    BY <1>0, <2>3, <2>5 DEF CapInv, OvershootIsBounded
<1>12. ASSUME NEW a \in Actor, Forget(a) PROVE CapInv'
  <2>1. live' \subseteq live /\ Admitted' \subseteq Admitted
    BY <1>12 DEF Forget, Goto, Admitted, SessionsInv, TypeOK, Actor
  <2> QED
    BY <2>1, SizeOfLess
<1>13. ASSUME NEW a \in Actor, CloseInner(a) PROVE CapInv'
  <2>1. live' \subseteq live /\ Admitted' \subseteq Admitted
    BY <1>13 DEF CloseInner, Return, Finish, Goto, Admitted, SessionsInv, TypeOK, Actor
  <2> QED
    BY <2>1, SizeOfLess
<1>14. ASSUME NEW a \in Actor, CloseFails(a) PROVE CapInv'
  <2>1. live' \subseteq live /\ Admitted' \subseteq Admitted
    BY <1>14 DEF CloseFails, Return, Finish, Admitted, SessionsInv, TypeOK, Actor
  <2> QED
    BY <2>1, SizeOfLess
<1>15. ASSUME NEW a \in Actor, Count(a) PROVE CapInv'
  <2>1. CASE Return(a)
    <3>1. live' \subseteq live /\ Admitted' \subseteq Admitted
      BY <1>15, <2>1 DEF Count, Return, Finish, Admitted, SessionsInv, TypeOK, Actor
    <3> QED
      BY <3>1, SizeOfLess
  <2>2. CASE Cardinality(live) < MaxSessions
    BY <1>0, <1>15, <2>2 DEF Count, CapInv, OvershootIsBounded
  <2> QED
    BY <1>15, <2>1, <2>2 DEF Count
<1>16. ASSUME NEW a \in Actor, Restore(a) PROVE CapInv'
  <2>1. live' \subseteq live /\ Admitted' \subseteq Admitted
    BY <1>16 DEF Restore, Goto, Admitted, SessionsInv, TypeOK, Actor
  <2> QED
    BY <2>1, SizeOfLess
<1>17. ASSUME NEW a \in Actor, InnerFails(a) PROVE CapInv'
  <2>1. live' \subseteq live /\ Admitted' \subseteq Admitted
    BY <1>17 DEF InnerFails, Return, Finish, Admitted, SessionsInv, TypeOK, Actor
  <2> QED
    BY <2>1, SizeOfLess
<1>18. ASSUME NEW a \in Actor, HasSession(a) PROVE CapInv'
  <2>1. live' \subseteq live /\ Admitted' \subseteq Admitted
    BY <1>18 DEF HasSession, Goto, Admitted, SessionsInv, TypeOK, Actor
  <2> QED
    BY <2>1, SizeOfLess
<1>19. ASSUME NEW a \in Actor, Touch(a) PROVE CapInv'
  <2>1. live' \subseteq live /\ Admitted' \subseteq Admitted
    BY <1>19 DEF Touch, Finish, Goto, Admitted, SessionsInv, TypeOK, Actor
  <2> QED
    BY <2>1, SizeOfLess
<1>20. ASSUME NEW a \in Actor, UseSession(a) PROVE CapInv'
  <2>1. live' \subseteq live /\ Admitted' \subseteq Admitted
    BY <1>20 DEF UseSession, Goto, Admitted, SessionsInv, TypeOK, Actor
  <2> QED
    BY <2>1, SizeOfLess
<1>21. ASSUME NEW a \in Actor, RemoveEntry(a) PROVE CapInv'
  <2>1. live' \subseteq live /\ Admitted' \subseteq Admitted
    BY <1>21 DEF RemoveEntry, Finish, Admitted, SessionsInv, TypeOK, Actor
  <2> QED
    BY <2>1, SizeOfLess
<1>22. CASE UNCHANGED vars
  <2>1. live' \subseteq live /\ Admitted' \subseteq Admitted
    BY <1>22 DEF vars, Admitted
  <2> QED
    BY <2>1, SizeOfLess
<1> QED
  BY NextCases, <1>1, <1>2, <1>3, <1>4, <1>5, <1>6, <1>7, <1>8, <1>9, <1>10, <1>11, <1>12, <1>13, <1>14, <1>15, <1>16, <1>17, <1>18, <1>19, <1>20, <1>21, <1>22

\* With n requests in progress at most n - 1 sessions above the cap are ever
\* alive or admitted, however creations, closes and sweeps interleave.
THEOREM CapIsExceededByTheConcurrent ==
    ASSUME IsFiniteSet(Task), Task # {}
    PROVE  Spec => []OvershootIsBounded
<1>1. Init => CapInv
  <2>1. Cardinality({}) = 0 /\ IsFiniteSet({})
    BY FS_EmptySet
  <2>2. Cardinality(Task) \in Nat \ {0}
    BY FS_EmptySet, FS_CardinalityType
  <2>3. Init => Admitted = {}
    BY DEF Init, Admitted, Actor
  <2> QED
    BY <2>1, <2>2, <2>3, SessionsAssumption DEF Init, CapInv, OvershootIsBounded
<1>2. SessionsInv /\ CapInv /\ [Next]_vars => CapInv'
  BY CapStep
<1>3. CapInv => OvershootIsBounded
  BY DEF CapInv
<1> QED
  BY <1>1, <1>2, <1>3, InvInit, InvStep, PTL DEF Spec
=============================================================================
