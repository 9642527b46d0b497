-------------------------- MODULE LocalPoolProofs --------------------------
(***************************************************************************)
(* Proofs about one thread's pool, for every configuration that            *)
(* Builder::build accepts and any finite number of tasks.                  *)
(***************************************************************************)
EXTENDS LocalPool, WaitersProofs, FiniteSetTheorems

-----------------------------------------------------------------------------
(* The pool drives the waiter queue by its protocol. *)

\* notify(n) is a step of the queue: more units than entries wake no more.
LEMMA NotifyIsWaiterStep ==
  ASSUME entries \in Seq(Entry), NEW n \in Nat, NEW c \in BOOLEAN, Notify(n, c)
  PROVE  WaitersNext
<1>1. Len(entries) \in Nat
  BY LenProperties
<1>2. CASE n \in 0 .. Len(entries)
  BY <1>2 DEF WaitersNext
<1>3. CASE n > Len(entries)
  <2>1. (IF n < Len(entries) THEN n ELSE Len(entries)) =
        (IF Len(entries) < Len(entries) THEN Len(entries) ELSE Len(entries))
    BY <1>1, <1>3
  <2>2. wake(entries, n, scheduled) => wake(entries, Len(entries), scheduled)
    BY <2>1, Zenon DEF wake
  <2>3. Notify(Len(entries), c)
    BY <2>2, Zenon DEF Notify
  <2> QED BY <1>1, <2>3 DEF WaitersNext
<1> QED BY <1>1, <1>2, <1>3

LEMMA StepDrivesWaiters ==
  ASSUME TypeOK, [Next]_vars
  PROVE  [WaitersNext]_waiterVars
<1>0. entries \in Seq(Entry) /\ closed \in BOOLEAN /\ idle \in Seq(Conn)
  BY DEF TypeOK, WaitersTypeOK
<1>1. ASSUME NEW n \in Nat, notify(n) PROVE WaitersNext
  BY <1>0, <1>1, NotifyIsWaiterStep DEF notify
<1>2. ASSUME release_slot PROVE WaitersNext
  BY <1>1, <1>2 DEF release_slot
<1>3. ASSUME NEW c, push_idle(c) PROVE WaitersNext
  BY <1>1, <1>3 DEF push_idle
<1>4. ASSUME reap PROVE WaitersNext \/ UNCHANGED waiterVars
  <2>1. PICK pick \in [1 .. Cardinality(Kept) -> Kept] :
          LET reaped == Len(idle) - Cardinality(Kept)
          IN  IF reaped > 0 THEN release_slots(reaped) /\ notify(reaped)
                            ELSE UNCHANGED <<waiterVars, slots>>
    BY <1>4 DEF reap
  <2>2. Len(idle) \in Nat /\ Cardinality(Kept) \in Nat
    <3>1. Len(idle) \in Nat /\ DOMAIN idle = 1 .. Len(idle)
      BY <1>0, LenProperties
    <3>2. IsFiniteSet(1 .. Len(idle)) /\ Kept \subseteq 1 .. Len(idle)
      BY <3>1, FS_Interval DEF Kept
    <3> QED BY <3>1, <3>2, FS_Subset, FS_CardinalityType
  <2> QED BY <1>1, <2>1, <2>2
<1>5. CASE Close \/ Tick \/ UNCHANGED vars
  BY <1>5 DEF Close, Tick, vars
<1>6. ASSUME NEW t \in Tasks, TaskStep(t) PROVE WaitersNext \/ UNCHANGED waiterVars
  <2>1. ASSUME PollWait(t) PROVE WaitersNext
    BY <1>0, <2>1 DEF PollWait, WaitersNext
  <2>2. ASSUME GiveUp(t) PROVE WaitersNext \/ UNCHANGED waiterVars
    BY <1>2, <2>2 DEF GiveUp, WaitersNext
  <2>3. CASE \/ Get(t) \/ FastMiss(t) \/ LoopTop(t) \/ Resume(t) \/ AfterWait(t)
             \/ TakeIdle(t) \/ OpenNew(t) \/ Connected(t) \/ BackoffOver(t)
             \/ TryGet(t) \/ Warm(t) \/ EnterWarm(t) \/ Fill(t)
    BY <2>3 DEF Get, FastMiss, LoopTop, Resume, AfterWait, TakeIdle, OpenNew,
                Connected, BackoffOver, TryGet, Warm, EnterWarm, Fill
  <2>4. CASE \/ DiscardExpired(t) \/ Validated(t) \/ ConnectFailed(t) \/ GiveBack(t)
             \/ DropLease(t) \/ Take(t)
    BY <1>2, <2>4 DEF DiscardExpired, Validated, ConnectFailed, GiveBack,
                      DropLease, Take
  <2>5. CASE Warmed(t) \/ Recycle(t)
    BY <1>2, <1>3, <2>5 DEF Warmed, Recycle
  <2>6. CASE Reap(t) \/ Maintain(t)
    BY <1>4, <2>6 DEF Reap, Maintain
  <2>7. CASE Clear(t)
    <3>1. Len(idle) \in Nat
      BY <1>0, LenProperties
    <3> QED BY <1>1, <2>7, <3>1 DEF Clear
  <2>8. CASE Timeout(t) \/ Cancel(t)
    BY <2>2, <2>8 DEF Timeout, Cancel
  <2> QED BY <1>6, <2>1, <2>3, <2>4, <2>5, <2>6, <2>7, <2>8 DEF TaskStep
<1> QED BY <1>5, <1>6 DEF Next

-----------------------------------------------------------------------------
(* Types. *)

LEMMA FrontLastProperties ==
  ASSUME NEW S, NEW q \in Seq(S), q # << >>
  PROVE  /\ Front(q) \in Seq(S)
         /\ Len(Front(q)) = Len(q) - 1
         /\ Last(q) \in S
         /\ Len(q) \in Nat \ {0}
<1>1. Len(q) \in Nat \ {0}
  BY LenProperties, EmptySeq
<1>2. \A i \in 1 .. Len(q) : q[i] \in S
  BY ElementOfSeq
<1>3. 1 \in Int /\ Len(q) - 1 \in Int /\ \A i \in 1 .. Len(q) - 1 : q[i] \in S
  BY <1>1, <1>2
<1>4. Front(q) \in Seq(S) /\ Len(Front(q)) = IF 1 <= Len(q) - 1 THEN Len(q) - 1 - 1 + 1 ELSE 0
  BY <1>3, SubSeqProperties DEF Front
<1>5. Len(Front(q)) = Len(q) - 1
  <2> DEFINE n == Len(Front(q))
             m == Len(q)
  <2>1. m \in Nat \ {0} /\ n = IF 1 <= m - 1 THEN m - 1 - 1 + 1 ELSE 0
    BY <1>1, <1>4
  <2> HIDE DEF n, m
  <2>2. n = m - 1
    BY <2>1
  <2> QED BY <2>2 DEF n, m
<1>6. Last(q) \in S
  BY <1>1, <1>2 DEF Last
<1> QED BY <1>1, <1>4, <1>5, <1>6

\* The idle list after a reap: well typed, and shorter by the reaped ones.
LEMMA ReapProperties ==
  ASSUME TypeOK, reap
  PROVE  /\ Len(idle) \in Nat
         /\ Cardinality(Kept) \in 0 .. Len(idle)
         /\ idle' \in Seq(Conn)
         /\ Len(idle') = Cardinality(Kept)
         /\ IF Len(idle) - Cardinality(Kept) > 0
              THEN release_slots(Len(idle) - Cardinality(Kept))
              ELSE slots' = slots
<1>1. idle \in Seq(Conn) /\ Len(idle) \in Nat /\ DOMAIN idle = 1 .. Len(idle)
  BY LenProperties DEF TypeOK
<1>2. Kept \subseteq 1 .. Len(idle)
  BY <1>1 DEF Kept
<1>3. /\ IsFiniteSet(1 .. Len(idle))
      /\ Cardinality(1 .. Len(idle)) = IF 1 > Len(idle) THEN 0 ELSE Len(idle) - 1 + 1
  BY <1>1, FS_Interval
<1>4. Cardinality(Kept) <= Cardinality(1 .. Len(idle)) /\ Cardinality(Kept) \in Nat
  BY <1>2, <1>3, FS_Subset, FS_CardinalityType
<1>5. PICK pick \in [1 .. Cardinality(Kept) -> Kept] :
        idle' = [i \in DOMAIN pick |-> idle[pick[i]]]
  BY DEF reap
<1>6. \A i \in 1 .. Cardinality(Kept) : idle[pick[i]] \in Conn
  <2>1. \A j \in 1 .. Len(idle) : idle[j] \in Conn
    BY <1>1, ElementOfSeq
  <2> QED BY <1>2, <1>5, <2>1
<1>7. idle' = [i \in 1 .. Cardinality(Kept) |-> idle[pick[i]]]
  BY <1>5
<1>8. idle' \in Seq(Conn)
  BY <1>4, <1>6, <1>7, IsASeq
<1>9. Len(idle') = Cardinality(Kept)
  BY <1>4, <1>7, <1>8, LenProperties
<1>10. IF Len(idle) - Cardinality(Kept) > 0
         THEN release_slots(Len(idle) - Cardinality(Kept))
         ELSE slots' = slots
  BY DEF reap
<1> QED BY <1>1, <1>3, <1>4, <1>8, <1>9, <1>10

\* What TypeOK says of everything but the queue.
PoolTypes ==
  /\ closed \in BOOLEAN
  /\ now \in Nat
  /\ idle \in Seq(Conn)
  /\ slots \in Nat
  /\ pc \in [Tasks -> PC]
  /\ op \in [Tasks -> {"none", "get", "try_get", "warm"}]
  /\ lease \in [Tasks -> Conn \cup {NoConn}]
  /\ \A t \in Tasks : pc[t] \in OwnsConn <=> lease[t] # NoConn
  /\ running \in Tasks \cup {NoTask}

\* A task moves to p carrying c: the shape of every change to pc and lease.
LEMMA MoveTypes ==
  ASSUME PoolTypes, NEW t \in Tasks, NEW p \in PC, NEW c \in Conn \cup {NoConn},
         p \in OwnsConn <=> c # NoConn,
         pc' = [pc EXCEPT ![t] = p], lease' = [lease EXCEPT ![t] = c]
  PROVE  /\ pc' \in [Tasks -> PC]
         /\ lease' \in [Tasks -> Conn \cup {NoConn}]
         /\ \A u \in Tasks : pc'[u] \in OwnsConn <=> lease'[u] # NoConn
BY DEF PoolTypes

\* The same with the lease left alone.
LEMMA StayTypes ==
  ASSUME PoolTypes, NEW t \in Tasks, NEW p \in PC,
         p \in OwnsConn <=> pc[t] \in OwnsConn,
         pc' = [pc EXCEPT ![t] = p], lease' = lease
  PROVE  /\ pc' \in [Tasks -> PC]
         /\ lease' \in [Tasks -> Conn \cup {NoConn}]
         /\ \A u \in Tasks : pc'[u] \in OwnsConn <=> lease'[u] # NoConn
BY DEF PoolTypes

LEMMA NotifyTypes ==
  ASSUME PoolTypes, NEW n \in Nat, release_slots(n)
  PROVE  slots' \in Nat
BY DEF PoolTypes, release_slots

\* Every step keeps the types.
LEMMA StepKeepsTypes ==
  ASSUME TypeOK, [Next]_vars
  PROVE  PoolTypes'
<1>0. PoolTypes
  BY DEF TypeOK, PoolTypes
<1>00. /\ OneShot \in BOOLEAN /\ TestOnCheckOut \in BOOLEAN
       /\ NoConn \notin Conn
  BY ConfigAssumption, BoundAssumption
<1> DEFINE end == IF OneShot THEN "done" ELSE "idle"
<1>e. end \in PC /\ end \notin OwnsConn
  BY <1>00 DEF PC, Suspended, Running, OwnsConn
<1> HIDE DEF end
<1>r. ASSUME release_slot PROVE slots' \in Nat
  BY <1>0, <1>r, NotifyTypes DEF release_slot
<1>1. CASE Close
  BY <1>0, <1>1 DEF Close, PoolTypes, taskVars
<1>2. CASE Tick
  BY <1>0, <1>2 DEF Tick, PoolTypes, taskVars
<1>3. CASE UNCHANGED vars
  BY <1>0, <1>3 DEF vars, PoolTypes, poolVars, taskVars
<1>4. ASSUME NEW t \in Tasks, TaskStep(t) PROVE PoolTypes'
  <2> DEFINE Moved == /\ pc' \in [Tasks -> PC]
                      /\ lease' \in [Tasks -> Conn \cup {NoConn}]
                      /\ \A u \in Tasks : pc'[u] \in OwnsConn <=> lease'[u] # NoConn
             Control == /\ op' \in [Tasks -> {"none", "get", "try_get", "warm"}]
                        /\ running' \in Tasks \cup {NoTask}
             Store == /\ closed' \in BOOLEAN
                      /\ now' \in Nat
                      /\ idle' \in Seq(Conn)
                      /\ slots' \in Nat
  <2>q. SUFFICES Moved /\ Control /\ Store
    BY DEF PoolTypes
  <2>p. /\ op \in [Tasks -> {"none", "get", "try_get", "warm"}]
        /\ closed \in BOOLEAN /\ now \in Nat /\ idle \in Seq(Conn) /\ slots \in Nat
        /\ running \in Tasks \cup {NoTask}
        /\ pc \in [Tasks -> PC] /\ lease \in [Tasks -> Conn \cup {NoConn}]
    BY <1>0 DEF PoolTypes
  <2>a. ASSUME Return(t), lease' = lease, pc[t] \notin OwnsConn PROVE Moved
    BY <1>0, <1>e, <2>a, StayTypes DEF Return, end
  <2>b. ASSUME Return(t), SetLease(t, NoConn) PROVE Moved
    BY <1>0, <1>e, <2>b, MoveTypes DEF Return, SetLease, end
  <2>c. ASSUME NEW p \in PC \ OwnsConn, pc' = [pc EXCEPT ![t] = p], lease' = lease,
               pc[t] \notin OwnsConn
        PROVE  Moved
    BY <1>0, <2>c, StayTypes
  <2>d. ASSUME Return(t) PROVE Control
    BY <2>d, <2>p DEF Return
  <2> HIDE DEF Moved
  <2>1. CASE Get(t) \/ TryGet(t)
    BY <1>00, <2>1, <2>a, <2>c, <2>d, <2>p
       DEF Get, TryGet, AtRest, Goto, poolVars, PC, Suspended, Running, OwnsConn
  <2>2. CASE FastMiss(t) \/ Resume(t) \/ BackoffOver(t)
    BY <2>2, <2>c, <2>p
       DEF FastMiss, Resume, BackoffOver, AtRest, InSection, Goto, poolVars, PC,
           Suspended, Running, OwnsConn
  <2>3. CASE LoopTop(t) \/ AfterWait(t) \/ EnterWarm(t)
    BY <2>3, <2>a, <2>c, <2>d, <2>p
       DEF LoopTop, AfterWait, EnterWarm, InSection, Goto, poolVars, PC,
           Suspended, Running, OwnsConn
  <2>4. CASE PollWait(t)
    BY <2>4, <2>c, <2>p
       DEF PollWait, InSection, Goto, Await, poolVars, PC, Suspended, Running, OwnsConn
  <2>5. CASE DiscardExpired(t)
    <3>1. Moved /\ Control
      BY <1>0, <2>5 DEF DiscardExpired, taskVars, PoolTypes, Moved
    <3>2. Store
      BY <1>r, <2>5, <2>p, FrontLastProperties DEF DiscardExpired
    <3> QED BY <3>1, <3>2
  <2>6. CASE TakeIdle(t)
    <3>1. Front(idle) \in Seq(Conn) /\ Last(idle) \in Conn
      BY <2>6, <2>p, FrontLastProperties DEF TakeIdle
    <3>2. PICK p \in {"validate", "held"} : pc' = [pc EXCEPT ![t] = p]
      BY <2>6 DEF TakeIdle, Await, HandOut
    <3>3. Moved
      BY <1>0, <1>00, <2>6, <3>1, <3>2, MoveTypes
         DEF TakeIdle, SetLease, PC, Suspended, OwnsConn, Moved
    <3>4. Control /\ Store
      BY <2>6, <2>p, <3>1 DEF TakeIdle, Await, HandOut
    <3> QED BY <3>3, <3>4
  <2>7. CASE OpenNew(t)
    BY <2>7, <2>a, <2>c, <2>d, <2>p
       DEF OpenNew, take_slot, InSection, Await, Goto, PC, Suspended, Running, OwnsConn
  <2>8. CASE Validated(t)
    <3>1. CASE HandOut(t) /\ UNCHANGED <<waiterVars, slots, lease>>
      <4>1. Moved
        BY <1>0, <2>8, <3>1, StayTypes
           DEF Validated, AtRest, HandOut, PC, Suspended, OwnsConn, Moved
      <4> QED BY <2>8, <2>p, <3>1, <4>1 DEF Validated, HandOut
    <3>2. CASE /\ release_slot
               /\ SetLease(t, NoConn)
               /\ Goto(t, IF op[t] = "get" THEN "loop" ELSE "pop")
               /\ UNCHANGED op
      <4> DEFINE p == IF op[t] = "get" THEN "loop" ELSE "pop"
      <4>0. p \in PC /\ p \notin OwnsConn
        BY DEF PC, Running, OwnsConn
      <4> HIDE DEF p
      <4>1. Moved
        BY <1>0, <3>2, <4>0, MoveTypes DEF Goto, SetLease, Moved, p
      <4> QED BY <1>r, <2>8, <2>p, <3>2, <4>1 DEF Validated, Goto
    <3> QED BY <2>8, <3>1, <3>2 DEF Validated
  <2>9. CASE Connected(t)
    <3>1. Fresh \in Conn
      BY <2>p DEF Fresh, Conn
    <3>2. Moved
      BY <1>0, <1>00, <2>9, <3>1, MoveTypes
         DEF Connected, HandOut, SetLease, PC, Suspended, OwnsConn, Moved
    <3> QED BY <2>9, <2>p, <3>2 DEF Connected, HandOut, poolVars
  <2>10. CASE ConnectFailed(t)
    <3>1. pc[t] = "connect" /\ pc[t] \notin OwnsConn
      BY <2>10 DEF ConnectFailed, AtRest, OwnsConn
    <3>2. CASE Goto(t, "giveback") /\ UNCHANGED <<waiterVars, slots, op>>
      BY <2>10, <2>c, <2>p, <3>1, <3>2
         DEF ConnectFailed, Goto, PC, Suspended, Running, OwnsConn
    <3>3. CASE release_slot /\ Return(t)
      BY <1>r, <2>10, <2>a, <2>d, <2>p, <3>1, <3>3 DEF ConnectFailed
    <3> QED BY <2>10, <3>2, <3>3 DEF ConnectFailed
  <2>11. CASE GiveBack(t)
    BY <1>r, <2>11, <2>c, <2>p
       DEF GiveBack, InSection, Await, PC, Suspended, Running, OwnsConn
  <2>12. CASE Timeout(t) \/ Cancel(t)
    <3>1. GiveUp(t)
      BY <2>12 DEF Timeout, Cancel
    <3>2. Return(t) /\ Control
      BY <2>d, <3>1 DEF GiveUp
    <3>3. Moved
      BY <2>a, <2>b, <3>1, <3>2 DEF GiveUp, OwnsConn
    <3>4. Store
      BY <1>r, <2>p, <3>1 DEF GiveUp
    <3> QED BY <3>2, <3>3, <3>4
  <2>13. CASE Warm(t)
    BY <2>13, <2>c, <2>p
       DEF Warm, AtRest, Goto, poolVars, PC, Suspended, Running, OwnsConn
  <2>14. CASE Fill(t)
    BY <2>14, <2>a, <2>c, <2>d, <2>p
       DEF Fill, take_slot, InSection, Await, PC, Suspended, Running, OwnsConn
  <2>15. CASE Warmed(t)
    <3>1. [Fresh EXCEPT !.last_used = now] \in Conn
      BY <2>p DEF Fresh, Conn
    <3>2. idle' \in Seq(Conn)
      BY <2>15, <2>p, <3>1, AppendProperties DEF Warmed, push_idle
    <3>3. Moved
      BY <2>15, <2>c DEF Warmed, AtRest, Goto, PC, Running, OwnsConn
    <3> QED BY <2>15, <2>p, <3>2, <3>3 DEF Warmed, Goto
  <2>16. CASE Reap(t) \/ Maintain(t)
    <3>1. reap /\ pc[t] = "idle" /\ lease' = lease /\ closed' = closed /\ now' = now
      BY <2>16 DEF Reap, Maintain, AtRest
    <3>2. Store
      <4>1. idle' \in Seq(Conn)
        BY <3>1, ReapProperties
      <4>2. slots' \in Nat
        BY <2>p, <3>1, ReapProperties DEF release_slots
      <4> QED BY <2>p, <3>1, <4>1, <4>2
    <3>3. CASE Return(t)
      BY <2>a, <2>d, <3>1, <3>2, <3>3 DEF OwnsConn
    <3>4. CASE Goto(t, "warm") /\ op' = [op EXCEPT ![t] = "warm"]
      BY <2>c, <2>p, <3>1, <3>2, <3>4 DEF Goto, PC, Running, OwnsConn
    <3> QED BY <2>16, <3>3, <3>4 DEF Reap, Maintain
  <2>17. CASE Clear(t)
    <3>1. Len(idle) \in Nat /\ << >> \in Seq(Conn)
      BY <2>p, LenProperties, EmptySeq
    <3>2. slots' \in Nat
      BY <1>0, <2>17, <3>1, NotifyTypes DEF Clear
    <3> QED BY <2>17, <2>a, <2>d, <2>p, <3>1, <3>2 DEF Clear, AtRest, OwnsConn
  <2>18. CASE DropLease(t)
    <3>1. CASE release_slot /\ SetLease(t, NoConn) /\ Return(t)
      BY <1>r, <2>18, <2>b, <2>d, <2>p, <3>1 DEF DropLease
    <3>2. CASE Goto(t, "returning") /\ UNCHANGED <<waiterVars, slots, op, lease>>
      <4>1. Moved
        BY <1>0, <2>18, <3>2, StayTypes
           DEF DropLease, AtRest, Goto, PC, Running, OwnsConn, Moved
      <4> QED BY <2>18, <2>p, <3>2, <4>1 DEF DropLease, Goto
    <3> QED BY <2>18, <3>1, <3>2 DEF DropLease
  <2>19. CASE Recycle(t)
    <3>1. lease[t] \in Conn
      BY <1>0, <2>19 DEF Recycle, InSection, OwnsConn, PoolTypes
    <3>2. [lease[t] EXCEPT !.last_used = now] \in Conn
      BY <2>p, <3>1 DEF Conn
    <3>3. CASE release_slot /\ UNCHANGED idle
      BY <1>r, <2>19, <2>b, <2>d, <2>p, <3>3 DEF Recycle
    <3>4. CASE push_idle(lease[t]) /\ UNCHANGED slots
      <4>1. idle' \in Seq(Conn)
        BY <2>p, <3>2, <3>4, AppendProperties DEF push_idle
      <4> QED BY <2>19, <2>b, <2>d, <2>p, <3>4, <4>1 DEF Recycle
    <3> QED BY <2>19, <3>3, <3>4 DEF Recycle
  <2>20. CASE Take(t)
    BY <1>r, <2>20, <2>b, <2>d, <2>p DEF Take
  <2> QED BY <1>4, <2>1, <2>2, <2>3, <2>4, <2>5, <2>6, <2>7, <2>8, <2>9, <2>10, <2>11,
             <2>12, <2>13, <2>14, <2>15, <2>16, <2>17, <2>18, <2>19, <2>20 DEF TaskStep
<1> QED BY <1>1, <1>2, <1>3, <1>4 DEF Next

\* The types hold together with the queue's own invariant: its types come from
\* the queue's proof, and the steps of the queue from the pool's types.
Typed == TypeOK /\ WaitersInv

LEMMA TypedStart == Init => Typed
<1> SUFFICES ASSUME Init PROVE Typed
  OBVIOUS
<1>1. WaitersInv /\ WaitersTypeOK
  BY WaitersStart, WaitersInvImplies DEF Init
<1>2. idle \in Seq(Conn)
  BY EmptySeq DEF Init
<1> QED BY <1>1, <1>2 DEF Init, Typed, TypeOK, PC, Suspended, OwnsConn

LEMMA TypedStep == Typed /\ [Next]_vars => Typed'
<1> SUFFICES ASSUME Typed, [Next]_vars PROVE Typed'
  OBVIOUS
<1>1. [WaitersNext]_waiterVars
  BY StepDrivesWaiters DEF Typed
<1>2. WaitersInv'
  BY <1>1, WaitersStep DEF Typed
<1>3. WaitersTypeOK'
  BY <1>2, WaitersInvImplies, PTL
<1>4. PoolTypes'
  BY StepKeepsTypes DEF Typed
<1> QED BY <1>2, <1>3, <1>4 DEF Typed, TypeOK, PoolTypes

LEMMA AlwaysTyped == Spec => []Typed
BY TypedStart, TypedStep, PTL DEF Spec

\* For every configuration: each variable keeps its type, and a task carries a
\* connection exactly while it validates, leases or returns one, so the expects
\* on Held::conn and PooledConnection::conn never fail.
THEOREM PoolTypeCorrect == Spec => []TypeOK
BY AlwaysTyped, PTL DEF Typed

\* For every configuration: the pool implements the queue's specification, i.e.
\* get, notify, timeouts and cancellation use the queue only by its protocol.
THEOREM PoolImplementsWaiters == Spec => WaitersSpec
<1>1. Init => WaitersInit
  BY DEF Init
<1>2. Typed /\ [Next]_vars => [WaitersNext]_waiterVars
  BY StepDrivesWaiters DEF Typed
<1> QED BY <1>1, <1>2, AlwaysTyped, PTL DEF Spec, WaitersSpec

\* For every configuration: inside the pool too, a future dropped after it was
\* woken and rejoined is told from a woken one by the watermark alone, and the
\* queue that register searches stays sorted.
THEOREM PoolWatermarkExact == Spec => [](QueueWellFormed /\ WatermarkExact)
BY PoolImplementsWaiters, WaitersCorrect, PTL

-----------------------------------------------------------------------------
(* Slots. *)

\* The owners of a slot after a task moves to p.
LEMMA OwnersMove ==
  ASSUME pc \in [Tasks -> PC], NEW t \in Tasks, NEW p, pc' = [pc EXCEPT ![t] = p]
  PROVE  /\ Cardinality(Owners) \in Nat
         /\ (p \in OwnsSlot <=> pc[t] \in OwnsSlot)
              => Cardinality(Owners') = Cardinality(Owners)
         /\ (p \in OwnsSlot /\ pc[t] \notin OwnsSlot)
              => Cardinality(Owners') = Cardinality(Owners) + 1
         /\ (p \notin OwnsSlot /\ pc[t] \in OwnsSlot)
              => /\ Cardinality(Owners) > 0
                 /\ Cardinality(Owners') = Cardinality(Owners) - 1
<1>1. IsFiniteSet(Owners)
  BY TasksAssumption, FS_Subset DEF Owners
<1>2. Cardinality(Owners) \in Nat
  BY <1>1, FS_CardinalityType
<1>3. pc'[t] = p /\ \A u \in Tasks \ {t} : pc'[u] = pc[u]
  OBVIOUS
<1>4. CASE pc[t] \in OwnsSlot
  <2>1. t \in Owners
    BY <1>4 DEF Owners
  <2>2. Cardinality(Owners \ {t}) = Cardinality(Owners) - 1
        /\ Cardinality(Owners \ {t}) \in Nat
    BY <1>1, <2>1, FS_RemoveElement, FS_CardinalityType
  <2>3. CASE p \in OwnsSlot
    <3>1. Owners' = Owners
      BY <1>3, <1>4, <2>3 DEF Owners
    <3> QED BY <1>2, <1>4, <2>2, <2>3, <3>1
  <2>4. CASE p \notin OwnsSlot
    <3>1. Owners' = Owners \ {t}
      BY <1>3, <1>4, <2>4 DEF Owners
    <3> QED BY <1>2, <1>4, <2>2, <2>4, <3>1
  <2> QED BY <2>3, <2>4
<1>5. CASE pc[t] \notin OwnsSlot
  <2>1. t \notin Owners
    BY <1>5 DEF Owners
  <2>2. Cardinality(Owners \cup {t}) = Cardinality(Owners) + 1
    BY <1>1, <2>1, FS_AddElement
  <2>3. CASE p \in OwnsSlot
    <3>1. Owners' = Owners \cup {t}
      BY <1>3, <1>5, <2>3 DEF Owners
    <3> QED BY <1>2, <1>5, <2>2, <2>3, <3>1
  <2>4. CASE p \notin OwnsSlot
    <3>1. Owners' = Owners
      BY <1>3, <1>5, <2>4 DEF Owners
    <3> QED BY <1>2, <1>5, <2>4, <3>1
  <2> QED BY <2>3, <2>4
<1> QED BY <1>4, <1>5

LEMMA StepAccountsSlots ==
  ASSUME TypeOK, SlotsAccounted, [Next]_vars
  PROVE  SlotsAccounted'
<1> DEFINE own == Cardinality(Owners)
<1>0. /\ pc \in [Tasks -> PC] /\ slots \in Nat /\ idle \in Seq(Conn)
      /\ MaxSize \in Nat /\ Len(idle) \in Nat
  BY ConfigAssumption, LenProperties DEF TypeOK
<1>1. slots = Len(idle) + own /\ slots <= MaxSize
  BY DEF SlotsAccounted
<1>i. Owners' = {t \in Tasks : pc'[t] \in OwnsSlot}
  BY DEF Owners
\* The four ways a step moves a unit between the idle list, an owner and nobody.
<1>a. ASSUME NEW t \in Tasks, NEW p, pc' = [pc EXCEPT ![t] = p],
             p \in OwnsSlot <=> pc[t] \in OwnsSlot,
             slots' = slots, Len(idle') = Len(idle)
      PROVE  SlotsAccounted'
  <2>1. Cardinality(Owners') = own
    BY <1>0, <1>a, OwnersMove
  <2> QED BY <1>1, <1>a, <2>1 DEF SlotsAccounted
<1>b. ASSUME NEW t \in Tasks, NEW p, pc' = [pc EXCEPT ![t] = p],
             p \notin OwnsSlot, pc[t] \in OwnsSlot,
             release_slots(1), Len(idle') = Len(idle)
      PROVE  SlotsAccounted'
  <2>1. Cardinality(Owners') = own - 1 /\ own \in Nat /\ own > 0
    BY <1>0, <1>b, OwnersMove
  <2>2. slots' = slots - 1
    BY <1>0, <1>1, <1>b, <2>1 DEF release_slots
  <2> QED BY <1>0, <1>1, <1>b, <2>1, <2>2 DEF SlotsAccounted
<1>c. ASSUME NEW t \in Tasks, NEW p, pc' = [pc EXCEPT ![t] = p],
             p \in OwnsSlot, pc[t] \notin OwnsSlot,
             slots < MaxSize, take_slot, Len(idle') = Len(idle)
      PROVE  SlotsAccounted'
  <2>1. Cardinality(Owners') = own + 1 /\ own \in Nat
    BY <1>0, <1>c, OwnersMove
  <2> QED BY <1>0, <1>1, <1>c, <2>1 DEF SlotsAccounted, take_slot
<1>d. ASSUME NEW t \in Tasks, NEW p, NEW c, pc' = [pc EXCEPT ![t] = p],
             p \notin OwnsSlot, pc[t] \in OwnsSlot,
             slots' = slots, push_idle(c)
      PROVE  SlotsAccounted'
  <2>1. Cardinality(Owners') = own - 1 /\ own \in Nat /\ own > 0
    BY <1>0, <1>d, OwnersMove
  <2>2. Len(idle') = Len(idle) + 1
    BY <1>0, <1>d DEF push_idle
  <2> QED BY <1>0, <1>1, <1>d, <2>1, <2>2 DEF SlotsAccounted
<1>2. CASE Close \/ Tick \/ UNCHANGED vars
  BY <1>2 DEF Close, Tick, vars, poolVars, taskVars, SlotsAccounted, Owners
<1>3. ASSUME NEW t \in Tasks, TaskStep(t) PROVE SlotsAccounted'
  <2> DEFINE end == IF OneShot THEN "done" ELSE "idle"
  <2>e. end \notin OwnsSlot
    BY DEF OwnsSlot
  <2>r. ASSUME Return(t) PROVE pc' = [pc EXCEPT ![t] = end]
    BY <2>r DEF Return
  <2> HIDE DEF end
  <2>1. CASE \/ Get(t) \/ TryGet(t) \/ FastMiss(t) \/ Resume(t) \/ BackoffOver(t)
             \/ LoopTop(t) \/ AfterWait(t) \/ EnterWarm(t) \/ PollWait(t) \/ Warm(t)
    <3>1. slots' = slots /\ Len(idle') = Len(idle) /\ pc[t] \notin OwnsSlot
      BY <2>1 DEF Get, TryGet, FastMiss, Resume, BackoffOver, LoopTop, AfterWait,
                  EnterWarm, PollWait, Warm, AtRest, InSection, poolVars, OwnsSlot
    <3>2. \E p : p \notin OwnsSlot /\ pc' = [pc EXCEPT ![t] = p]
      BY <2>1, <2>e, <2>r
         DEF Get, TryGet, FastMiss, Resume, BackoffOver, LoopTop, AfterWait,
             EnterWarm, PollWait, Warm, Goto, Await, OwnsSlot
    <3> QED BY <1>a, <3>1, <3>2
  <2>2. CASE DiscardExpired(t)
    <3>1. Len(idle') = Len(idle) - 1 /\ Len(idle) > 0 /\ pc' = pc
      BY <1>0, <2>2, FrontLastProperties DEF DiscardExpired, taskVars
    <3>2. Cardinality(Owners') = own
      BY <1>i, <3>1 DEF Owners
    <3>3. own \in Nat
      BY TasksAssumption, FS_Subset, FS_CardinalityType DEF Owners
    <3>4. slots' = slots - 1
      BY <1>0, <1>1, <2>2, <3>1, <3>3 DEF DiscardExpired, release_slot, release_slots
    <3> QED BY <1>0, <1>1, <3>1, <3>2, <3>3, <3>4 DEF SlotsAccounted
  <2>3. CASE TakeIdle(t)
    <3>1. Len(idle') = Len(idle) - 1 /\ Len(idle) > 0 /\ slots' = slots
      BY <1>0, <2>3, FrontLastProperties DEF TakeIdle
    <3>2. PICK p \in {"validate", "held"} : pc' = [pc EXCEPT ![t] = p]
      BY <2>3 DEF TakeIdle, Await, HandOut
    <3>3. p \in OwnsSlot /\ pc[t] \notin OwnsSlot
      BY <2>3, <3>2 DEF TakeIdle, OwnsSlot
    <3>4. Cardinality(Owners') = own + 1 /\ own \in Nat
      BY <1>0, <3>2, <3>3, OwnersMove
    <3> QED BY <1>0, <1>1, <3>1, <3>4 DEF SlotsAccounted
  <2>4. CASE OpenNew(t)
    <3>1. idle' = idle /\ pc[t] \notin OwnsSlot
      BY <2>4 DEF OpenNew, InSection, OwnsSlot
    <3>2. CASE slots < MaxSize /\ take_slot /\ Await(t, "connect")
      BY <1>c, <3>1, <3>2 DEF Await, OwnsSlot
    <3>3. CASE Return(t) /\ UNCHANGED slots
      BY <1>a, <2>e, <2>r, <3>1, <3>3
    <3>4. CASE Goto(t, "loop") /\ UNCHANGED slots
      BY <1>a, <3>1, <3>4 DEF Goto, OwnsSlot
    <3> QED BY <2>4, <3>2, <3>3, <3>4 DEF OpenNew
  <2>5. CASE Validated(t)
    <3>1. idle' = idle /\ pc[t] \in OwnsSlot
      BY <2>5 DEF Validated, AtRest, OwnsSlot
    <3>2. CASE HandOut(t) /\ UNCHANGED slots
      BY <1>a, <3>1, <3>2 DEF HandOut, OwnsSlot
    <3>3. CASE release_slot /\ Goto(t, IF op[t] = "get" THEN "loop" ELSE "pop")
      <4>1. (IF op[t] = "get" THEN "loop" ELSE "pop") \notin OwnsSlot
        BY DEF OwnsSlot
      <4> QED BY <1>b, <3>1, <3>3, <4>1 DEF Goto, release_slot
    <3> QED BY <2>5, <3>2, <3>3 DEF Validated
  <2>6. CASE Connected(t)
    BY <1>a, <2>6 DEF Connected, AtRest, HandOut, poolVars, OwnsSlot
  <2>7. CASE ConnectFailed(t)
    <3>1. idle' = idle /\ pc[t] \in OwnsSlot
      BY <2>7 DEF ConnectFailed, AtRest, OwnsSlot
    <3>2. CASE Goto(t, "giveback") /\ UNCHANGED slots
      BY <1>a, <3>1, <3>2 DEF Goto, OwnsSlot
    <3>3. CASE release_slot /\ Return(t)
      BY <1>b, <2>e, <2>r, <3>1, <3>3 DEF release_slot
    <3> QED BY <2>7, <3>2, <3>3 DEF ConnectFailed
  <2>8. CASE GiveBack(t)
    BY <1>b, <2>8 DEF GiveBack, InSection, Await, release_slot, OwnsSlot
  <2>9. CASE Timeout(t) \/ Cancel(t)
    <3>1. GiveUp(t)
      BY <2>9 DEF Timeout, Cancel
    <3>2. idle' = idle /\ pc' = [pc EXCEPT ![t] = end]
      BY <2>r, <3>1 DEF GiveUp
    <3>3. CASE pc[t] \in {"wait", "backoff"} /\ UNCHANGED slots
      BY <1>a, <2>e, <3>2, <3>3 DEF OwnsSlot
    <3>4. CASE pc[t] \in {"validate", "connect"} /\ release_slot
      BY <1>b, <2>e, <3>2, <3>4 DEF OwnsSlot, release_slot
    <3> QED BY <3>1, <3>3, <3>4 DEF GiveUp
  <2>10. CASE Fill(t)
    <3>1. idle' = idle /\ pc[t] \notin OwnsSlot
      BY <2>10 DEF Fill, InSection, OwnsSlot
    <3>2. CASE slots < MaxSize /\ take_slot /\ Await(t, "connect")
      BY <1>c, <3>1, <3>2 DEF Await, OwnsSlot
    <3>3. CASE Return(t) /\ UNCHANGED slots
      BY <1>a, <2>e, <2>r, <3>1, <3>3
    <3> QED BY <2>10, <3>2, <3>3 DEF Fill
  <2>11. CASE Warmed(t)
    BY <1>d, <2>11 DEF Warmed, AtRest, Goto, OwnsSlot
  <2>12. CASE Reap(t) \/ Maintain(t)
    <3>1. reap /\ pc[t] \notin OwnsSlot
      BY <2>12 DEF Reap, Maintain, AtRest, OwnsSlot
    <3>2. PICK p : p \notin OwnsSlot /\ pc' = [pc EXCEPT ![t] = p]
      BY <2>12, <2>e, <2>r DEF Reap, Maintain, Goto, OwnsSlot
    <3>3. Cardinality(Owners') = own /\ own \in Nat
      BY <1>0, <3>1, <3>2, OwnersMove
    <3>4. Len(idle') \in Nat /\ Len(idle') <= Len(idle)
          /\ slots' = slots - (Len(idle) - Len(idle'))
      BY <1>0, <1>1, <3>1, <3>3, ReapProperties DEF release_slots
    <3> QED BY <1>0, <1>1, <3>3, <3>4 DEF SlotsAccounted
  <2>13. CASE Clear(t)
    <3>1. Len(idle') = 0 /\ pc[t] \notin OwnsSlot /\ pc' = [pc EXCEPT ![t] = end]
      BY <2>13, <2>r, EmptySeq DEF Clear, AtRest, OwnsSlot
    <3>2. Cardinality(Owners') = own /\ own \in Nat
      BY <1>0, <2>e, <3>1, OwnersMove
    <3>3. slots' = slots - Len(idle)
      BY <1>0, <1>1, <2>13, <3>2 DEF Clear, release_slots
    <3> QED BY <1>0, <1>1, <3>1, <3>2, <3>3 DEF SlotsAccounted
  <2>14. CASE DropLease(t)
    <3>1. idle' = idle /\ pc[t] \in OwnsSlot
      BY <2>14 DEF DropLease, AtRest, OwnsSlot
    <3>2. CASE release_slot /\ Return(t)
      BY <1>b, <2>e, <2>r, <3>1, <3>2 DEF release_slot
    <3>3. CASE Goto(t, "returning") /\ UNCHANGED slots
      BY <1>a, <3>1, <3>3 DEF Goto, OwnsSlot
    <3> QED BY <2>14, <3>2, <3>3 DEF DropLease
  <2>15. CASE Recycle(t)
    <3>1. pc[t] \in OwnsSlot /\ pc' = [pc EXCEPT ![t] = end]
      BY <2>15, <2>r DEF Recycle, InSection, OwnsSlot
    <3>2. CASE release_slot /\ UNCHANGED idle
      BY <1>b, <2>e, <3>1, <3>2 DEF release_slot
    <3>3. CASE push_idle(lease[t]) /\ UNCHANGED slots
      BY <1>d, <2>e, <3>1, <3>3
    <3> QED BY <2>15, <3>2, <3>3 DEF Recycle
  <2>16. CASE Take(t)
    BY <1>b, <2>16, <2>e, <2>r DEF Take, AtRest, release_slot, OwnsSlot
  <2> QED BY <1>3, <2>1, <2>2, <2>3, <2>4, <2>5, <2>6, <2>7, <2>8, <2>9, <2>10, <2>11,
             <2>12, <2>13, <2>14, <2>15, <2>16 DEF TaskStep
<1> QED BY <1>2, <1>3 DEF Next

LEMMA SlotsStart == Init => SlotsAccounted
<1> SUFFICES ASSUME Init PROVE SlotsAccounted
  OBVIOUS
<1>1. Owners = {} /\ Cardinality({}) = 0
  BY FS_EmptySet DEF Init, Owners, OwnsSlot
<1>2. Len(idle) = 0 /\ slots = 0
  BY EmptySeq DEF Init
<1> QED BY <1>1, <1>2, ConfigAssumption DEF SlotsAccounted

\* For every configuration and any finite number of tasks: `slots` is exactly
\* the idle connections plus the owners of a slot, and never passes max_size;
\* no path of get, try_get, warm, reap, clear, take or a dropped lease leaks a
\* slot or gives one back twice.
THEOREM PoolSlotsAccounted == Spec => []SlotsAccounted
<1>1. Typed /\ SlotsAccounted /\ [Next]_vars => SlotsAccounted'
  BY StepAccountsSlots DEF Typed
<1> QED BY <1>1, SlotsStart, AlwaysTyped, PTL DEF Spec
=============================================================================
