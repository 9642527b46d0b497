--------------------------- MODULE CapacityProofs ---------------------------
(***************************************************************************)
(* Capacity, for every configuration and any finite number of tasks.  No   *)
(* waiter of an open pool sleeps beside capacity it could have: the        *)
(* counting argument behind "each wake carries exactly one unit".  And the *)
(* pool keeps the promise of BoundedPool: each step opens, reuses, parks,  *)
(* discards or retires connections as the abstract pool may, or does       *)
(* nothing to them.                                                        *)
(***************************************************************************)
EXTENDS LocalPoolProofs

-----------------------------------------------------------------------------
(* Control: which task runs, in which call, with which id. *)

\* One section at a time; the pcs that only a get reaches; the queue id lives
\* exactly as long as the wait.
ControlInv ==
  /\ \A t \in Tasks : pc[t] \in Running <=> running = t
  /\ \A t \in Tasks :
       pc[t] \in {"fast", "loop", "poll", "wait", "ready", "giveback", "backoff"}
         => op[t] = "get"
  /\ \A t \in Tasks : pc[t] \in {"pop", "validate"} => op[t] \in {"get", "try_get"}
  /\ \A t \in Tasks : pc[t] = "wait" => wid[t] # 0
  /\ \A t \in Tasks : wid[t] # 0 => pc[t] \in {"wait", "poll"}

LEMMA ControlStart == Init => ControlInv
BY BoundAssumption DEF Init, WaitersInit, ControlInv, Running

\* A step of t to p keeps them, if it touches no other task and p suits t's call
\* and t's id after it.
LEMMA MoveControl ==
  ASSUME TypeOK, ControlInv, NEW t \in Tasks, NEW p \in PC,
         pc' = [pc EXCEPT ![t] = p],
         running' = IF p \in Running THEN t ELSE NoTask,
         running \in {t, NoTask},
         \A u \in Tasks \ {t} : op'[u] = op[u] /\ wid'[u] = wid[u],
         p \in {"fast", "loop", "poll", "wait", "ready", "giveback", "backoff"}
           => op'[t] = "get",
         p \in {"pop", "validate"} => op'[t] \in {"get", "try_get"},
         p = "wait" => wid'[t] # 0,
         wid'[t] # 0 => p \in {"wait", "poll"}
  PROVE  ControlInv'
<1>0. pc \in [Tasks -> PC] /\ NoTask \notin Tasks
  BY BoundAssumption DEF TypeOK
<1>1. pc'[t] = p /\ \A u \in Tasks \ {t} : pc'[u] = pc[u]
  BY <1>0
<1>2. \A u \in Tasks \ {t} : pc[u] \notin Running
  BY <1>0 DEF ControlInv
<1>3. ASSUME NEW u \in Tasks PROVE pc'[u] \in Running <=> running' = u
  BY <1>0, <1>1, <1>2, <1>3
<1> QED BY <1>1, <1>3 DEF ControlInv

LEMMA StepKeepsControl ==
  ASSUME Typed, ControlInv, [Next]_vars
  PROVE  ControlInv'
<1>t. TypeOK /\ wid \in [Tasks -> Nat] /\ next_id \in Nat \ {0}
      /\ op \in [Tasks -> {"none", "get", "try_get", "warm"}]
      /\ OneShot \in BOOLEAN /\ TestOnCheckOut \in BOOLEAN
  BY ConfigAssumption, BoundAssumption DEF Typed, TypeOK, WaitersTypeOK
<1>n. \A n : notify(n) => wid' = wid
  BY DEF notify, Notify
<1>r. release_slot => wid' = wid
  BY <1>n DEF release_slot
<1>p. \A c : push_idle(c) => wid' = wid
  BY <1>n DEF push_idle
<1>q. reap => wid' = wid
  BY <1>n DEF reap, waiterVars
<1>1. CASE Close \/ Tick \/ UNCHANGED vars
  BY <1>1 DEF Close, Tick, vars, taskVars, waiterVars, ControlInv
<1>2. ASSUME NEW t \in Tasks, TaskStep(t) PROVE ControlInv'
  <2> DEFINE end == IF OneShot THEN "done" ELSE "idle"
  <2>e. end \in PC /\ end \notin Running /\ end \notin {"backoff", "validate", "wait"}
    BY <1>t DEF PC, Suspended, Running
  <2> HIDE DEF end
  \* A return to the caller, and a move inside the call, that leave the ids alone.
  <2>a. ASSUME Return(t), running \in {t, NoTask},
               wid'[t] = 0, \A u \in Tasks \ {t} : wid'[u] = wid[u]
        PROVE  ControlInv'
    <3>1. pc' = [pc EXCEPT ![t] = end] /\ running' = NoTask
          /\ \A u \in Tasks \ {t} : op'[u] = op[u]
      BY <1>t, <2>a DEF Return, end
    <3>2. end \notin {"fast", "loop", "poll", "ready", "giveback", "pop"}
      BY <2>e DEF Running
    <3> QED BY <1>t, <2>a, <2>e, <3>1, <3>2, MoveControl
  <2>b. ASSUME NEW p \in PC \ {"wait"}, pc' = [pc EXCEPT ![t] = p],
               running' = IF p \in Running THEN t ELSE NoTask,
               running \in {t, NoTask},
               \A u \in Tasks \ {t} : op'[u] = op[u],
               wid' = wid, wid[t] # 0 => p = "poll",
               p \in {"fast", "loop", "poll", "ready", "giveback", "backoff"}
                 => op'[t] = "get",
               p \in {"pop", "validate"} => op'[t] \in {"get", "try_get"}
        PROVE  ControlInv'
    BY <1>t, <2>b, MoveControl
  <2>c. pc[t] \notin {"wait", "poll"} => wid[t] = 0
    BY DEF ControlInv
  <2>1. CASE Get(t) \/ TryGet(t)
    <3>1. CASE Return(t) /\ UNCHANGED waiterVars
      BY <2>1, <2>a, <2>c, <3>1 DEF Get, TryGet, AtRest, waiterVars
    <3>2. CASE Goto(t, IF TestOnCheckOut THEN "loop" ELSE "fast")
               /\ op' = [op EXCEPT ![t] = "get"] /\ UNCHANGED waiterVars
      <4> DEFINE p == IF TestOnCheckOut THEN "loop" ELSE "fast"
      <4>1. p \in {"loop", "fast"} /\ p \in PC /\ p \in Running
        BY <1>t DEF PC, Running
      <4>2. pc' = [pc EXCEPT ![t] = p] /\ running' = t
        BY <3>2 DEF Goto
      <4> HIDE DEF p
      <4>3. wid' = wid /\ wid[t] = 0 /\ running = NoTask
        BY <2>1, <2>c, <3>2 DEF Get, TryGet, AtRest, waiterVars
      <4> QED BY <1>t, <2>b, <3>2, <4>1, <4>2, <4>3
    <3>3. CASE Goto(t, "pop") /\ op' = [op EXCEPT ![t] = "try_get"] /\ UNCHANGED waiterVars
      <4>1. wid' = wid /\ wid[t] = 0 /\ running = NoTask
        BY <2>1, <2>c, <3>3 DEF Get, TryGet, AtRest, waiterVars
      <4> QED BY <1>t, <2>b, <3>3, <4>1 DEF Goto, PC, Running
    <3> QED BY <2>1, <3>1, <3>2, <3>3 DEF Get, TryGet
  <2>2. CASE FastMiss(t) \/ BackoffOver(t)
    <3>1. wid' = wid /\ wid[t] = 0 /\ op[t] = "get" /\ op' = op
          /\ running \in {t, NoTask} /\ Goto(t, "loop")
      BY <2>2, <2>c DEF FastMiss, BackoffOver, InSection, AtRest, waiterVars, ControlInv
    <3> QED BY <2>b, <3>1 DEF Goto, PC, Running
  <2>3. CASE Resume(t)
    <3>1. wid' = wid /\ op[t] = "get" /\ op' = op /\ running = NoTask /\ Goto(t, "poll")
      BY <2>3 DEF Resume, AtRest, waiterVars, ControlInv
    <3> QED BY <2>b, <3>1 DEF Goto, PC, Running
  <2>4. CASE LoopTop(t) \/ AfterWait(t) \/ EnterWarm(t)
    <3>1. wid' = wid /\ wid[t] = 0 /\ running = t
      BY <2>4, <2>c DEF LoopTop, AfterWait, EnterWarm, InSection, waiterVars
    <3>2. CASE Return(t)
      BY <2>a, <3>1, <3>2
    <3>3. CASE \E p \in {"poll", "pop"} : Goto(t, p) /\ op' = op /\ op[t] = "get"
      BY <2>b, <3>1, <3>3 DEF Goto, PC, Running
    <3>4. CASE Goto(t, "fill") /\ op' = op
      BY <2>b, <3>1, <3>4 DEF Goto, PC, Running
    <3> QED BY <2>4, <3>2, <3>3, <3>4 DEF LoopTop, AfterWait, EnterWarm, InSection, ControlInv
  <2>5. CASE PollWait(t)
    <3>1. op' = op /\ op[t] = "get" /\ running = t
      BY <2>5 DEF PollWait, InSection, ControlInv
    <3>2. CASE PollReady(t, closed) /\ Goto(t, "ready")
      <4>1. wid' = [wid EXCEPT ![t] = 0] /\ pc' = [pc EXCEPT ![t] = "ready"] /\ running' = t
        BY <3>2 DEF PollReady, Goto
      <4>2. wid'[t] = 0 /\ \A u \in Tasks \ {t} : wid'[u] = wid[u]
        BY <1>t, <4>1
      <4> QED BY <1>t, <3>1, <4>1, <4>2, MoveControl DEF PC, Running
    <3>3. CASE PollPending(t) /\ Await(t, "wait")
      <4>1. pc' = [pc EXCEPT ![t] = "wait"] /\ running' = NoTask
        BY <3>3 DEF Await
      <4>2. \A u \in Tasks \ {t} : wid'[u] = wid[u]
        BY <1>t, <3>3 DEF PollPending, register
      <4>3. wid'[t] # 0
        <5>1. woken_upto \in Nat
          BY DEF Typed, TypeOK, WaitersTypeOK
        <5> QED BY <1>t, <3>3, <5>1 DEF PollPending, register
      <4> QED BY <1>t, <3>1, <4>1, <4>2, <4>3, MoveControl DEF PC, Suspended, Running
    <3> QED BY <2>5, <3>2, <3>3 DEF PollWait
  <2>6. CASE DiscardExpired(t)
    BY <1>r, <2>6 DEF DiscardExpired, taskVars, ControlInv
  <2>7. CASE TakeIdle(t)
    <3>1. wid' = wid /\ wid[t] = 0 /\ running = t /\ op[t] \in {"get", "try_get"}
      BY <2>7, <2>c DEF TakeIdle, waiterVars, ControlInv
    <3>2. CASE Await(t, "validate") /\ op' = op
      BY <2>b, <3>1, <3>2 DEF Await, PC, Suspended, Running
    <3>3. CASE HandOut(t)
      BY <1>t, <2>b, <3>1, <3>3 DEF HandOut, PC, Suspended, Running
    <3> QED BY <2>7, <3>2, <3>3 DEF TakeIdle
  <2>8. CASE OpenNew(t)
    <3>1. wid' = wid /\ wid[t] = 0 /\ running = t /\ op[t] \in {"get", "try_get"}
      BY <2>8, <2>c DEF OpenNew, InSection, waiterVars, ControlInv
    <3>2. CASE Await(t, "connect") /\ op' = op
      BY <2>b, <3>1, <3>2 DEF Await, PC, Suspended, Running
    <3>3. CASE Return(t)
      BY <2>a, <3>1, <3>3
    <3>4. CASE op[t] # "try_get" /\ Goto(t, "loop") /\ op' = op
      BY <2>b, <3>1, <3>4 DEF Goto, PC, Running
    <3> QED BY <2>8, <3>2, <3>3, <3>4 DEF OpenNew
  <2>9. CASE Validated(t)
    <3>1. wid' = wid /\ wid[t] = 0 /\ running = NoTask /\ op[t] \in {"get", "try_get"}
      BY <1>r, <2>9, <2>c DEF Validated, AtRest, waiterVars, ControlInv
    <3>2. CASE HandOut(t)
      BY <1>t, <2>b, <3>1, <3>2 DEF HandOut, PC, Suspended, Running
    <3>3. CASE Goto(t, IF op[t] = "get" THEN "loop" ELSE "pop") /\ op' = op
      <4>1. CASE op[t] = "get"
        BY <2>b, <3>1, <3>3, <4>1 DEF Goto, PC, Running
      <4>2. CASE op[t] # "get"
        BY <2>b, <3>1, <3>3, <4>2 DEF Goto, PC, Running
      <4> QED BY <4>1, <4>2
    <3> QED BY <2>9, <3>2, <3>3 DEF Validated
  <2>10. CASE Connected(t)
    <3>1. wid' = wid /\ wid[t] = 0 /\ running = NoTask /\ HandOut(t)
      BY <2>10, <2>c DEF Connected, AtRest, waiterVars
    <3> QED BY <1>t, <2>b, <3>1 DEF HandOut, PC, Suspended, Running
  <2>11. CASE ConnectFailed(t)
    <3>1. wid' = wid /\ wid[t] = 0 /\ running = NoTask
      BY <1>r, <2>11, <2>c DEF ConnectFailed, AtRest, waiterVars
    <3>2. CASE op[t] = "get" /\ Goto(t, "giveback") /\ op' = op
      BY <2>b, <3>1, <3>2 DEF Goto, PC, Running
    <3>3. CASE Return(t)
      BY <2>a, <3>1, <3>3
    <3> QED BY <2>11, <3>2, <3>3 DEF ConnectFailed
  <2>12. CASE GiveBack(t)
    <3>1. wid' = wid /\ wid[t] = 0 /\ running = t /\ op[t] = "get" /\ op' = op
          /\ Await(t, "backoff")
      BY <1>r, <2>12, <2>c DEF GiveBack, InSection, ControlInv
    <3> QED BY <2>b, <3>1 DEF Await, PC, Suspended, Running
  <2>13. CASE Timeout(t) \/ Cancel(t)
    <3>1. GiveUp(t) /\ running = NoTask
      BY <2>13 DEF Timeout, Cancel
    <3>2. CASE pc[t] = "wait" /\ DropWait(t)
      <4>1. wid' = [wid EXCEPT ![t] = 0]
        BY <3>2 DEF DropWait
      <4> QED BY <1>t, <2>a, <3>1, <4>1 DEF GiveUp
    <3>3. CASE pc[t] \in {"validate", "connect", "backoff"} /\ wid' = wid
      BY <2>a, <2>c, <3>1, <3>3 DEF GiveUp
    <3> QED BY <1>r, <3>1, <3>2, <3>3 DEF GiveUp, waiterVars
  <2>14. CASE Warm(t) \/ Maintain(t)
    <3>1. wid' = wid /\ wid[t] = 0 /\ running = NoTask /\ Goto(t, "warm")
          /\ op' = [op EXCEPT ![t] = "warm"]
      BY <1>q, <2>14, <2>c DEF Warm, Maintain, AtRest, waiterVars
    <3> QED BY <1>t, <2>b, <3>1 DEF Goto, PC, Running
  <2>15. CASE Fill(t)
    <3>1. wid' = wid /\ wid[t] = 0 /\ running = t
      BY <2>15, <2>c DEF Fill, InSection, waiterVars
    <3>2. CASE Await(t, "connect") /\ op' = op
      BY <2>b, <3>1, <3>2 DEF Await, PC, Suspended, Running
    <3>3. CASE Return(t)
      BY <2>a, <3>1, <3>3
    <3> QED BY <2>15, <3>2, <3>3 DEF Fill
  <2>16. CASE Warmed(t)
    <3>1. wid' = wid /\ wid[t] = 0 /\ running = NoTask /\ Goto(t, "fill") /\ op' = op
      BY <1>p, <2>16, <2>c DEF Warmed, AtRest
    <3> QED BY <2>b, <3>1 DEF Goto, PC, Running
  <2>17. CASE Reap(t) \/ Clear(t) \/ Take(t)
    <3>1. wid' = wid /\ wid[t] = 0 /\ running = NoTask /\ Return(t)
      BY <1>n, <1>q, <1>r, <2>17, <2>c DEF Reap, Clear, Take, AtRest
    <3> QED BY <2>a, <3>1
  <2>18. CASE DropLease(t)
    <3>1. wid' = wid /\ wid[t] = 0 /\ running = NoTask
      BY <1>r, <2>18, <2>c DEF DropLease, AtRest, waiterVars
    <3>2. CASE Return(t)
      BY <2>a, <3>1, <3>2
    <3>3. CASE Goto(t, "returning") /\ op' = op
      BY <2>b, <3>1, <3>3 DEF Goto, PC, Running
    <3> QED BY <2>18, <3>2, <3>3 DEF DropLease
  <2>19. CASE Recycle(t)
    <3>1. wid' = wid /\ wid[t] = 0 /\ running = t /\ Return(t)
      BY <1>p, <1>r, <2>19, <2>c DEF Recycle, InSection
    <3> QED BY <2>a, <3>1
  <2> QED BY <1>2, <2>1, <2>2, <2>3, <2>4, <2>5, <2>6, <2>7, <2>8, <2>9, <2>10, <2>11,
             <2>12, <2>13, <2>14, <2>15, <2>16, <2>17, <2>18, <2>19 DEF TaskStep
<1> QED BY <1>1, <1>2 DEF Next

-----------------------------------------------------------------------------
(* Counting wakes. *)

\* A wake of m that leaves the queue non-empty woke exactly m tasks, none of
\* which had been woken before.
LEMMA WakeCounts ==
  ASSUME NEW q, NEW m \in Nat, NEW s, NEW d,
         QInv(q, next_id, woken_upto, d, s), wake(q, m, s), entries' # << >>
  PROVE  /\ Cardinality(s) \in Nat
         /\ Cardinality(scheduled') = Cardinality(s) + m
         /\ q # << >>
<1> DEFINE k == IF m < Len(q) THEN m ELSE Len(q)
           W == {q[i].waker : i \in 1 .. k}
<1>0. /\ QueueTypes(q, next_id, woken_upto, d, s)
      /\ QueueOrder(q, next_id, woken_upto, d)
      /\ QueueMarks(q, woken_upto, d, s)
  BY DEF QInv
<1>1. q \in Seq(Entry) /\ Len(q) \in Nat /\ s \subseteq Tasks /\ woken_upto \in Nat
  BY <1>0, LenProperties DEF QueueTypes
<1>2. scheduled' = s \cup W /\ entries' = SubSeq(q, k + 1, Len(q))
  BY DEF wake
<1>3. m < Len(q) /\ k = m
  <2> SUFFICES ASSUME ~(m < Len(q)) PROVE FALSE
    BY <1>1
  <2>1. entries' = SubSeq(q, Len(q) + 1, Len(q))
    BY <1>2
  <2>2. Len(q) + 1 \in Int /\ Len(q) \in Int /\ Len(q) < Len(q) + 1
    BY <1>1
  <2>3. entries' = << >>
    BY <2>1, <2>2, SubSeqEmpty
  <2> QED BY <2>3
<1>4. \A i \in 1 .. Len(q) : q[i].id \in Nat /\ q[i].waker \in Tasks
  <2>1. \A i \in 1 .. Len(q) : q[i] \in Entry
    BY <1>1, ElementOfSeq
  <2> QED BY <2>1 DEF Entry
<1>5. W = {q[i].waker : i \in 1 .. m} /\ \A i \in 1 .. m : i \in 1 .. Len(q)
  BY <1>1, <1>3
<1> HIDE DEF k, W
<1>6. IsFiniteSet(s) /\ Cardinality(s) \in Nat
  BY <1>1, TasksAssumption, FS_Subset, FS_CardinalityType
<1>7. IsFiniteSet(W) /\ Cardinality(W) = m
  <2> DEFINE f == [i \in 1 .. m |-> q[i].waker]
  <2>1. IsFiniteSet(1 .. m) /\ Cardinality(1 .. m) = m
    <3>1. /\ IsFiniteSet(1 .. m)
          /\ Cardinality(1 .. m) = IF 1 > m THEN 0 ELSE m - 1 + 1
      <4>1. 1 \in Int /\ m \in Int
        OBVIOUS
      <4> QED BY <4>1, FS_Interval
    <3> QED BY <3>1
  <2>2. f \in [1 .. m -> W]
    BY <1>5
  <2>3. ASSUME NEW a \in 1 .. m, NEW b \in 1 .. m, f[a] = f[b] PROVE a = b
    <3>1. q[a].id = q[b].id
      BY <1>0, <1>5, <2>3 DEF QueueOrder
    <3> QED BY <1>0, <1>4, <1>5, <3>1 DEF QueueOrder
  <2>4. \A w \in W : \E a \in 1 .. m : f[a] = w
    BY <1>5
  <2> HIDE DEF f
  <2>5. f \in Bijection(1 .. m, W)
    BY <2>2, <2>3, <2>4 DEF Bijection, Injection, Surjection, IsInjective
  <2>6. ExistsBijection(1 .. m, W)
    BY <2>5 DEF ExistsBijection
  <2> QED BY <2>1, <2>6, FS_Bijection
<1>8. s \cap W = {}
  <2> SUFFICES ASSUME NEW i \in 1 .. m, q[i].waker \in s PROVE FALSE
    BY <1>5
  <2>1. i \in 1 .. Len(q) /\ d[q[i].waker] = q[i].id /\ woken_upto < q[i].id
    BY <1>0, <1>5 DEF QueueOrder
  <2> QED BY <1>0, <1>1, <1>4, <2>1 DEF QueueMarks
<1>9. Cardinality(s \cup W) = Cardinality(s) + Cardinality(W) - Cardinality({})
  BY <1>6, <1>7, <1>8, FS_Union
<1>10. q # << >>
  BY <1>1, <1>3, EmptySeq
<1> QED BY <1>2, <1>6, <1>7, <1>9, <1>10, FS_EmptySet

-----------------------------------------------------------------------------
(* The inductive invariant: every unit of capacity has a claimant, a waiter    *)
(* that was woken, or the one get that is past its wait and about to take.     *)

Claiming(t) == pc[t] = "ready" \/ (pc[t] = "pop" /\ op[t] = "get")

Claims == IF \E t \in Tasks : Claiming(t) THEN 1 ELSE 0

\* What a get past its wait observed still holds.
Observed ==
  \A t \in Tasks : /\ pc[t] = "ready" => closed \/ Capacity > 0
                   /\ (pc[t] = "pop" /\ op[t] = "get") => Capacity > 0

Covered ==
  (~closed /\ entries # << >>) => Capacity <= Cardinality(scheduled) + Claims

CapacityInv == Typed /\ SlotsAccounted /\ ControlInv /\ Observed /\ Covered

LEMMA CapacityType ==
  ASSUME Typed, SlotsAccounted
  PROVE  /\ Capacity \in Nat
         /\ Capacity > 0 <=> (idle # << >> \/ slots < MaxSize)
         /\ Cardinality(scheduled) \in Nat
         /\ Claims \in {0, 1}
<1>1. slots \in Nat /\ MaxSize \in Nat /\ slots <= MaxSize
  BY ConfigAssumption DEF Typed, TypeOK, SlotsAccounted
<1>2. Len(idle) \in Nat /\ (Len(idle) = 0 <=> idle = << >>)
  BY LenProperties, EmptySeq DEF Typed, TypeOK
<1>3. Cardinality(scheduled) \in Nat
  BY TasksAssumption, FS_Subset, FS_CardinalityType DEF Typed, TypeOK, WaitersTypeOK
<1> QED BY <1>1, <1>2, <1>3 DEF Capacity, Claims

\* It implies what TLC checks.
LEMMA CapacityInvImplies ==
  CapacityInv => NoStrandedWaiter /\ ObservationHolds
<1> SUFFICES ASSUME CapacityInv PROVE NoStrandedWaiter /\ ObservationHolds
  OBVIOUS
<1>1. ObservationHolds
  BY DEF CapacityInv, Observed, ObservationHolds
<1>2. ASSUME ~closed, running = NoTask, entries # << >>
      PROVE  Capacity <= Cardinality({t \in scheduled : pc[t] = "wait"})
  <2>1. scheduled \subseteq Tasks /\ \A t \in scheduled : wid[t] # 0
    BY DEF CapacityInv, Typed, WaitersInv, QInv, QueueTypes, QueueMarks
  <2>2. \A t \in Tasks : pc[t] \notin Running
    BY <1>2, BoundAssumption DEF CapacityInv, ControlInv
  <2>3. {t \in scheduled : pc[t] = "wait"} = scheduled
    BY <2>1, <2>2 DEF CapacityInv, ControlInv, Running
  <2>4. Claims = 0
    BY <2>2 DEF Claims, Claiming, Running
  <2>5. Cardinality(scheduled) \in Nat /\ Capacity \in Nat
    BY CapacityType DEF CapacityInv
  <2>6. Capacity <= Cardinality(scheduled) + Claims
    BY <1>2 DEF CapacityInv, Covered
  <2> QED BY <2>3, <2>4, <2>5, <2>6
<1> QED BY <1>1, <1>2 DEF NoStrandedWaiter

-----------------------------------------------------------------------------
(* Capacity is what the owners of a slot have left over. *)

Unowned ==
  /\ Capacity = MaxSize - Cardinality(Owners)
  /\ Cardinality(Owners) \in Nat
  /\ Capacity \in Nat

LEMMA CapacityIsUnowned == Typed /\ SlotsAccounted => Unowned
<1> SUFFICES ASSUME Typed, SlotsAccounted PROVE Unowned
  OBVIOUS
<1>1. slots \in Nat /\ MaxSize \in Nat /\ Len(idle) \in Nat
  BY ConfigAssumption, LenProperties DEF Typed, TypeOK
<1>2. Cardinality(Owners) \in Nat
  BY TasksAssumption, FS_Subset, FS_CardinalityType DEF Owners
<1>3. Capacity \in Nat
  BY CapacityType
<1> QED BY <1>1, <1>2, <1>3 DEF Capacity, SlotsAccounted, Unowned

LEMMA CapacityMove ==
  ASSUME Typed, SlotsAccounted, Typed', SlotsAccounted',
         NEW t \in Tasks, NEW p, pc' = [pc EXCEPT ![t] = p]
  PROVE  /\ Capacity \in Nat /\ Capacity' \in Nat
         /\ (p \in OwnsSlot <=> pc[t] \in OwnsSlot) => Capacity' = Capacity
         /\ (p \in OwnsSlot /\ pc[t] \notin OwnsSlot) => Capacity' = Capacity - 1
         /\ (p \notin OwnsSlot /\ pc[t] \in OwnsSlot) => Capacity' = Capacity + 1
<1>0. MaxSize \in Nat
  BY ConfigAssumption
<1>1. Capacity = MaxSize - Cardinality(Owners) /\ Capacity \in Nat
      /\ Cardinality(Owners) \in Nat
  BY CapacityIsUnowned DEF Unowned
<1>2. Unowned'
  BY CapacityIsUnowned, PTL
<1>5. Capacity' = MaxSize - Cardinality(Owners') /\ Capacity' \in Nat
  BY <1>2 DEF Unowned
<1>3. pc \in [Tasks -> PC]
  BY DEF Typed, TypeOK
<1>4. /\ (p \in OwnsSlot <=> pc[t] \in OwnsSlot)
           => Cardinality(Owners') = Cardinality(Owners)
      /\ (p \in OwnsSlot /\ pc[t] \notin OwnsSlot)
           => Cardinality(Owners') = Cardinality(Owners) + 1
      /\ (p \notin OwnsSlot /\ pc[t] \in OwnsSlot)
           => Cardinality(Owners') = Cardinality(Owners) - 1
  BY <1>3, OwnersMove
<1> QED BY <1>0, <1>1, <1>4, <1>5

\* Only the running task can be a claimant.
LEMMA ClaimsMove ==
  ASSUME Typed, ControlInv, NEW t \in Tasks, running \in {t, NoTask},
         \A u \in Tasks \ {t} : pc'[u] = pc[u]
  PROVE  /\ Claims = IF Claiming(t) THEN 1 ELSE 0
         /\ Claims' = IF Claiming(t)' THEN 1 ELSE 0
         /\ \A u \in Tasks \ {t} : pc[u] \notin Running /\ pc'[u] \notin Running
<1>1. \A u \in Tasks \ {t} : pc[u] \notin Running /\ pc'[u] \notin Running
  BY BoundAssumption DEF ControlInv
<1>2. \A u \in Tasks \ {t} : ~Claiming(u) /\ ~Claiming(u)'
  BY <1>1 DEF Claiming, Running
<1> QED BY <1>1, <1>2 DEF Claims

\* A step that wakes m waiters on an open pool, and frees at most m units more
\* than it gives claimants up, leaves the capacity covered.
LEMMA WakeCovers ==
  ASSUME Typed, SlotsAccounted, Covered, closed' = closed,
         Capacity \in Nat, Capacity' \in Nat, Claims \in Nat, Claims' \in Nat,
         NEW q, NEW m \in Nat, NEW s, NEW d,
         ~closed => /\ QInv(q, next_id, woken_upto, d, s)
                    /\ wake(q, m, s),
         q # << >> => entries # << >>,
         Capacity' + Cardinality(scheduled) + Claims
           <= Capacity + Cardinality(s) + m + Claims'
  PROVE  Covered'
<1> SUFFICES ASSUME ~closed, entries' # << >>
             PROVE  Capacity' <= Cardinality(scheduled') + Claims'
  BY DEF Covered
<1>1. /\ Cardinality(s) \in Nat /\ Cardinality(scheduled') = Cardinality(s) + m
      /\ q # << >>
  BY WakeCounts
<1>2. Capacity <= Cardinality(scheduled) + Claims /\ Cardinality(scheduled) \in Nat
  BY <1>1, CapacityType DEF Covered
<1> DEFINE a == Capacity  b == Capacity'  c == Claims  d2 == Claims'
           e == Cardinality(scheduled)  f == Cardinality(s)
<1>3. /\ a \in Nat /\ b \in Nat /\ c \in Nat /\ d2 \in Nat /\ e \in Nat /\ f \in Nat
      /\ b + e + c <= a + f + m + d2 /\ a <= e + c
  BY <1>1, <1>2
<1> HIDE DEF a, b, c, d2, e, f
<1>4. b <= f + m + d2
  BY <1>3
<1> QED BY <1>1, <1>4 DEF b, d2, f

\* The steps of a task that do not poll or drop its wait.
LEMMA NotifyCovers ==
  ASSUME Typed, SlotsAccounted, Covered, closed' = closed,
         Capacity \in Nat, Capacity' \in Nat, Claims \in Nat, Claims' \in Nat,
         NEW m \in Nat,
         notify(m) \/ (m = 0 /\ UNCHANGED waiterVars),
         Capacity' + Claims <= Capacity + m + Claims'
  PROVE  Covered'
<1>0. Cardinality(scheduled) \in Nat
  BY CapacityType
<1>1. CASE m = 0 /\ UNCHANGED waiterVars
  <2>1. Capacity <= Cardinality(scheduled) + Claims
          => Capacity' <= Cardinality(scheduled) + Claims'
    <3> DEFINE a == Capacity  b == Capacity'  c == Claims  d == Claims'
               e == Cardinality(scheduled)
    <3>1. /\ a \in Nat /\ b \in Nat /\ c \in Nat /\ d \in Nat /\ e \in Nat
          /\ b + c <= a + m + d
      BY <1>0
    <3> HIDE DEF a, b, c, d, e
    <3>2. a <= e + c => b <= e + d
      BY <1>1, <3>1
    <3> QED BY <3>2 DEF a, b, c, d, e
  <2> QED BY <1>1, <2>1 DEF Covered, waiterVars
<1>2. CASE notify(m)
  <2>1. QInv(entries, next_id, woken_upto, wid, scheduled)
    BY DEF Typed, WaitersInv
  <2>2. ~closed => wake(entries, m, scheduled)
    BY <1>2 DEF notify, Notify
  <2>3. Capacity' + Cardinality(scheduled) + Claims
          <= Capacity + Cardinality(scheduled) + m + Claims'
    <3> DEFINE a == Capacity  b == Capacity'  c == Claims  d == Claims'
               e == Cardinality(scheduled)
    <3>1. /\ a \in Nat /\ b \in Nat /\ c \in Nat /\ d \in Nat /\ e \in Nat
          /\ b + c <= a + m + d
      BY <1>0
    <3> HIDE DEF a, b, c, d, e
    <3>2. b + e + c <= a + e + m + d
      BY <3>1
    <3> QED BY <3>2 DEF a, b, c, d, e
  <2> QED BY <2>1, <2>2, <2>3, WakeCovers
<1> QED BY <1>1, <1>2

Sized == Cardinality(scheduled) \in Nat /\ Claims \in {0, 1}

LEMMA TypedSizes == Typed /\ SlotsAccounted => Sized
BY CapacityType DEF Sized

LEMMA UnregisterShrinks ==
  ASSUME WaitersInv, NEW t \in Tasks, unregister(wid[t]) # << >>
  PROVE  entries # << >>
<1>1. DOMAIN entries = 1 .. Len(entries)
  BY LenProperties DEF WaitersInv, QInv, QueueTypes
<1>2. CASE Withdrawable(wid[t])
  <2>1. PICK i \in 1 .. Len(entries) : TRUE
    BY <1>1, <1>2 DEF Withdrawable, Queued
  <2>2. Len(<< >>) = 0
    BY EmptySeq
  <2> QED BY <2>1, <2>2
<1>3. CASE ~Withdrawable(wid[t])
  BY <1>3 DEF unregister
<1> QED BY <1>2, <1>3

LEMMA MoveBudget ==
  \A a, b, m \in Nat :
    /\ b = a - 1 => b + 1 <= a + m + 0
    /\ b = a => b + 0 <= a + m + 0
    /\ b = a - 1 => b + 0 <= a + m + 0
    /\ b = a + 1 /\ m >= 1 => b + 0 <= a + m + 0
OBVIOUS

LEMMA WaitBudget ==
  \A a, s, r \in Nat :
    /\ s <= r + 1 => a + s + 0 <= a + r + 0 + 1
    /\ s = r => a + s + 0 <= a + r + 0 + 0
    /\ r = s - 1 => a + s + 0 <= a + r + 1 + 0
OBVIOUS

\* A step that moves t to p: a claimant that leaves takes a slot with it, and a
\* slot given back wakes someone.
LEMMA MoveCovers ==
  ASSUME Typed, SlotsAccounted, ControlInv, Covered, Typed', SlotsAccounted',
         NEW t \in Tasks, NEW p, pc' = [pc EXCEPT ![t] = p],
         running \in {t, NoTask}, closed' = closed,
         NEW m \in Nat, notify(m) \/ (m = 0 /\ UNCHANGED waiterVars),
         p # "ready", p = "pop" => op'[t] # "get",
         Claiming(t) => p \in OwnsSlot,
         (p \notin OwnsSlot /\ pc[t] \in OwnsSlot) => m >= 1
  PROVE  Observed' /\ Covered'
<1>0. pc \in [Tasks -> PC]
  BY DEF Typed, TypeOK
<1>1. pc'[t] = p /\ \A u \in Tasks \ {t} : pc'[u] = pc[u]
  BY <1>0
<1>2. /\ Claims = IF Claiming(t) THEN 1 ELSE 0
      /\ Claims' = IF Claiming(t)' THEN 1 ELSE 0
      /\ \A u \in Tasks \ {t} : pc[u] \notin Running /\ pc'[u] \notin Running
  BY <1>1, ClaimsMove
<1>3. Observed'
  BY <1>1, <1>2 DEF Observed, Running
<1>4. ~Claiming(t)'
  BY <1>1 DEF Claiming
<1>5. Claims \in Nat /\ Claims' = 0
  BY <1>2, <1>4
<1>6. /\ Capacity \in Nat /\ Capacity' \in Nat
      /\ (p \in OwnsSlot <=> pc[t] \in OwnsSlot) => Capacity' = Capacity
      /\ (p \in OwnsSlot /\ pc[t] \notin OwnsSlot) => Capacity' = Capacity - 1
      /\ (p \notin OwnsSlot /\ pc[t] \in OwnsSlot) => Capacity' = Capacity + 1
  BY CapacityMove
<1>7. Capacity' + Claims <= Capacity + m + Claims'
  <2>1. CASE Claiming(t)
    <3>1. p \in OwnsSlot /\ pc[t] \notin OwnsSlot /\ Claims = 1
      BY <1>2, <2>1 DEF Claiming, OwnsSlot
    <3>2. Capacity' = Capacity - 1
      BY <1>6, <3>1
    <3> QED BY <1>5, <1>6, <3>1, <3>2, MoveBudget
  <2>2. CASE ~Claiming(t)
    <3>1. Claims = 0
      BY <1>2, <2>2
    <3>2. \/ Capacity' = Capacity \/ Capacity' = Capacity - 1
          \/ Capacity' = Capacity + 1 /\ m >= 1
      BY <1>6
    <3>3. Capacity' + 0 <= Capacity + m + 0
      <4>1. m \in Nat /\ Capacity \in Nat /\ Capacity' \in Nat
        BY <1>6
      <4>2. CASE Capacity' = Capacity
        BY <4>1, <4>2, MoveBudget
      <4>3. CASE Capacity' = Capacity - 1
        BY <4>1, <4>3, MoveBudget
      <4>4. CASE Capacity' = Capacity + 1 /\ m >= 1
        BY <4>1, <4>4, MoveBudget
      <4> QED BY <3>2, <4>2, <4>3, <4>4
    <3> QED BY <1>5, <3>1, <3>3
  <2> QED BY <2>1, <2>2
<1>8. Covered'
  BY <1>5, <1>6, <1>7, NotifyCovers
<1> QED BY <1>3, <1>8

\* WaitReady::poll: a wake that is used becomes a claim, and a waiter parks only
\* when there is no capacity at all.
LEMMA PollCovers ==
  ASSUME Typed, SlotsAccounted, ControlInv, Covered, Typed', SlotsAccounted',
         NEW t \in Tasks, PollWait(t)
  PROVE  Observed' /\ Covered'
<1>0. /\ pc \in [Tasks -> PC] /\ running = t /\ pc[t] = "poll" /\ closed' = closed
      /\ idle' = idle /\ slots' = slots /\ op' = op /\ op[t] = "get"
  BY DEF Typed, TypeOK, PollWait, InSection, poolVars, ControlInv
<1>1. Capacity' = Capacity
  BY <1>0 DEF Capacity
<1>2. Capacity \in Nat /\ (Capacity > 0 <=> (idle # << >> \/ slots < MaxSize))
      /\ Cardinality(scheduled) \in Nat
  BY CapacityType
<1>3. CASE ready_now /\ PollReady(t, closed) /\ Goto(t, "ready")
  <2>1. pc'[t] = "ready" /\ \A u \in Tasks \ {t} : pc'[u] = pc[u]
    BY <1>0, <1>3 DEF Goto
  <2>2. /\ Claims = 0 /\ Claims' = 1
        /\ \A u \in Tasks \ {t} : pc[u] \notin Running /\ pc'[u] \notin Running
    BY <1>0, <2>1, ClaimsMove DEF Claiming
  <2>3. Observed'
    BY <1>0, <1>1, <1>2, <1>3, <2>1, <2>2 DEF Observed, Running, ready_now
  <2>4. QInv(unregister(wid[t]), next_id, woken_upto, [wid EXCEPT ![t] = 0], scheduled \ {t})
    BY UnregisterPreserves DEF Typed
  <2>5. ~closed => wake(unregister(wid[t]), 0, scheduled \ {t})
    BY <1>3 DEF PollReady
  <2>6. unregister(wid[t]) # << >> => entries # << >>
    BY UnregisterShrinks DEF Typed
  <2>7. Cardinality(scheduled) <= Cardinality(scheduled \ {t}) + 1
        /\ Cardinality(scheduled \ {t}) \in Nat
    <3>1. IsFiniteSet(scheduled)
      BY TasksAssumption, FS_Subset DEF Typed, TypeOK, WaitersTypeOK
    <3>2. Cardinality(scheduled \ {t}) \in Nat
      BY <3>1, FS_Subset, FS_CardinalityType
    <3>3. CASE t \in scheduled
      <4>1. Cardinality(scheduled \ {t}) = Cardinality(scheduled) - 1
        BY <3>1, <3>3, FS_RemoveElement
      <4> QED BY <1>2, <3>2, <4>1
    <3>4. CASE t \notin scheduled
      <4>1. scheduled \ {t} = scheduled
        BY <3>4
      <4> QED BY <1>2, <4>1
    <3> QED BY <3>2, <3>3, <3>4
  <2>8. Capacity' + Cardinality(scheduled) + Claims
          <= Capacity + Cardinality(scheduled \ {t}) + 0 + Claims'
    BY <1>1, <1>2, <2>2, <2>7, WaitBudget
  <2>9. Capacity' \in Nat /\ Claims \in Nat /\ Claims' \in Nat /\ 0 \in Nat
    BY <1>1, <1>2, <2>2
  <2>10. Covered'
    BY <1>0, <1>2, <2>4, <2>5, <2>6, <2>8, <2>9, WakeCovers
  <2> QED BY <2>3, <2>10
<1>4. CASE ~ready_now /\ PollPending(t) /\ Await(t, "wait")
  <2>1. pc'[t] = "wait" /\ \A u \in Tasks \ {t} : pc'[u] = pc[u]
    BY <1>0, <1>4 DEF Await
  <2>2. \A u \in Tasks : pc'[u] \notin Running
    BY <1>0, <2>1, ClaimsMove DEF Running
  <2>3. Observed'
    BY <2>2 DEF Observed, Running
  <2>4. Capacity' = 0
    BY <1>1, <1>2, <1>4 DEF ready_now
  <2>5. Sized'
    BY TypedSizes, PTL
  <2> QED BY <2>3, <2>4, <2>5 DEF Covered, Sized
<1> QED BY <1>3, <1>4 DEF PollWait

\* WaitReady::drop: the wake a dropped future had received is passed on.
LEMMA DropCovers ==
  ASSUME Typed, SlotsAccounted, ControlInv, Covered, Typed', SlotsAccounted',
         NEW t \in Tasks, running = NoTask, pc[t] = "wait", DropWait(t),
         NEW p, pc' = [pc EXCEPT ![t] = p], p \notin Running, p \notin OwnsSlot,
         closed' = closed
  PROVE  Observed' /\ Covered'
<1>0. pc \in [Tasks -> PC] /\ wid[t] # 0 /\ pc[t] \notin OwnsSlot /\ wid \in [Tasks -> Nat]
  BY DEF Typed, TypeOK, WaitersTypeOK, ControlInv, OwnsSlot
<1>1. pc'[t] = p /\ \A u \in Tasks \ {t} : pc'[u] = pc[u]
  BY <1>0
<1>2. \A u \in Tasks : pc[u] \notin Running /\ pc'[u] \notin Running
  BY <1>1, ClaimsMove DEF Running
<1>3. Claims = 0 /\ Claims' = 0 /\ Observed'
  BY <1>2 DEF Claims, Claiming, Observed, Running
<1>4. Capacity \in Nat /\ Capacity' = Capacity
  BY <1>0, CapacityMove
<1>5. QInv(unregister(wid[t]), next_id, woken_upto, [wid EXCEPT ![t] = 0], scheduled \ {t})
  BY UnregisterPreserves DEF Typed
<1>6. unregister(wid[t]) # << >> => entries # << >>
  BY UnregisterShrinks DEF Typed
<1>7. IsFiniteSet(scheduled) /\ Cardinality(scheduled) \in Nat /\ woken_upto \in Nat
  BY TasksAssumption, FS_Subset, FS_CardinalityType DEF Typed, TypeOK, WaitersTypeOK
<1>8. Capacity' \in Nat /\ Claims \in Nat /\ Claims' \in Nat /\ 0 \in Nat /\ 1 \in Nat
  BY <1>3, <1>4
<1>9. QueueMarks(entries, woken_upto, wid, scheduled)
  BY DEF Typed, WaitersInv, QInv
<1>10. DOMAIN entries = 1 .. Len(entries)
  BY LenProperties DEF Typed, TypeOK, WaitersTypeOK
<1>11. CASE Withdrawable(wid[t])
  <2>1. wake(unregister(wid[t]), 0, scheduled \ {t})
    BY <1>11 DEF DropWait
  <2>2. t \notin scheduled
    BY <1>0, <1>7, <1>9, <1>11 DEF QueueMarks, Withdrawable
  <2>3. scheduled \ {t} = scheduled
    BY <2>2
  <2>4. Capacity' + Cardinality(scheduled) + Claims
          <= Capacity + Cardinality(scheduled \ {t}) + 0 + Claims'
    BY <1>3, <1>4, <1>7, <2>3, WaitBudget
  <2> QED BY <1>3, <1>4, <1>5, <1>6, <1>8, <2>1, <2>4, WakeCovers
<1>12. CASE ~Withdrawable(wid[t])
  <2>1. wake(unregister(wid[t]), 1, scheduled \ {t})
    BY <1>0, <1>12 DEF DropWait
  <2>2. t \in scheduled
    <3>1. wid[t] > woken_upto => Queued(wid[t])
      BY <1>0, <1>9, <1>10 DEF QueueMarks, Queued
    <3> QED BY <1>0, <1>7, <1>9, <1>12, <3>1 DEF QueueMarks, Withdrawable
  <2>3. Cardinality(scheduled \ {t}) = Cardinality(scheduled) - 1
        /\ Cardinality(scheduled \ {t}) \in Nat
    BY <1>7, <2>2, FS_RemoveElement, FS_CardinalityType
  <2>4. Capacity' + Cardinality(scheduled) + Claims
          <= Capacity + Cardinality(scheduled \ {t}) + 1 + Claims'
    BY <1>3, <1>4, <1>7, <2>3, WaitBudget
  <2> QED BY <1>3, <1>4, <1>5, <1>6, <1>8, <2>1, <2>4, WakeCovers
<1> QED BY <1>11, <1>12

-----------------------------------------------------------------------------
(* Every step keeps the capacity covered. *)

LEMMA StepCovers ==
  ASSUME CapacityInv, Typed', SlotsAccounted', [Next]_vars
  PROVE  Observed' /\ Covered'
<1>0. Typed /\ SlotsAccounted /\ ControlInv /\ Observed /\ Covered
  BY DEF CapacityInv
<1>1. CASE Close
  <2>1. closed' /\ pc' = pc /\ op' = op /\ Capacity' = Capacity
    BY <1>1 DEF Close, taskVars, Capacity
  <2> QED BY <1>0, <2>1 DEF Observed, Covered
<1>2. CASE Tick \/ UNCHANGED vars
  <2>1. /\ closed' = closed /\ pc' = pc /\ op' = op /\ Capacity' = Capacity
        /\ entries' = entries /\ scheduled' = scheduled
    BY <1>2 DEF Tick, vars, poolVars, taskVars, waiterVars, Capacity
  <2>2. Claims' = Claims
    BY <2>1 DEF Claims, Claiming
  <2> QED BY <1>0, <2>1, <2>2 DEF Observed, Covered
<1>3. ASSUME NEW t \in Tasks, TaskStep(t) PROVE Observed' /\ Covered'
  <2> DEFINE end == IF OneShot THEN "done" ELSE "idle"
  <2>e. end \notin OwnsSlot /\ end \notin Running /\ end # "ready" /\ end # "pop"
    BY DEF OwnsSlot, Running
  <2>r. Return(t) => pc' = [pc EXCEPT ![t] = end]
    BY DEF Return
  <2> HIDE DEF end
  \* A slot is taken; a slot is given back and one waiter woken; neither.
  <2>a. ASSUME NEW p \in OwnsSlot, pc' = [pc EXCEPT ![t] = p],
               running \in {t, NoTask}, closed' = closed, UNCHANGED waiterVars
        PROVE  Observed' /\ Covered'
    BY <1>0, <2>a, MoveCovers DEF OwnsSlot
  <2>b. ASSUME NEW p, pc' = [pc EXCEPT ![t] = p], p # "ready",
               p = "pop" => op'[t] # "get", pc[t] \in OwnsSlot,
               running \in {t, NoTask}, closed' = closed, notify(1)
        PROVE  Observed' /\ Covered'
    <3>1. ~Claiming(t) /\ 1 \in Nat /\ 1 >= 1
      BY <2>b DEF Claiming, OwnsSlot
    <3> QED BY <1>0, <2>b, <3>1, MoveCovers
  <2>c. ASSUME NEW p, pc' = [pc EXCEPT ![t] = p], p # "ready",
               p = "pop" => op'[t] # "get", pc[t] \notin OwnsSlot, ~Claiming(t),
               running \in {t, NoTask}, closed' = closed,
               UNCHANGED waiterVars \/ \E n \in Nat : notify(n)
        PROVE  Observed' /\ Covered'
    BY <1>0, <2>c, MoveCovers
  <2>1. CASE \/ Get(t) \/ TryGet(t) \/ FastMiss(t) \/ LoopTop(t) \/ Resume(t)
             \/ BackoffOver(t) \/ Warm(t) \/ EnterWarm(t)
    <3>1. /\ running \in {t, NoTask} /\ closed' = closed /\ UNCHANGED waiterVars
          /\ pc[t] \notin OwnsSlot /\ ~Claiming(t)
      BY <2>1 DEF Get, TryGet, FastMiss, LoopTop, Resume, BackoffOver, Warm, EnterWarm,
                  AtRest, InSection, poolVars, OwnsSlot, Claiming
    <3>2. CASE Return(t)
      BY <2>c, <2>e, <2>r, <3>1, <3>2
    <3>3. CASE \E p \in {"fast", "loop", "poll", "warm", "fill"} : Goto(t, p)
      BY <2>c, <3>1, <3>3 DEF Goto
    <3>4. CASE Goto(t, "pop") /\ op' = [op EXCEPT ![t] = "try_get"]
      <4>1. op'[t] # "get"
        BY <1>0, <3>4 DEF Typed, TypeOK
      <4> QED BY <2>c, <3>1, <3>4, <4>1 DEF Goto
    <3> QED BY <2>1, <3>2, <3>3, <3>4
            DEF Get, TryGet, FastMiss, LoopTop, Resume, BackoffOver, Warm, EnterWarm
  <2>2. CASE PollWait(t)
    BY <1>0, <2>2, PollCovers
  <2>3. CASE AfterWait(t)
    <3>0. /\ running = t /\ pc[t] = "ready" /\ closed' = closed /\ op[t] = "get"
          /\ entries' = entries /\ scheduled' = scheduled
          /\ idle' = idle /\ slots' = slots /\ pc \in [Tasks -> PC]
      BY <1>0, <2>3 DEF AfterWait, InSection, waiterVars, poolVars, ControlInv, Typed, TypeOK
    <3>1. CASE closed /\ Return(t)
      <4>1. pc'[t] = end /\ \A u \in Tasks \ {t} : pc'[u] = pc[u]
        BY <2>r, <3>0, <3>1
      <4>2. \A u \in Tasks : pc'[u] \notin Running
        BY <1>0, <2>e, <3>0, <4>1, ClaimsMove
      <4> QED BY <3>0, <3>1, <4>2 DEF Observed, Covered, Running
    <3>2. CASE ~closed /\ Goto(t, "pop") /\ UNCHANGED op
      <4>1. pc'[t] = "pop" /\ \A u \in Tasks \ {t} : pc'[u] = pc[u]
        BY <3>0, <3>2 DEF Goto
      <4>2. /\ Claims = 1 /\ Claims' = 1
            /\ \A u \in Tasks \ {t} : pc'[u] \notin Running
        BY <1>0, <3>0, <3>2, <4>1, ClaimsMove DEF Claiming
      <4>3. Capacity' = Capacity /\ Capacity > 0
        BY <1>0, <3>0, <3>2 DEF Capacity, Observed
      <4>4. Observed'
        BY <4>1, <4>2, <4>3 DEF Observed, Running
      <4>5. Covered'
        BY <1>0, <3>0, <4>2, <4>3 DEF Covered
      <4> QED BY <4>4, <4>5
    <3> QED BY <2>3, <3>1, <3>2 DEF AfterWait
  <2>4. CASE DiscardExpired(t)
    <3>1. pc' = pc /\ op' = op /\ closed' = closed /\ notify(1)
      BY <2>4 DEF DiscardExpired, taskVars, release_slot
    <3>2. Unowned /\ Unowned'
      BY <1>0, CapacityIsUnowned, PTL
    <3>3. Owners' = Owners
      BY <3>1 DEF Owners
    <3>4. Capacity' = Capacity /\ Capacity \in Nat
      BY <3>2, <3>3 DEF Unowned
    <3>5. Claims' = Claims /\ Claims \in Nat
      BY <3>1 DEF Claims, Claiming
    <3>6. Observed'
      BY <1>0, <3>1, <3>4 DEF Observed
    <3>7. Capacity' + Claims <= Capacity + 1 + Claims'
      BY <3>4, <3>5
    <3>8. Covered'
      BY <1>0, <3>1, <3>4, <3>5, <3>7, NotifyCovers
    <3> QED BY <3>6, <3>8
  <2>5. CASE TakeIdle(t)
    <3>1. PICK p \in {"validate", "held"} : pc' = [pc EXCEPT ![t] = p]
      BY <2>5 DEF TakeIdle, Await, HandOut
    <3> QED BY <2>5, <2>a, <3>1 DEF TakeIdle, OwnsSlot
  <2>6. CASE OpenNew(t)
    <3>0. running = t /\ pc[t] = "pop" /\ closed' = closed /\ UNCHANGED waiterVars
          /\ idle = << >>
      BY <2>6 DEF OpenNew, InSection
    <3>1. CASE Await(t, "connect")
      BY <2>a, <3>0, <3>1 DEF Await, OwnsSlot
    <3>2. CASE op[t] = "try_get" /\ Return(t)
      BY <2>c, <2>e, <2>r, <3>0, <3>2 DEF Claiming, OwnsSlot
    <3>3. CASE op[t] # "try_get" /\ ~(slots < MaxSize)
      <4>1. op[t] = "get"
        BY <1>0, <3>0, <3>3 DEF ControlInv
      <4>2. Capacity > 0
        BY <1>0, <3>0, <4>1 DEF Observed
      <4> QED BY <1>0, <3>0, <3>3, <4>2, CapacityType
    <3> QED BY <2>6, <3>1, <3>2, <3>3 DEF OpenNew
  <2>7. CASE Validated(t)
    <3>0. running = NoTask /\ pc[t] = "validate" /\ closed' = closed
          /\ pc[t] \in OwnsSlot
      BY <2>7 DEF Validated, AtRest, OwnsSlot
    <3>1. CASE HandOut(t) /\ UNCHANGED waiterVars
      BY <2>a, <3>0, <3>1 DEF HandOut, OwnsSlot
    <3>2. CASE release_slot /\ Goto(t, IF op[t] = "get" THEN "loop" ELSE "pop")
               /\ UNCHANGED op
      <4> DEFINE p == IF op[t] = "get" THEN "loop" ELSE "pop"
      <4>1. p # "ready" /\ (p = "pop" => op'[t] # "get")
        BY <3>2
      <4>2. pc' = [pc EXCEPT ![t] = p] /\ notify(1)
        BY <3>2 DEF Goto, release_slot
      <4> HIDE DEF p
      <4> QED BY <2>b, <3>0, <4>1, <4>2
    <3> QED BY <2>7, <3>1, <3>2 DEF Validated
  <2>8. CASE Connected(t)
    BY <2>8, <2>a DEF Connected, AtRest, HandOut, poolVars, OwnsSlot
  <2>9. CASE ConnectFailed(t)
    <3>0. running = NoTask /\ pc[t] \in OwnsSlot /\ closed' = closed
      BY <2>9 DEF ConnectFailed, AtRest, OwnsSlot
    <3>1. CASE Goto(t, "giveback") /\ UNCHANGED waiterVars
      BY <2>a, <3>0, <3>1 DEF Goto, OwnsSlot
    <3>2. CASE release_slot /\ Return(t)
      BY <2>b, <2>e, <2>r, <3>0, <3>2 DEF release_slot
    <3> QED BY <2>9, <3>1, <3>2 DEF ConnectFailed
  <2>10. CASE GiveBack(t)
    BY <2>10, <2>b DEF GiveBack, InSection, Await, release_slot, OwnsSlot
  <2>11. CASE Timeout(t) \/ Cancel(t)
    <3>0. GiveUp(t) /\ running = NoTask
      BY <2>11 DEF Timeout, Cancel
    <3>1. pc' = [pc EXCEPT ![t] = end] /\ closed' = closed
      BY <2>r, <3>0 DEF GiveUp
    <3>2. CASE pc[t] = "wait" /\ DropWait(t)
      BY <1>0, <2>e, <3>0, <3>1, <3>2, DropCovers
    <3>3. CASE pc[t] \in {"validate", "connect"} /\ release_slot
      BY <2>b, <2>e, <3>0, <3>1, <3>3 DEF release_slot, OwnsSlot
    <3>4. CASE pc[t] = "backoff" /\ UNCHANGED waiterVars
      BY <2>c, <2>e, <3>0, <3>1, <3>4 DEF Claiming, OwnsSlot
    <3> QED BY <3>0, <3>2, <3>3, <3>4 DEF GiveUp
  <2>12. CASE Fill(t)
    <3>0. running = t /\ pc[t] = "fill" /\ closed' = closed /\ UNCHANGED waiterVars
      BY <2>12 DEF Fill, InSection
    <3>1. CASE Await(t, "connect")
      BY <2>a, <3>0, <3>1 DEF Await, OwnsSlot
    <3>2. CASE Return(t)
      BY <2>c, <2>e, <2>r, <3>0, <3>2 DEF Claiming, OwnsSlot
    <3> QED BY <2>12, <3>1, <3>2 DEF Fill
  <2>13. CASE Warmed(t)
    BY <2>13, <2>b DEF Warmed, AtRest, Goto, push_idle, OwnsSlot
  <2>14. CASE Reap(t) \/ Maintain(t)
    <3>0. reap /\ running = NoTask /\ closed' = closed /\ pc[t] \notin OwnsSlot
          /\ ~Claiming(t)
      BY <2>14 DEF Reap, Maintain, AtRest, OwnsSlot, Claiming
    <3>1. Len(idle) - Cardinality(Kept) \in Nat
      BY <1>0, <3>0, ReapProperties DEF Typed
    <3>2. UNCHANGED waiterVars \/ \E n \in Nat : notify(n)
      BY <3>0, <3>1 DEF reap
    <3>3. CASE Return(t)
      BY <2>c, <2>e, <2>r, <3>0, <3>2, <3>3
    <3>4. CASE Goto(t, "warm")
      BY <2>c, <3>0, <3>2, <3>4 DEF Goto
    <3> QED BY <2>14, <3>3, <3>4 DEF Reap, Maintain
  <2>15. CASE Clear(t)
    <3>1. Len(idle) \in Nat
      BY <1>0, LenProperties DEF Typed, TypeOK
    <3>2. running = NoTask /\ closed' = closed /\ pc[t] \notin OwnsSlot /\ ~Claiming(t)
          /\ notify(Len(idle)) /\ Return(t)
      BY <2>15 DEF Clear, AtRest, OwnsSlot, Claiming
    <3> QED BY <2>c, <2>e, <2>r, <3>1, <3>2
  <2>16. CASE DropLease(t)
    <3>0. running = NoTask /\ pc[t] \in OwnsSlot /\ closed' = closed
      BY <2>16 DEF DropLease, AtRest, OwnsSlot
    <3>1. CASE release_slot /\ Return(t)
      BY <2>b, <2>e, <2>r, <3>0, <3>1 DEF release_slot
    <3>2. CASE Goto(t, "returning") /\ UNCHANGED waiterVars
      BY <2>a, <3>0, <3>2 DEF Goto, OwnsSlot
    <3> QED BY <2>16, <3>1, <3>2 DEF DropLease
  <2>17. CASE Recycle(t) \/ Take(t)
    <3>1. running \in {t, NoTask} /\ pc[t] \in OwnsSlot /\ closed' = closed /\ Return(t)
      BY <2>17 DEF Recycle, Take, InSection, AtRest, OwnsSlot
    <3>2. notify(1)
      BY <2>17 DEF Recycle, Take, release_slot, push_idle
    <3> QED BY <2>b, <2>e, <2>r, <3>1, <3>2
  <2> QED BY <1>3, <2>1, <2>2, <2>3, <2>4, <2>5, <2>6, <2>7, <2>8, <2>9, <2>10, <2>11,
             <2>12, <2>13, <2>14, <2>15, <2>16, <2>17 DEF TaskStep
<1> QED BY <1>1, <1>2, <1>3 DEF Next

LEMMA CapacityStart == Init => CapacityInv
<1> SUFFICES ASSUME Init PROVE CapacityInv
  OBVIOUS
<1>1. Typed /\ SlotsAccounted /\ ControlInv
  BY TypedStart, SlotsStart, ControlStart
<1>2. Observed /\ Covered
  BY DEF Init, WaitersInit, Observed, Covered
<1> QED BY <1>1, <1>2 DEF CapacityInv

LEMMA CapacityStep == CapacityInv /\ [Next]_vars => CapacityInv'
<1> SUFFICES ASSUME CapacityInv, [Next]_vars PROVE CapacityInv'
  OBVIOUS
<1>1. Typed'
  BY TypedStep DEF CapacityInv
<1>2. SlotsAccounted'
  BY StepAccountsSlots DEF CapacityInv, Typed
<1>3. ControlInv'
  BY StepKeepsControl DEF CapacityInv
<1>4. Observed' /\ Covered'
  BY <1>1, <1>2, StepCovers
<1> QED BY <1>1, <1>2, <1>3, <1>4 DEF CapacityInv

\* For every configuration and any finite number of tasks: between polls of an
\* open pool, each unit of capacity has a woken waiter coming for it as long as
\* anyone is queued, so notify and WaitReady::drop never lose a wake.
THEOREM PoolNoStrandedWaiter == Spec => []NoStrandedWaiter
BY CapacityStart, CapacityStep, CapacityInvImplies, PTL DEF Spec

\* For every configuration and any finite number of tasks: a get past its wait
\* finds a connection or room for one, so get_inner's branch for a slot that
\* "another task took" is dead code.
THEOREM PoolObservationHolds == Spec => []ObservationHolds
BY CapacityStart, CapacityStep, CapacityInvImplies, PTL DEF Spec

\* Whoever is parked beside an empty queue has been woken: its id is not queued,
\* so by the watermark its waker was called.
LEMMA EmptyQueueWoken ==
  CapacityInv /\ entries = << >> =>
    \A t \in Tasks : pc[t] = "wait" => t \in scheduled /\ ~Queued(wid[t])
<1> SUFFICES ASSUME CapacityInv, entries = << >>, NEW t \in Tasks, pc[t] = "wait"
             PROVE  t \in scheduled /\ ~Queued(wid[t])
  OBVIOUS
<1>1. wid[t] # 0
  BY DEF CapacityInv, ControlInv
<1>2. ~Queued(wid[t])
  BY DEF Queued
<1>3. WaitersTypeOK /\ WatermarkExact
  BY WaitersInvImplies DEF CapacityInv, Typed
<1>4. wid[t] \in Nat /\ woken_upto \in Nat
  BY <1>3 DEF WaitersTypeOK
<1> QED BY <1>1, <1>2, <1>3, <1>4 DEF WatermarkExact

\* clear on a closed pool wakes the whole queue, whether it freed anything or
\* not: afterwards nobody parked on this thread is left without a poll coming.
THEOREM PoolClearDrains == Spec => ClearDrains
<1> DEFINE Drains ==
      (closed /\ \E t \in Tasks : Clear(t)) =>
        \A t \in Tasks : pc'[t] = "wait" => t \in scheduled' /\ ~Queued(wid[t])'
<1>1. CapacityInv /\ [Next]_vars => [Drains]_vars
  <2> SUFFICES ASSUME CapacityInv, [Next]_vars, closed, NEW u \in Tasks, Clear(u)
               PROVE  \A t \in Tasks : pc'[t] = "wait" => t \in scheduled' /\ ~Queued(wid[t])'
    OBVIOUS
  <2>1. entries \in Seq(Entry)
    BY WaitersInvImplies DEF CapacityInv, Typed, WaitersTypeOK
  <2>2. entries' = SubSeq(entries, Len(entries) + 1, Len(entries))
    BY <2>1 DEF Clear, notify, Notify, wake_all, wake
  <2>3. entries' = << >>
    BY <2>1, <2>2
  <2>4. CapacityInv'
    BY CapacityStep
  <2>5. (CapacityInv /\ entries = << >> =>
           \A t \in Tasks : pc[t] = "wait" => t \in scheduled /\ ~Queued(wid[t]))'
    BY EmptyQueueWoken, PTL
  <2> QED BY <2>3, <2>4, <2>5
<1> QED BY <1>1, CapacityStart, CapacityStep, PTL DEF Spec, ClearDrains

-----------------------------------------------------------------------------
(* The abstract pool. *)

\* Who owns a slot after a task moves to p.
LEMMA OwnersAre ==
  ASSUME pc \in [Tasks -> PC], NEW t \in Tasks, NEW p, pc' = [pc EXCEPT ![t] = p]
  PROVE  /\ t \in Owners <=> pc[t] \in OwnsSlot
         /\ p \in OwnsSlot => Owners' = Owners \cup {t}
         /\ p \notin OwnsSlot => Owners' = Owners \ {t}
<1>1. pc'[t] = p /\ \A u \in Tasks \ {t} : pc'[u] = pc[u]
  OBVIOUS
<1> QED BY <1>1 DEF Owners

\* A step of the pool, seen through Owners and Len(idle), is one of BoundedPool's.
LEMMA StepIsBounded ==
  ASSUME TypeOK, SlotsAccounted, [Next]_vars
  PROVE  [Bounded!PoolNext]_(Bounded!abstractVars)
<1> DEFINE Goal == [Bounded!PoolNext]_(Bounded!abstractVars)
<1>0. /\ pc \in [Tasks -> PC] /\ slots \in Nat /\ idle \in Seq(Conn)
      /\ MaxSize \in Nat /\ Len(idle) \in Nat
  BY ConfigAssumption, LenProperties DEF TypeOK
<1>1. slots = Len(idle) + Cardinality(Owners)
  BY DEF SlotsAccounted
<1>n. Cardinality(Owners) \in Nat
  BY TasksAssumption, FS_Subset, FS_CardinalityType DEF Owners
\* What the abstract pool may do.
<1>s. ASSUME Owners' = Owners, Len(idle') = Len(idle) PROVE Goal
  BY <1>s DEF Bounded!abstractVars
<1>t. ASSUME Owners' = Owners, Len(idle') \in 0 .. Len(idle) PROVE Goal
  BY <1>t DEF Bounded!PoolNext, Bounded!Retire
<1>a. ASSUME NEW t \in Tasks, NEW p, pc' = [pc EXCEPT ![t] = p],
             p \in OwnsSlot <=> pc[t] \in OwnsSlot,
             Len(idle') = Len(idle)
      PROVE  Goal
  <2>1. CASE p \in OwnsSlot
    <3>1. t \in Owners /\ Owners' = Owners \cup {t}
      BY <1>0, <1>a, <2>1, OwnersAre
    <3> QED BY <1>s, <1>a, <3>1
  <2>2. CASE p \notin OwnsSlot
    <3>1. t \notin Owners /\ Owners' = Owners \ {t}
      BY <1>0, <1>a, <2>2, OwnersAre
    <3> QED BY <1>s, <1>a, <3>1
  <2> QED BY <2>1, <2>2
<1>b. ASSUME NEW t \in Tasks, NEW p, pc' = [pc EXCEPT ![t] = p],
             p \notin OwnsSlot, pc[t] \in OwnsSlot, Len(idle') = Len(idle)
      PROVE  Goal
  <2>1. t \in Owners /\ Owners' = Owners \ {t}
    BY <1>0, <1>b, OwnersAre
  <2>2. Bounded!Discard(t)
    BY <1>b, <2>1 DEF Bounded!Discard
  <2> QED BY <2>2 DEF Bounded!PoolNext
<1>c. ASSUME NEW t \in Tasks, NEW p, pc' = [pc EXCEPT ![t] = p],
             p \in OwnsSlot, pc[t] \notin OwnsSlot,
             slots < MaxSize, Len(idle') = Len(idle)
      PROVE  Goal
  <2>1. t \notin Owners /\ Owners' = Owners \cup {t}
    BY <1>0, <1>c, OwnersAre
  <2>2. Cardinality(Owners) + Len(idle) < MaxSize
    BY <1>0, <1>1, <1>n, <1>c
  <2>k. Bounded!Cardinality(Owners) = Cardinality(Owners)
    BY DEF Bounded!Cardinality, Cardinality
  <2>3. Bounded!Open(t)
    BY <1>c, <2>1, <2>2, <2>k DEF Bounded!Open
  <2> QED BY <2>3 DEF Bounded!PoolNext
<1>d. ASSUME NEW t \in Tasks, NEW p, NEW c, pc' = [pc EXCEPT ![t] = p],
             p \notin OwnsSlot, pc[t] \in OwnsSlot, push_idle(c)
      PROVE  Goal
  <2>1. t \in Owners /\ Owners' = Owners \ {t}
    BY <1>0, <1>d, OwnersAre
  <2>2. Len(idle') = Len(idle) + 1
    BY <1>0, <1>d DEF push_idle
  <2>3. Bounded!Park(t)
    BY <2>1, <2>2 DEF Bounded!Park
  <2> QED BY <2>3 DEF Bounded!PoolNext
<1> HIDE DEF Goal
<1>2. CASE Close \/ Tick \/ UNCHANGED vars
  <2>1. pc' = pc /\ idle' = idle
    BY <1>2 DEF Close, Tick, vars, poolVars, taskVars
  <2>2. Owners' = Owners
    BY <2>1 DEF Owners
  <2> QED BY <1>s, <2>1, <2>2 DEF Goal
<1>3. ASSUME NEW t \in Tasks, TaskStep(t) PROVE Goal
  <2> DEFINE end == IF OneShot THEN "done" ELSE "idle"
  <2>e. end \notin OwnsSlot
    BY DEF OwnsSlot
  <2>r. ASSUME Return(t) PROVE pc' = [pc EXCEPT ![t] = end]
    BY <2>r DEF Return
  <2> HIDE DEF end
  <2>1. CASE \/ Get(t) \/ TryGet(t) \/ FastMiss(t) \/ Resume(t) \/ BackoffOver(t)
             \/ LoopTop(t) \/ AfterWait(t) \/ EnterWarm(t) \/ PollWait(t) \/ Warm(t)
    <3>1. Len(idle') = Len(idle) /\ pc[t] \notin OwnsSlot
      BY <2>1 DEF Get, TryGet, FastMiss, Resume, BackoffOver, LoopTop, AfterWait,
                  EnterWarm, PollWait, Warm, AtRest, InSection, poolVars, OwnsSlot
    <3>2. \E p : p \notin OwnsSlot /\ pc' = [pc EXCEPT ![t] = p]
      BY <2>1, <2>e, <2>r
         DEF Get, TryGet, FastMiss, Resume, BackoffOver, LoopTop, AfterWait,
             EnterWarm, PollWait, Warm, Goto, Await, OwnsSlot
    <3> QED BY <1>a, <3>1, <3>2
  <2>2. CASE DiscardExpired(t)
    <3>1. Len(idle') = Len(idle) - 1 /\ Len(idle) > 0 /\ pc' = pc
      BY <1>0, <2>2, FrontLastProperties DEF DiscardExpired, taskVars
    <3>2. Owners' = Owners
      BY <3>1 DEF Owners
    <3>3. Len(idle') \in 0 .. Len(idle)
      BY <1>0, <3>1
    <3> QED BY <1>t, <3>2, <3>3
  <2>3. CASE TakeIdle(t)
    <3>1. Len(idle') = Len(idle) - 1 /\ Len(idle) > 0
      BY <1>0, <2>3, FrontLastProperties DEF TakeIdle
    <3>2. PICK p \in {"validate", "held"} : pc' = [pc EXCEPT ![t] = p]
      BY <2>3 DEF TakeIdle, Await, HandOut
    <3>3. p \in OwnsSlot /\ pc[t] \notin OwnsSlot
      BY <2>3, <3>2 DEF TakeIdle, OwnsSlot
    <3>4. t \notin Owners /\ Owners' = Owners \cup {t}
      BY <1>0, <3>2, <3>3, OwnersAre
    <3>5. Bounded!Reuse(t)
      BY <3>1, <3>4 DEF Bounded!Reuse
    <3> QED BY <3>5 DEF Bounded!PoolNext, Goal
  <2>4. CASE OpenNew(t)
    <3>1. idle' = idle /\ pc[t] \notin OwnsSlot
      BY <2>4 DEF OpenNew, InSection, OwnsSlot
    <3>2. CASE slots < MaxSize /\ take_slot /\ Await(t, "connect")
      BY <1>c, <3>1, <3>2 DEF Await, OwnsSlot
    <3>3. CASE Return(t) /\ UNCHANGED slots
      BY <1>a, <2>e, <2>r, <3>1, <3>3
    <3>4. CASE Goto(t, "loop") /\ UNCHANGED slots
      BY <1>a, <3>1, <3>4 DEF Goto, OwnsSlot
    <3> QED BY <2>4, <3>2, <3>3, <3>4 DEF OpenNew
  <2>5. CASE Validated(t)
    <3>1. idle' = idle /\ pc[t] \in OwnsSlot
      BY <2>5 DEF Validated, AtRest, OwnsSlot
    <3>2. CASE HandOut(t) /\ UNCHANGED slots
      BY <1>a, <3>1, <3>2 DEF HandOut, OwnsSlot
    <3>3. CASE release_slot /\ Goto(t, IF op[t] = "get" THEN "loop" ELSE "pop")
      <4>1. (IF op[t] = "get" THEN "loop" ELSE "pop") \notin OwnsSlot
        BY DEF OwnsSlot
      <4> QED BY <1>b, <3>1, <3>3, <4>1 DEF Goto, release_slot
    <3> QED BY <2>5, <3>2, <3>3 DEF Validated
  <2>6. CASE Connected(t)
    BY <1>a, <2>6 DEF Connected, AtRest, HandOut, poolVars, OwnsSlot
  <2>7. CASE ConnectFailed(t)
    <3>1. idle' = idle /\ pc[t] \in OwnsSlot
      BY <2>7 DEF ConnectFailed, AtRest, OwnsSlot
    <3>2. CASE Goto(t, "giveback") /\ UNCHANGED slots
      BY <1>a, <3>1, <3>2 DEF Goto, OwnsSlot
    <3>3. CASE release_slot /\ Return(t)
      BY <1>b, <2>e, <2>r, <3>1, <3>3 DEF release_slot
    <3> QED BY <2>7, <3>2, <3>3 DEF ConnectFailed
  <2>8. CASE GiveBack(t)
    BY <1>b, <2>8 DEF GiveBack, InSection, Await, release_slot, OwnsSlot
  <2>9. CASE Timeout(t) \/ Cancel(t)
    <3>1. GiveUp(t)
      BY <2>9 DEF Timeout, Cancel
    <3>2. idle' = idle /\ pc' = [pc EXCEPT ![t] = end]
      BY <2>r, <3>1 DEF GiveUp
    <3>3. CASE pc[t] \in {"wait", "backoff"} /\ UNCHANGED slots
      BY <1>a, <2>e, <3>2, <3>3 DEF OwnsSlot
    <3>4. CASE pc[t] \in {"validate", "connect"} /\ release_slot
      BY <1>b, <2>e, <3>2, <3>4 DEF OwnsSlot, release_slot
    <3> QED BY <3>1, <3>3, <3>4 DEF GiveUp
  <2>10. CASE Fill(t)
    <3>1. idle' = idle /\ pc[t] \notin OwnsSlot
      BY <2>10 DEF Fill, InSection, OwnsSlot
    <3>2. CASE slots < MaxSize /\ take_slot /\ Await(t, "connect")
      BY <1>c, <3>1, <3>2 DEF Await, OwnsSlot
    <3>3. CASE Return(t) /\ UNCHANGED slots
      BY <1>a, <2>e, <2>r, <3>1, <3>3
    <3> QED BY <2>10, <3>2, <3>3 DEF Fill
  <2>11. CASE Warmed(t)
    BY <1>d, <2>11 DEF Warmed, AtRest, Goto, OwnsSlot
  <2>12. CASE Reap(t) \/ Maintain(t)
    <3>1. reap /\ pc[t] \notin OwnsSlot
      BY <2>12 DEF Reap, Maintain, AtRest, OwnsSlot
    <3>2. PICK p : p \notin OwnsSlot /\ pc' = [pc EXCEPT ![t] = p]
      BY <2>12, <2>e, <2>r DEF Reap, Maintain, Goto, OwnsSlot
    <3>3. Owners' = Owners
      BY <1>0, <3>1, <3>2, OwnersAre
    <3>4. Len(idle') \in 0 .. Len(idle)
      BY <3>1, ReapProperties
    <3> QED BY <1>t, <3>3, <3>4
  <2>13. CASE Clear(t)
    <3>1. Len(idle') = 0 /\ pc[t] \notin OwnsSlot /\ pc' = [pc EXCEPT ![t] = end]
      BY <2>13, <2>r, EmptySeq DEF Clear, AtRest, OwnsSlot
    <3>2. Owners' = Owners
      BY <1>0, <2>e, <3>1, OwnersAre
    <3>3. Len(idle') \in 0 .. Len(idle)
      BY <1>0, <3>1
    <3> QED BY <1>t, <3>2, <3>3
  <2>14. CASE DropLease(t)
    <3>1. idle' = idle /\ pc[t] \in OwnsSlot
      BY <2>14 DEF DropLease, AtRest, OwnsSlot
    <3>2. CASE release_slot /\ Return(t)
      BY <1>b, <2>e, <2>r, <3>1, <3>2 DEF release_slot
    <3>3. CASE Goto(t, "returning") /\ UNCHANGED slots
      BY <1>a, <3>1, <3>3 DEF Goto, OwnsSlot
    <3> QED BY <2>14, <3>2, <3>3 DEF DropLease
  <2>15. CASE Recycle(t)
    <3>1. pc[t] \in OwnsSlot /\ pc' = [pc EXCEPT ![t] = end]
      BY <2>15, <2>r DEF Recycle, InSection, OwnsSlot
    <3>2. CASE release_slot /\ UNCHANGED idle
      BY <1>b, <2>e, <3>1, <3>2 DEF release_slot
    <3>3. CASE push_idle(lease[t]) /\ UNCHANGED slots
      BY <1>d, <2>e, <3>1, <3>3
    <3> QED BY <2>15, <3>2, <3>3 DEF Recycle
  <2>16. CASE Take(t)
    BY <1>b, <2>16, <2>e, <2>r DEF Take, AtRest, release_slot, OwnsSlot
  <2> QED BY <1>3, <2>1, <2>2, <2>3, <2>4, <2>5, <2>6, <2>7, <2>8, <2>9, <2>10, <2>11,
             <2>12, <2>13, <2>14, <2>15, <2>16 DEF TaskStep
<1> QED BY <1>2, <1>3 DEF Next, Goal

\* For every configuration and any finite number of tasks, the pool implements
\* the bounded pool: get, try_get, warm, reap, maintain, clear, a dropped or taken
\* lease, timeouts and cancellation only ever open a connection below max_size,
\* lend an idle one, park one, or close some.
THEOREM PoolImplementsBounded == Spec => BoundedSpec
<1>1. Init => Bounded!PoolInit
  BY EmptySeq DEF Init, Owners, OwnsSlot, Bounded!PoolInit
<1>2. Typed /\ SlotsAccounted /\ [Next]_vars
        => [Bounded!PoolNext]_(Bounded!abstractVars)
  BY StepIsBounded DEF Typed
<1> QED BY <1>1, <1>2, AlwaysTyped, PoolSlotsAccounted, PTL
        DEF Spec, BoundedSpec, Bounded!BoundedSpec
=============================================================================
