----------------------------- MODULE LocalPool -----------------------------
(***************************************************************************)
(* One thread's connection pool (src/src/pool.rs: `LocalPool`, `Inner`,    *)
(* `Held`, `PooledConnection`), with the shared shutdown flag of `Pool`.   *)
(*                                                                         *)
(* All tasks of the pool run on one thread, so a step between two awaits   *)
(* is never interrupted by another task; the flag `closed`, however, is    *)
(* stored by any thread at any moment and loaded again and again.  So:     *)
(*   - `running` is the task inside such a synchronous section; only it    *)
(*     may step, and the clock does not advance;                           *)
(*   - Close is enabled always, and a section is split at each load of     *)
(*     `closed` whose value the rest of the section depends on.            *)
(* When running = NoTask every task is suspended at an await or in its     *)
(* caller's hands, and the executor may poll any of them.                  *)
(*                                                                         *)
(* A task is one call in flight, or one lease: a caller with two leases is *)
(* two tasks.  The manager (connect, is_valid, has_broken) is external and *)
(* answers anything.  Metrics are not part of this module (the default     *)
(* build compiles them out; no pool logic reads them).                     *)
(***************************************************************************)
EXTENDS Waiters

CONSTANTS
  MaxSize,         \* PoolConfig::max_size
  MinIdle,         \* PoolConfig::min_idle, already capped by Builder::build
  TestOnCheckOut,  \* PoolConfig::test_on_check_out
  RetryConnection, \* PoolConfig::retry_connection
  IdleTimeout,     \* PoolConfig::idle_timeout: {} for None, {d} for Some(d)
  MaxLifetime,     \* PoolConfig::max_lifetime: likewise
  OneShot,         \* bound: each task makes a single call
  MaxTime,         \* bound: the clock stops there
  NoTask,          \* running: no synchronous section is open
  NoConn           \* lease: the task carries no connection

Conn == [created_at : Nat, last_used : Nat]

\* What Builder::build accepts and produces.
ASSUME ConfigAssumption ==
  /\ MaxSize \in Nat \ {0}
  /\ MinIdle \in 0 .. MaxSize
  /\ TestOnCheckOut \in BOOLEAN
  /\ RetryConnection \in BOOLEAN
  /\ IdleTimeout \in SUBSET Nat
  /\ MaxLifetime \in SUBSET Nat

ASSUME BoundAssumption ==
  /\ OneShot \in BOOLEAN
  /\ MaxTime \in Nat
  /\ NoTask \notin Tasks
  /\ NoConn \notin Conn

VARIABLES
  closed,    \* Shared::closed
  now,       \* Instant::now()
  idle,      \* Inner::idle, the newest at the end
  slots,     \* Inner::slots
  pc,        \* where each task is (see PC)
  op,        \* the call it is in
  lease,     \* the connection it carries: Held::conn or PooledConnection::conn
  running    \* the task inside a synchronous section

poolVars == <<closed, now, idle, slots>>
taskVars == <<pc, op, lease, running>>
vars == <<waiterVars, poolVars, taskVars>>

\* Awaiting, or in the caller's hands.
Suspended == {"idle", "wait", "validate", "connect", "backoff", "held", "done"}
\* Inside a synchronous section.
Running == {"fast", "loop", "poll", "ready", "pop", "giveback", "warm", "fill",
            "returning"}
PC == Suspended \cup Running

\* The task owns one unit of `slots`: a Held not yet released, or a lease.
OwnsSlot == {"validate", "connect", "giveback", "held", "returning"}
\* The Held or PooledConnection has a connection in it.
OwnsConn == {"validate", "held", "returning"}

Init ==
  /\ WaitersInit
  /\ closed = FALSE
  /\ now = 0
  /\ idle = << >>
  /\ slots = 0
  /\ pc = [t \in Tasks |-> "idle"]
  /\ op = [t \in Tasks |-> "none"]
  /\ lease = [t \in Tasks |-> NoConn]
  /\ running = NoTask

-----------------------------------------------------------------------------
(* Inner: slots, the idle list and notification. *)

Fresh == [created_at |-> now, last_used |-> now]

\* expiry(conn, now, cfg).is_some()
Expired(c) ==
  \/ \E max \in MaxLifetime : now - c.created_at >= max
  \/ \E max \in IdleTimeout : now - c.last_used >= max

\* Inner::take_slot and Inner::release_slots (a saturating subtraction).
take_slot == slots' = slots + 1
release_slots(n) == slots' = IF slots >= n THEN slots - n ELSE 0

notify(n) == Notify(n, closed)

\* Inner::release_slot
release_slot == release_slots(1) /\ notify(1)

PushIdleSilently(c) ==
  /\ idle' = Append(idle, [c EXCEPT !.last_used = now])
  /\ UNCHANGED waiterVars

\* Inner::push_idle, with the last_used stamp every caller makes before it, and
\* the wake of one waiter every caller makes after it.
push_idle(c) ==
  /\ idle' = Append(idle, [c EXCEPT !.last_used = now])
  /\ notify(1)

\* The positions of the idle connections that are still good.
Kept == {i \in DOMAIN idle : ~Expired(idle[i])}

\* LocalPool::ready_now
ready_now == closed \/ idle # << >> \/ slots < MaxSize

-----------------------------------------------------------------------------
(* Control. *)

\* Go on, without an await, at p / come to rest at p / return to the caller.
Goto(t, p)  == pc' = [pc EXCEPT ![t] = p] /\ running' = t
Await(t, p) == pc' = [pc EXCEPT ![t] = p] /\ running' = NoTask
Return(t) ==
  /\ pc' = [pc EXCEPT ![t] = IF OneShot THEN "done" ELSE "idle"]
  /\ op' = [op EXCEPT ![t] = "none"]
  /\ running' = NoTask

\* The call succeeded: the caller now holds the lease.
HandOut(t) ==
  /\ pc' = [pc EXCEPT ![t] = "held"]
  /\ op' = [op EXCEPT ![t] = "none"]
  /\ running' = NoTask

SetLease(t, c) == lease' = [lease EXCEPT ![t] = c]

\* t, at rest at p, may be polled or called; or t is in its section at p.
AtRest(t, p)    == running = NoTask /\ pc[t] = p
InSection(t, p) == running = t /\ pc[t] = p

-----------------------------------------------------------------------------
(* get: entry, and the fast path that arms no timer. *)

Get(t) ==
  /\ AtRest(t, "idle")
  /\ \/ /\ closed
        /\ Return(t)
     \/ /\ ~closed
        /\ Goto(t, IF TestOnCheckOut THEN "loop" ELSE "fast")
        /\ op' = [op EXCEPT ![t] = "get"]
  /\ UNCHANGED <<waiterVars, poolVars, lease>>

\* pop_fresh_idle in the fast path found nothing: into timeout(get_inner()).
FastMiss(t) ==
  /\ InSection(t, "fast")
  /\ idle = << >>
  /\ Goto(t, "loop")
  /\ UNCHANGED <<waiterVars, poolVars, op, lease>>

\* The top of get_inner's loop.
LoopTop(t) ==
  /\ InSection(t, "loop")
  /\ IF closed THEN Return(t) ELSE Goto(t, "poll") /\ UNCHANGED op
  /\ UNCHANGED <<waiterVars, poolVars, lease>>

-----------------------------------------------------------------------------
(* get: waiting for capacity (WaitReady). *)

\* The executor polls a parked get, because its waker was called or for any
\* other reason.
Resume(t) ==
  /\ AtRest(t, "wait")
  /\ Goto(t, "poll")
  /\ UNCHANGED <<waiterVars, poolVars, op, lease>>

PollTrustsWake(t) ==
  /\ InSection(t, "poll")
  /\ IF ready_now \/ t \in scheduled
       THEN PollReady(t, closed) /\ Goto(t, "ready")
       ELSE PollPending(t) /\ Await(t, "wait")
  /\ UNCHANGED <<poolVars, op, lease>>

\* WaitReady::poll
PollWait(t) ==
  /\ InSection(t, "poll")
  /\ IF ready_now
       THEN PollReady(t, closed) /\ Goto(t, "ready")
       ELSE PollPending(t) /\ Await(t, "wait")
  /\ UNCHANGED <<poolVars, op, lease>>

\* The second check of `closed`, after the wait.
AfterWait(t) ==
  /\ InSection(t, "ready")
  /\ IF closed THEN Return(t) ELSE Goto(t, "pop") /\ UNCHANGED op
  /\ UNCHANGED <<waiterVars, poolVars, lease>>

-----------------------------------------------------------------------------
(* get and try_get: take an idle connection or open one. *)

DiscardKeepsSlot(t) ==
  /\ running = t
  /\ pc[t] \in {"fast", "pop"}
  /\ idle # << >>
  /\ Expired(Last(idle))
  /\ idle' = Front(idle)
  /\ notify(1)
  /\ UNCHANGED <<closed, now, slots, taskVars>>

\* One turn of pop_fresh_idle's loop that meets an expired connection.
DiscardExpired(t) ==
  /\ running = t
  /\ pc[t] \in {"fast", "pop"}
  /\ idle # << >>
  /\ Expired(Last(idle))
  /\ idle' = Front(idle)
  /\ release_slot
  /\ UNCHANGED <<closed, now, taskVars>>

\* The turn that finds a live one: handed out, or awaiting is_valid.
TakeIdle(t) ==
  /\ running = t
  /\ pc[t] \in {"fast", "pop"}
  /\ idle # << >>
  /\ ~Expired(Last(idle))
  /\ idle' = Front(idle)
  /\ SetLease(t, Last(idle))
  /\ IF TestOnCheckOut THEN Await(t, "validate") /\ UNCHANGED op
                       ELSE HandOut(t)
  /\ UNCHANGED <<waiterVars, closed, now, slots>>

\* Nothing idle: try_reserve, then await connect.  With no room either, try_get
\* returns None and get loops ("another task took the slot").
OpenNew(t) ==
  /\ InSection(t, "pop")
  /\ idle = << >>
  /\ \/ /\ slots < MaxSize
        /\ take_slot
        /\ Await(t, "connect")
        /\ UNCHANGED op
     \/ /\ ~(slots < MaxSize)
        /\ IF op[t] = "try_get" THEN Return(t) ELSE Goto(t, "loop") /\ UNCHANGED op
        /\ UNCHANGED slots
  /\ UNCHANGED <<waiterVars, closed, now, idle, lease>>

\* is_valid resolves: Ok hands the connection out, Err drops it and its slot and
\* goes round again.
Validated(t) ==
  /\ AtRest(t, "validate")
  /\ \/ /\ HandOut(t)
        /\ UNCHANGED <<waiterVars, slots, lease>>
     \/ /\ release_slot
        /\ SetLease(t, NoConn)
        /\ Goto(t, IF op[t] = "get" THEN "loop" ELSE "pop")
        /\ UNCHANGED op
  /\ UNCHANGED <<closed, now, idle>>

\* connect resolves with Ok in get or try_get.
Connected(t) ==
  /\ AtRest(t, "connect")
  /\ op[t] \in {"get", "try_get"}
  /\ SetLease(t, Fresh)
  /\ HandOut(t)
  /\ UNCHANGED <<waiterVars, poolVars>>

\* connect resolves with Err: get may retry, everyone else drops the Held and
\* returns the error.
ConnectFailed(t) ==
  /\ AtRest(t, "connect")
  /\ \/ /\ op[t] = "get" /\ RetryConnection /\ ~closed
        /\ Goto(t, "giveback")
        /\ UNCHANGED <<waiterVars, slots, op>>
     \/ /\ ~(op[t] = "get" /\ RetryConnection /\ ~closed)
        /\ release_slot
        /\ Return(t)
  /\ UNCHANGED <<closed, now, idle, lease>>

\* The retry: drop(held), then sleep CONNECT_RETRY_BACKOFF.
GiveBack(t) ==
  /\ InSection(t, "giveback")
  /\ release_slot
  /\ Await(t, "backoff")
  /\ UNCHANGED <<closed, now, idle, op, lease>>

\* (Bound: once half the ids are handed out the sleeper sleeps on, so that the
\* others' ids last; its timeout still ends it.)
BackoffOver(t) ==
  /\ AtRest(t, "backoff")
  /\ 2 * next_id <= MaxId
  /\ Goto(t, "loop")
  /\ UNCHANGED <<waiterVars, poolVars, op, lease>>

TryGet(t) ==
  /\ AtRest(t, "idle")
  /\ \/ /\ closed
        /\ Return(t)
     \/ /\ ~closed
        /\ Goto(t, "pop")
        /\ op' = [op EXCEPT ![t] = "try_get"]
  /\ UNCHANGED <<waiterVars, poolVars, lease>>

-----------------------------------------------------------------------------
(* The call's future is dropped at an await: its timeout elapses, or the      *)
(* caller cancels it.  Whatever the future owns is given back by Drop.        *)

GiveUpLeavesEntry(t) ==
  /\ pc[t] = "wait"
  /\ wid' = [wid EXCEPT ![t] = 0]
  /\ Return(t)
  /\ UNCHANGED <<entries, next_id, woken_upto, scheduled, poolVars, lease>>

GiveUp(t) ==
  /\ \/ /\ pc[t] = "wait"
        /\ DropWait(t)
        /\ UNCHANGED <<slots, lease>>
     \/ /\ pc[t] \in {"validate", "connect"}
        /\ release_slot
        /\ SetLease(t, NoConn)
     \/ /\ pc[t] = "backoff"
        /\ UNCHANGED <<waiterVars, slots, lease>>
  /\ Return(t)
  /\ UNCHANGED <<closed, now, idle>>

TimeoutSkipsDial(t) ==
  /\ running = NoTask
  /\ op[t] \in {"get", "warm"}
  /\ pc[t] # "connect"
  /\ GiveUp(t)

\* connection_timeout bounds get_inner, and each dial of warm; try_get has none.
Timeout(t) ==
  /\ running = NoTask
  /\ op[t] \in {"get", "warm"}
  /\ GiveUp(t)

Cancel(t) ==
  /\ running = NoTask
  /\ op[t] # "none"
  /\ GiveUp(t)

-----------------------------------------------------------------------------
(* warm, reap, maintain and clear. *)

Warm(t) ==
  /\ AtRest(t, "idle")
  /\ Goto(t, "warm")
  /\ op' = [op EXCEPT ![t] = "warm"]
  /\ UNCHANGED <<waiterVars, poolVars, lease>>

\* warm's only check of `closed`.
EnterWarm(t) ==
  /\ InSection(t, "warm")
  /\ IF closed THEN Return(t) ELSE Goto(t, "fill") /\ UNCHANGED op
  /\ UNCHANGED <<waiterVars, poolVars, lease>>

FillIgnoresRoom(t) ==
  /\ InSection(t, "fill")
  /\ IF Len(idle) < MinIdle
       THEN take_slot /\ Await(t, "connect") /\ UNCHANGED op
       ELSE Return(t) /\ UNCHANGED slots
  /\ UNCHANGED <<waiterVars, closed, now, idle, lease>>

\* warm's loop condition and try_reserve: dial one more, or done.
Fill(t) ==
  /\ InSection(t, "fill")
  /\ IF Len(idle) < MinIdle /\ slots < MaxSize
       THEN take_slot /\ Await(t, "connect") /\ UNCHANGED op
       ELSE Return(t) /\ UNCHANGED slots
  /\ UNCHANGED <<waiterVars, closed, now, idle, lease>>

\* connect resolves with Ok in warm: Held::into_idle, and round again.
Warmed(t) ==
  /\ AtRest(t, "connect")
  /\ op[t] = "warm"
  /\ push_idle(Fresh)
  /\ Goto(t, "fill")
  /\ UNCHANGED <<closed, now, slots, op, lease>>

\* reap drops the expired idle connections, keeping the others in their order
\* (pick enumerates Kept upwards), and wakes a waiter for each slot freed.
reap ==
  \E pick \in [1 .. Cardinality(Kept) -> Kept] :
    /\ \A i, j \in DOMAIN pick : i < j => pick[i] < pick[j]
    /\ idle' = [i \in DOMAIN pick |-> idle[pick[i]]]
    /\ LET reaped == Len(idle) - Cardinality(Kept)
       IN  IF reaped > 0 THEN release_slots(reaped) /\ notify(reaped)
                         ELSE UNCHANGED <<waiterVars, slots>>

Reap(t) ==
  /\ AtRest(t, "idle")
  /\ reap
  /\ Return(t)
  /\ UNCHANGED <<closed, now, lease>>

\* maintain is reap followed by warm, with no await between them.
Maintain(t) ==
  /\ AtRest(t, "idle")
  /\ reap
  /\ Goto(t, "warm")
  /\ op' = [op EXCEPT ![t] = "warm"]
  /\ UNCHANGED <<closed, now, lease>>

ClearOnlyWhatItFreed(t) ==
  /\ AtRest(t, "idle")
  /\ idle' = << >>
  /\ release_slots(Len(idle))
  /\ IF idle = << >> THEN UNCHANGED waiterVars ELSE notify(Len(idle))
  /\ Return(t)
  /\ UNCHANGED <<closed, now, lease>>

\* clear notifies even when it freed nothing, so that a closed pool drains.
Clear(t) ==
  /\ AtRest(t, "idle")
  /\ idle' = << >>
  /\ release_slots(Len(idle))
  /\ notify(Len(idle))
  /\ Return(t)
  /\ UNCHANGED <<closed, now, lease>>

-----------------------------------------------------------------------------
(* The lease: PooledConnection::drop and PooledConnection::take. *)

DropLeaseSilently(t) ==
  /\ AtRest(t, "held")
  /\ \/ /\ closed
        /\ release_slots(1)
        /\ SetLease(t, NoConn)
        /\ Return(t)
        /\ UNCHANGED waiterVars
     \/ /\ ~closed
        /\ Goto(t, "returning")
        /\ UNCHANGED <<waiterVars, slots, op, lease>>
  /\ UNCHANGED <<closed, now, idle>>

\* drop's check of `closed`: a closing pool keeps nothing.
DropLease(t) ==
  /\ AtRest(t, "held")
  /\ \/ /\ closed
        /\ release_slot
        /\ SetLease(t, NoConn)
        /\ Return(t)
     \/ /\ ~closed
        /\ Goto(t, "returning")
        /\ UNCHANGED <<waiterVars, slots, op, lease>>
  /\ UNCHANGED <<closed, now, idle>>

RecycleKeepsLease(t) ==
  /\ InSection(t, "returning")
  /\ \E broken \in BOOLEAN :
       IF broken \/ Expired(lease[t])
         THEN release_slot /\ UNCHANGED idle
         ELSE push_idle(lease[t]) /\ UNCHANGED slots
  /\ Return(t)
  /\ UNCHANGED <<closed, now, lease>>

\* The rest of drop: has_broken, expiry, or back on the idle list.
Recycle(t) ==
  /\ InSection(t, "returning")
  /\ \E broken \in BOOLEAN :
       IF broken \/ Expired(lease[t])
         THEN release_slot /\ UNCHANGED idle
         ELSE push_idle(lease[t]) /\ UNCHANGED slots
  /\ SetLease(t, NoConn)
  /\ Return(t)
  /\ UNCHANGED <<closed, now>>

\* take: the connection leaves the pool for good, its slot is free at once.
Take(t) ==
  /\ AtRest(t, "held")
  /\ release_slot
  /\ SetLease(t, NoConn)
  /\ Return(t)
  /\ UNCHANGED <<closed, now, idle>>

-----------------------------------------------------------------------------
(* The environment: any thread closes the pool; time passes between polls. *)

Close ==
  /\ closed' = TRUE
  /\ UNCHANGED <<waiterVars, now, idle, slots, taskVars>>

Tick ==
  /\ running = NoTask
  /\ now < MaxTime
  /\ now' = now + 1
  /\ UNCHANGED <<waiterVars, closed, idle, slots, taskVars>>

TaskStep(t) ==
  \/ Get(t) \/ FastMiss(t) \/ LoopTop(t) \/ Resume(t) \/ PollWait(t)
  \/ AfterWait(t) \/ DiscardExpired(t) \/ TakeIdle(t) \/ OpenNew(t)
  \/ Validated(t) \/ Connected(t) \/ ConnectFailed(t) \/ GiveBack(t)
  \/ BackoffOver(t) \/ TryGet(t) \/ Timeout(t) \/ Cancel(t)
  \/ Warm(t) \/ EnterWarm(t) \/ Fill(t) \/ Warmed(t)
  \/ Reap(t) \/ Maintain(t) \/ Clear(t)
  \/ DropLease(t) \/ Recycle(t) \/ Take(t)

Next == Close \/ Tick \/ \E t \in Tasks : TaskStep(t)

Spec == Init /\ [][Next]_vars

-----------------------------------------------------------------------------
(***************************************************************************)
(* Fairness.  A synchronous section runs to its next await.  The executor  *)
(* polls every task whose waker was called; since another task may be in   *)
(* its section whenever this one looks, that is strong fairness.           *)
(***************************************************************************)
SectionStep(t) ==
  \/ FastMiss(t) \/ LoopTop(t) \/ PollWait(t) \/ AfterWait(t)
  \/ DiscardExpired(t) \/ TakeIdle(t) \/ OpenNew(t) \/ GiveBack(t)
  \/ EnterWarm(t) \/ Fill(t) \/ Recycle(t)

PollWoken(t) == t \in scheduled /\ Resume(t)

ManagerAnswers(t) ==
  Validated(t) \/ Connected(t) \/ ConnectFailed(t) \/ Warmed(t)

LeaseEnds(t) == DropLease(t) \/ Take(t)

Scheduling == \A t \in Tasks :
  WF_vars(SectionStep(t)) /\ SF_vars(PollWoken(t)) /\ SF_vars(BackoffOver(t))

\* The timer of timeout(connection_timeout, ..) fires; the manager may never
\* answer and a lease may never come back.
TimerSpec == Spec /\ Scheduling /\ \A t \in Tasks : SF_vars(Timeout(t))

\* The manager answers and every lease ends; a timeout or a cancellation may
\* happen at any await, but nobody may count on one.
CooperativeSpec ==
  /\ Spec
  /\ Scheduling
  /\ \A t \in Tasks : SF_vars(ManagerAnswers(t)) /\ SF_vars(LeaseEnds(t))

-----------------------------------------------------------------------------
(* Safety. *)

\* The types, and where a connection is: a task carries one exactly while it
\* validates, leases or returns it, so none is at once leased and idle, and the
\* `expect`s on Held::conn and PooledConnection::conn never fail.
TypeOK ==
  /\ WaitersTypeOK
  /\ closed \in BOOLEAN
  /\ now \in Nat
  /\ idle \in Seq(Conn)
  /\ slots \in Nat
  /\ pc \in [Tasks -> PC]
  /\ op \in [Tasks -> {"none", "get", "try_get", "warm"}]
  /\ lease \in [Tasks -> Conn \cup {NoConn}]
  /\ \A t \in Tasks : pc[t] \in OwnsConn <=> lease[t] # NoConn
  /\ running \in Tasks \cup {NoTask}

Owners == {t \in Tasks : pc[t] \in OwnsSlot}

\* `slots` is "idle + checked out + reserved" at every step of every path (early
\* return, error, timeout, cancellation, take, clear): no slot leaks, none is
\* given back twice, the saturating subtraction never saturates, and the count
\* never passes max_size.
SlotsAccounted ==
  /\ slots = Len(idle) + Cardinality(Owners)
  /\ slots <= MaxSize

\* Units of capacity nobody has taken: idle connections and free slots.
Capacity == Len(idle) + (MaxSize - slots)

\* "Each wake carries exactly one unit": between polls, as long as a waiter is
\* queued on an open pool, every unit of capacity has a woken waiter coming for
\* it.  So no waiter sleeps beside a connection it could have, whatever was
\* stolen by a direct get, timed out, cancelled, reaped, cleared or expired.
NoStrandedWaiter ==
  (~closed /\ running = NoTask /\ entries # << >>)
    => Capacity <= Cardinality({t \in scheduled : pc[t] = "wait"})

\* "The check-and-take below is synchronous, so what we observed still holds
\* when we act on it": a get past its wait always finds a connection or room,
\* however many expired connections it discards on the way; the branch for
\* "another task took the slot" is never taken.
ObservationHolds ==
  \A t \in Tasks : (pc[t] = "pop" /\ op[t] = "get") => Capacity > 0

\* The promise of BoundedPool, kept by every path through get, try_get, warm,
\* reap, clear, drop and take: a task that starts to own a slot has either taken
\* an idle connection or opened one below max_size, never both at once, never
\* two, and one that stops owning it has parked at most one connection.
Bounded == INSTANCE BoundedPool WITH
  Holders <- Tasks, Bound <- MaxSize, holding <- Owners, parked <- Len(idle)
BoundedSpec == Bounded!BoundedSpec

\* A closed pool drains on clear, whether or not anything was idle: nobody is
\* left on the queue, and whoever is parked has a poll coming.
ClearDrains ==
  [][(closed /\ \E t \in Tasks : Clear(t)) =>
       \A t \in Tasks : pc'[t] = "wait" => t \in scheduled' /\ ~Queued(wid[t])']_vars

-----------------------------------------------------------------------------
(* Liveness. *)

\* "The outer connection_timeout bounds how long this can go on": with only the
\* timer and the executor to rely on, every get and every warm ends.
CallsEnd ==
  \A t \in Tasks : op[t] \in {"get", "warm"} ~> op[t] = "none"

\* No wake is lost once callers stop calling again: on a pool that stays open,
\* with callers that return their leases and a manager that answers, every get
\* ends although no timeout ever fires.  (For tasks that call once: a caller that
\* drops its lease and comes back takes what a woken waiter was promised, as
\* often as it likes.  See StrictFifo.)
NoLostWake ==
  \A t \in Tasks : op[t] = "get" ~> (op[t] # "get" \/ closed)

\* A slot or a connection given back after close wakes the whole queue: if
\* anyone owns a slot once the pool is closed, nobody stays parked.
ReleaseAfterCloseDrains ==
  (closed /\ Owners # {}) ~> (\A t \in Tasks : pc[t] # "wait")

-----------------------------------------------------------------------------
(* What the documentation says and the code does not do. *)

\* pool.rs:144: parked tasks "unblock on that thread's next local wake [...] the
\* first one to notice the pool is closed passes the news down the whole queue".
CloseDrains == closed ~> (\A t \in Tasks : pc[t] # "wait")

\* docs/decisions/0010:54: "Fairness is strict FIFO.  A long-waiting task is served
\* before a newly arrived one": a get that has just been called is handed nothing
\* on its fast path while another is parked.
StrictFifo ==
  [][\A t \in Tasks : (pc[t] = "fast" /\ pc'[t] = "held") =>
       \A u \in Tasks : pc[u] # "wait"]_vars

\* pool.rs:137: after close "each thread's LocalPool::get fails immediately [...],
\* a returned PooledConnection is dropped instead of recycled, and warm /
\* maintain become no-ops": nothing more is handed out, nothing more is kept.
ClosedIsInert ==
  [][closed => /\ Len(idle') <= Len(idle)
               /\ \A t \in Tasks : pc'[t] = "held" => pc[t] = "held"]_vars
=============================================================================
