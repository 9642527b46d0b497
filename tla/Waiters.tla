------------------------------ MODULE Waiters ------------------------------
(***************************************************************************)
(* The FIFO of tasks parked in LocalPool::get (src/src/pool.rs, `Waiters`  *)
(* and `WaitReady`): one thread's queue of wakers, and the future that     *)
(* owns an id in it.                                                       *)
(*                                                                         *)
(* A task is named by the WaitReady future it polls, so a task's waker is  *)
(* the task itself.  The executor is external: calling a waker puts the    *)
(* task in `scheduled`, and polling its future takes it out again.  A      *)
(* future may also be polled although nobody woke it (a combinator polling *)
(* it for another reason), so no operation here asks for t \in scheduled.  *)
(*                                                                         *)
(* The module is used twice: LocalPool EXTENDS it, and its actions take    *)
(* the steps defined here; and it is a specification of its own, of what   *)
(* any client that follows the WaitReady protocol gets from the queue.     *)
(***************************************************************************)
EXTENDS Integers, Sequences, FiniteSets, SequencesExt

CONSTANTS
  Tasks,        \* the futures that may park on this thread
  MaxId         \* bound: ids handed out (the code's u64 never runs out)

ASSUME MaxIdAssumption == MaxId \in Nat
ASSUME TasksAssumption == IsFiniteSet(Tasks)

VARIABLES
  entries,      \* Waiters::entries, oldest first: [id, waker]
  next_id,      \* Waiters::next_id
  woken_upto,   \* Waiters::woken_upto
  wid,          \* WaitReady::id of each task, 0 for None
  scheduled     \* tasks whose waker was called and that were not polled since

waiterVars == <<entries, next_id, woken_upto, wid, scheduled>>

Entry == [id : Nat, waker : Tasks]

WaitersInit ==
  /\ entries = << >>
  /\ next_id = 1
  /\ woken_upto = 0
  /\ wid = [t \in Tasks |-> 0]
  /\ scheduled = {}

-----------------------------------------------------------------------------
(* The three operations of the queue. *)

\* What binary_search_by_key finds on a queue sorted by id.
Queued(id) == \E i \in DOMAIN entries : entries[i].id = id

Position(id) == CHOOSE i \in DOMAIN entries : entries[i].id = id

RegisterAlwaysFresh(t) ==
  /\ next_id <= MaxId
  /\ entries' = Append(entries, [id |-> next_id, waker |-> t])
  /\ wid' = [wid EXCEPT ![t] = next_id]
  /\ next_id' = next_id + 1
  /\ UNCHANGED woken_upto

\* Waiters::register: an id that is still queued keeps its place (its waker is
\* already t's); otherwise the waiter joins at the back under a fresh id.
register(t) ==
  \/ /\ wid[t] > woken_upto
     /\ Queued(wid[t])
     /\ UNCHANGED <<entries, next_id, woken_upto, wid>>
  \/ /\ ~ (wid[t] > woken_upto /\ Queued(wid[t]))
     /\ next_id <= MaxId
     /\ entries' = Append(entries, [id |-> next_id, waker |-> t])
     /\ wid' = [wid EXCEPT ![t] = next_id]
     /\ next_id' = next_id + 1
     /\ UNCHANGED woken_upto

\* Waiters::unregister returns true when the id is on the queue ...
Withdrawable(id) == id > woken_upto /\ Queued(id)

\* ... and this is the queue it leaves.
unregister(id) ==
  IF Withdrawable(id) THEN RemoveAt(entries, Position(id)) ELSE entries

WakeNewest(q, n, s) ==
  LET k == IF n < Len(q) THEN n ELSE Len(q)
  IN  /\ entries' = SubSeq(q, 1, Len(q) - k)
      /\ woken_upto' = IF k = 0 THEN woken_upto ELSE q[Len(q)].id
      /\ scheduled' = s \cup {q[i].waker : i \in Len(q) - k + 1 .. Len(q)}

WakeKeepsWatermark(q, n, s) ==
  LET k == IF n < Len(q) THEN n ELSE Len(q)
  IN  /\ entries' = SubSeq(q, k + 1, Len(q))
      /\ woken_upto' = woken_upto
      /\ scheduled' = s \cup {q[i].waker : i \in 1 .. k}

\* Waiters::wake(n) on the queue q: up to n entries leave at the front, each
\* raising the watermark to its id and calling its waker.
wake(q, n, s) ==
  LET k == IF n < Len(q) THEN n ELSE Len(q)
  IN  /\ entries' = SubSeq(q, k + 1, Len(q))
      /\ woken_upto' = IF k = 0 THEN woken_upto ELSE q[k].id
      /\ scheduled' = s \cup {q[i].waker : i \in 1 .. k}

wake_all(q, s) == wake(q, Len(q), s)

-----------------------------------------------------------------------------
(* The future: the two outcomes of WaitReady::poll, and its drop. *)

\* Poll::Pending: nothing to take, so (re-)register and park.
PollPending(t) ==
  /\ register(t)
  /\ scheduled' = scheduled \ {t}

\* Poll::Ready: the id is withdrawn, and on a closed pool everyone is woken.
PollReady(t, isClosed) ==
  LET q == unregister(wid[t])
      s == scheduled \ {t}
  IN  /\ IF isClosed THEN wake_all(q, s) ELSE wake(q, 0, s)
      /\ wid' = [wid EXCEPT ![t] = 0]
      /\ UNCHANGED next_id

DropForgetsWake(t) ==
  LET q == unregister(wid[t])
      s == scheduled \ {t}
  IN  /\ wake(q, 0, s)
      /\ wid' = [wid EXCEPT ![t] = 0]
      /\ UNCHANGED next_id

\* WaitReady::drop: withdraw the waker; if it had already been woken, hand the
\* wake on to the next waiter.
DropWait(t) ==
  LET q == unregister(wid[t])
      s == scheduled \ {t}
  IN  /\ wake(q, IF wid[t] # 0 /\ ~Withdrawable(wid[t]) THEN 1 ELSE 0, s)
      /\ wid' = [wid EXCEPT ![t] = 0]
      /\ UNCHANGED next_id

\* Inner::notify(n), with the flag it reads: n units of capacity wake n waiters,
\* a closed pool wakes all of them.
Notify(n, isClosed) ==
  /\ IF isClosed THEN wake_all(entries, scheduled)
                 ELSE wake(entries, n, scheduled)
  /\ UNCHANGED <<next_id, wid>>

-----------------------------------------------------------------------------
(* The queue on its own, under every client that follows the protocol (a     *)
(* notify of more units than there are entries wakes no more than those).    *)

WaitersNext ==
  \/ \E t \in Tasks : PollPending(t)
  \/ \E t \in Tasks, isClosed \in BOOLEAN : PollReady(t, isClosed)
  \/ \E t \in Tasks : DropWait(t)
  \/ \E n \in 0 .. Len(entries), isClosed \in BOOLEAN : Notify(n, isClosed)

WaitersSpec == WaitersInit /\ [][WaitersNext]_waiterVars

-----------------------------------------------------------------------------
(* What the queue promises. *)

WaitersTypeOK ==
  /\ entries \in Seq(Entry)
  /\ next_id \in Nat \ {0}
  /\ woken_upto \in Nat
  /\ wid \in [Tasks -> Nat]
  /\ scheduled \in SUBSET Tasks

\* "The queue is sorted by id", which the binary searches rest on, and "nothing
\* stale is ever woken": each entry belongs to a future that still waits under
\* that very id, lies above the watermark and below the next id to hand out.
QueueWellFormed ==
  /\ \A i, j \in DOMAIN entries : i < j => entries[i].id < entries[j].id
  /\ \A i \in DOMAIN entries :
        /\ woken_upto < entries[i].id
        /\ entries[i].id < next_id
        /\ wid[entries[i].waker] = entries[i].id

\* "woken_upto tells a waiter whether it has already been taken off the queue
\* without searching it": of the futures that hold an id, the ones the executor
\* was told to poll are those at or below the watermark, and the ones still on
\* the queue are the others.  In particular a parked future always has either
\* its waker queued or a poll coming.
WatermarkExact ==
  /\ \A t \in Tasks : wid[t] # 0 =>
        /\ t \in scheduled <=> wid[t] <= woken_upto
        /\ Queued(wid[t]) <=> wid[t] > woken_upto
  /\ \A t \in scheduled : wid[t] # 0

\* "Waiters are served in arrival order": while t is parked and has not been
\* woken, a poll of it (woken by nobody) does not cost it its place, nobody that
\* parks later gets a smaller id, and a wake never goes to u before t when t
\* arrived first.
ArrivalOrder ==
  [][\A t \in Tasks : wid[t] # 0 /\ t \notin scheduled =>
       /\ wid'[t] \in {0, wid[t]}
       /\ wid'[t] # 0 => \A u \in Tasks :
            /\ (wid'[u] # wid[u] /\ wid'[u] # 0) => wid'[u] > wid[t]
            /\ (u \in scheduled' \ scheduled /\ wid[u] > wid[t])
                 => t \in scheduled']_waiterVars
=============================================================================
