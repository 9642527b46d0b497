--------------------------- MODULE WaitersProofs ---------------------------
(***************************************************************************)
(* Proofs about the waiter queue, for any number of tasks and any bound on *)
(* the ids: the queue stays sorted, nothing stale is in it, and the        *)
(* watermark tells the woken from the queued.                              *)
(***************************************************************************)
EXTENDS Waiters, SequenceTheorems, TLAPS

\* What remains of a queue after VecDeque::remove(i): every other entry, in
\* order.
LEMMA RemoveAtProperties ==
  ASSUME NEW S, NEW q \in Seq(S), NEW i \in 1 .. Len(q)
  PROVE  /\ RemoveAt(q, i) \in Seq(S)
         /\ Len(RemoveAt(q, i)) = Len(q) - 1
         /\ \A j \in 1 .. Len(q) - 1 :
              RemoveAt(q, i)[j] = IF j < i THEN q[j] ELSE q[j + 1]
<1> DEFINE a == SubSeq(q, 1, i - 1)
           b == SubSeq(q, i + 1, Len(q))
<1>0. Len(q) \in Nat /\ i \in Nat /\ i - 1 \in Nat
  BY LenProperties
<1>1. a \in Seq(S) /\ Len(a) = i - 1 /\ \A j \in 1 .. i - 1 : a[j] = q[j]
  BY <1>0, SubSeqProperties
<1>2. b \in Seq(S) /\ Len(b) = Len(q) - i
                   /\ \A j \in 1 .. Len(q) - i : b[j] = q[j + i]
  BY <1>0, SubSeqProperties
<1>3. RemoveAt(q, i) = a \o b
  BY DEF RemoveAt
<1> HIDE DEF a, b
<1>4. /\ a \o b \in Seq(S)
      /\ Len(a \o b) = Len(a) + Len(b)
      /\ \A j \in 1 .. Len(a) + Len(b) :
            (a \o b)[j] = IF j <= Len(a) THEN a[j] ELSE b[j - Len(a)]
  BY <1>1, <1>2, ConcatProperties
<1> QED
  BY <1>0, <1>1, <1>2, <1>3, <1>4

-----------------------------------------------------------------------------
(* The invariant, as a predicate on a queue q, the next id n, the watermark w, *)
(* the ids d and the woken tasks s: an operation passes through intermediate   *)
(* queues that are not the value of `entries` before or after the step.        *)

QueueTypes(q, n, w, d, s) ==
  /\ q \in Seq(Entry)
  /\ n \in Nat \ {0}
  /\ w \in Nat
  /\ d \in [Tasks -> Nat]
  /\ s \in SUBSET Tasks

QueueOrder(q, n, w, d) ==
  /\ \A i, j \in 1 .. Len(q) : i < j => q[i].id < q[j].id
  /\ \A i \in 1 .. Len(q) : /\ w < q[i].id
                            /\ q[i].id < n
                            /\ d[q[i].waker] = q[i].id

QueueMarks(q, w, d, s) ==
  /\ \A t \in Tasks : d[t] # 0 =>
        /\ t \in s <=> d[t] <= w
        /\ d[t] > w => \E i \in 1 .. Len(q) : q[i].id = d[t]
  /\ \A t \in s : d[t] # 0

\* The two facts that make the invariant inductive: an id is handed out once,
\* and the watermark is below the next id.
IdsFresh(n, w, d) ==
  /\ w < n
  /\ \A t, u \in Tasks : (d[t] # 0 /\ d[t] = d[u]) => t = u

QInv(q, n, w, d, s) ==
  /\ QueueTypes(q, n, w, d, s)
  /\ QueueOrder(q, n, w, d)
  /\ QueueMarks(q, w, d, s)
  /\ IdsFresh(n, w, d)

WaitersInv == QInv(entries, next_id, woken_upto, wid, scheduled)

\* The invariant implies the properties TLC checks.
LEMMA WaitersInvImplies ==
  WaitersInv => WaitersTypeOK /\ QueueWellFormed /\ WatermarkExact
<1> SUFFICES ASSUME WaitersInv
             PROVE  WaitersTypeOK /\ QueueWellFormed /\ WatermarkExact
  OBVIOUS
<1>1. WaitersTypeOK
  BY DEF WaitersInv, QInv, QueueTypes, WaitersTypeOK
<1>2. DOMAIN entries = 1 .. Len(entries)
  BY <1>1, LenProperties DEF WaitersTypeOK
<1>3. QueueWellFormed
  BY <1>1, <1>2 DEF WaitersInv, QInv, QueueOrder, QueueWellFormed
<1>4. ASSUME NEW t \in Tasks, wid[t] # 0
      PROVE  /\ t \in scheduled <=> wid[t] <= woken_upto
             /\ Queued(wid[t]) <=> wid[t] > woken_upto
  <2>1. t \in scheduled <=> wid[t] <= woken_upto
    BY <1>4 DEF WaitersInv, QInv, QueueMarks
  <2>2. wid[t] > woken_upto => Queued(wid[t])
    BY <1>2, <1>4 DEF WaitersInv, QInv, QueueMarks, Queued
  <2>3. Queued(wid[t]) => wid[t] > woken_upto
    BY <1>1, <1>2 DEF WaitersInv, QInv, QueueOrder, Queued, WaitersTypeOK
  <2> QED BY <2>1, <2>2, <2>3
<1>5. \A t \in scheduled : wid[t] # 0
  BY DEF WaitersInv, QInv, QueueMarks
<1>6. WatermarkExact
  BY <1>4, <1>5 DEF WatermarkExact
<1> QED BY <1>1, <1>3, <1>6

\* Waiters::wake keeps the invariant on whatever queue it is called.
LEMMA WakePreserves ==
  ASSUME NEW q, NEW m \in Nat, NEW s, NEW d,
         QInv(q, next_id, woken_upto, d, s), wake(q, m, s)
  PROVE  QInv(entries', next_id, woken_upto', d, scheduled')
<1> DEFINE k == IF m < Len(q) THEN m ELSE Len(q)
<1>0. QueueTypes(q, next_id, woken_upto, d, s)
  BY DEF QInv
<1>1. Len(q) \in Nat /\ k \in 0 .. Len(q)
  BY <1>0, LenProperties DEF QueueTypes
<1>2. /\ entries' = SubSeq(q, k + 1, Len(q))
      /\ woken_upto' = IF k = 0 THEN woken_upto ELSE q[k].id
      /\ scheduled' = s \cup {q[i].waker : i \in 1 .. k}
  BY DEF wake
<1> HIDE DEF k
<1>3. \A i \in 1 .. Len(q) : q[i] \in Entry /\ q[i].id \in Nat /\ q[i].waker \in Tasks
  <2>1. q \in Seq(Entry)
    BY <1>0 DEF QueueTypes
  <2>2. \A i \in 1 .. Len(q) : q[i] \in Entry
    BY <2>1, ElementOfSeq
  <2> QED BY <2>2 DEF Entry
<1>4. /\ entries' \in Seq(Entry)
      /\ Len(entries') = Len(q) - k
      /\ \A i \in 1 .. Len(q) - k : entries'[i] = q[k + i]
  <2>1. \A i \in k + 1 .. Len(q) : q[i] \in Entry
    BY <1>1, <1>3
  <2>2. k + 1 \in Int /\ Len(q) \in Int
    BY <1>1
  <2> QED BY <1>1, <1>2, <2>1, <2>2, SubSeqProperties
<1>5. QueueTypes(entries', next_id, woken_upto', d, scheduled')
  BY <1>0, <1>1, <1>2, <1>3, <1>4 DEF QueueTypes
<1>6. QueueOrder(entries', next_id, woken_upto', d)
  <2>1. QueueOrder(q, next_id, woken_upto, d)
    BY DEF QInv
  <2>2. \A i \in 1 .. Len(q) - k : k + i \in 1 .. Len(q) /\ (k > 0 => k \in 1 .. Len(q) /\ k < k + i)
    BY <1>1
  <2>3. ASSUME NEW i \in 1 .. Len(q) - k, NEW j \in 1 .. Len(q) - k, i < j
        PROVE  entries'[i].id < entries'[j].id
    <3>1. entries'[i] = q[k + i] /\ entries'[j] = q[k + j]
      BY <1>4
    <3>2. k + i \in 1 .. Len(q) /\ k + j \in 1 .. Len(q) /\ k + i < k + j
      BY <1>1, <2>3
    <3> QED BY <2>1, <3>1, <3>2 DEF QueueOrder
  <2>4. ASSUME NEW i \in 1 .. Len(q) - k
        PROVE  /\ woken_upto' < entries'[i].id
               /\ entries'[i].id < next_id
               /\ d[entries'[i].waker] = entries'[i].id
    <3>1. entries'[i] = q[k + i] /\ k + i \in 1 .. Len(q)
      BY <1>4, <2>2
    <3>2. entries'[i].id < next_id /\ d[entries'[i].waker] = entries'[i].id
          /\ woken_upto < entries'[i].id
      BY <2>1, <3>1 DEF QueueOrder
    <3>3. CASE k = 0
      BY <1>2, <3>2, <3>3
    <3>4. CASE k # 0
      <4>1. k \in 1 .. Len(q) /\ k < k + i
        BY <1>1, <2>2, <3>4
      <4>2. q[k].id < q[k + i].id
        BY <2>1, <3>1, <4>1 DEF QueueOrder
      <4> QED BY <1>2, <3>1, <3>2, <3>4, <4>2
    <3> QED BY <3>3, <3>4
  <2> QED BY <1>4, <2>3, <2>4 DEF QueueOrder
<1>7. QueueMarks(entries', woken_upto', d, scheduled')
  <2>1. QueueOrder(q, next_id, woken_upto, d) /\ QueueMarks(q, woken_upto, d, s)
        /\ IdsFresh(next_id, woken_upto, d)
    BY DEF QInv
  <2>2. ASSUME NEW t \in Tasks, d[t] # 0
        PROVE  t \in scheduled' <=> d[t] <= woken_upto'
    <3>1. CASE d[t] <= woken_upto
      <4>1. t \in s
        BY <2>1, <2>2, <3>1 DEF QueueMarks
      <4>2. woken_upto <= woken_upto'
        BY <1>0, <1>1, <1>2, <1>3, <2>1 DEF QueueOrder, QueueTypes
      <4> QED BY <1>0, <1>2, <1>5, <3>1, <4>1, <4>2 DEF QueueTypes
    <3>2. CASE ~(d[t] <= woken_upto)
      <4>1. t \notin s
        BY <2>1, <2>2, <3>2 DEF QueueMarks
      <4>2. PICK i \in 1 .. Len(q) : q[i].id = d[t]
        BY <1>0, <2>1, <2>2, <3>2 DEF QueueMarks, QueueTypes
      <4>3. d[q[i].waker] = q[i].id
        BY <2>1 DEF QueueOrder
      <4>3a. q[i].waker = t
        BY <1>3, <2>1, <2>2, <4>2, <4>3 DEF IdsFresh
      <4>4. t \in scheduled' <=> i \in 1 .. k
        <5>1. i \in 1 .. k => t \in scheduled'
          BY <1>2, <4>3a
        <5>2. ASSUME NEW j \in 1 .. k, q[j].waker = t
              PROVE  i = j
          <6>1. j \in 1 .. Len(q)
            BY <1>1
          <6>2. q[j].id = q[i].id
            BY <2>1, <4>2, <5>2, <6>1 DEF QueueOrder
          <6> QED BY <1>3, <2>1, <6>1, <6>2 DEF QueueOrder
        <5> QED BY <1>2, <4>1, <5>1, <5>2
      <4>5. d[t] <= woken_upto' <=> i \in 1 .. k
        <5>1. CASE k = 0
          BY <1>2, <3>2, <5>1
        <5>2. CASE k # 0
          <6>1. k \in 1 .. Len(q) /\ woken_upto' = q[k].id
            BY <1>1, <1>2, <5>2
          <6>2. i <= k => q[i].id <= q[k].id
            BY <1>3, <2>1, <6>1 DEF QueueOrder
          <6>3. i > k => q[i].id > q[k].id
            BY <1>3, <2>1, <6>1 DEF QueueOrder
          <6> QED BY <1>3, <4>2, <6>1, <6>2, <6>3
        <5> QED BY <5>1, <5>2
      <4> QED BY <4>4, <4>5
    <3> QED BY <3>1, <3>2
  <2>3. ASSUME NEW t \in Tasks, d[t] # 0, d[t] > woken_upto'
        PROVE  \E i \in 1 .. Len(entries') : entries'[i].id = d[t]
    <3>1. woken_upto <= woken_upto'
      BY <1>0, <1>1, <1>2, <1>3, <2>1 DEF QueueOrder, QueueTypes
    <3>2. d[t] > woken_upto
      BY <1>0, <1>5, <2>3, <3>1 DEF QueueTypes
    <3>3. PICK i \in 1 .. Len(q) : q[i].id = d[t]
      BY <2>1, <2>3, <3>2 DEF QueueMarks
    <3>4. i > k
      <4> SUFFICES ASSUME i <= k PROVE FALSE
        BY <1>1
      <4>1. k \in 1 .. Len(q) /\ woken_upto' = q[k].id
        BY <1>1, <1>2
      <4>2. q[i].id <= q[k].id
        BY <1>3, <2>1, <4>1 DEF QueueOrder
      <4> QED BY <1>3, <2>3, <3>3, <4>1, <4>2
    <3>5. i - k \in 1 .. Len(q) - k /\ k + (i - k) = i
      BY <1>1, <3>4
    <3>6. entries'[i - k].id = d[t]
      BY <1>4, <3>3, <3>5
    <3> QED BY <1>4, <3>5, <3>6
  <2>4. \A t \in scheduled' : d[t] # 0
    <3>1. \A t \in s : d[t] # 0
      BY <2>1 DEF QueueMarks
    <3>2. \A i \in 1 .. k : d[q[i].waker] # 0
      BY <1>0, <1>1, <1>3, <2>1 DEF QueueOrder, QueueTypes
    <3> QED BY <1>2, <3>1, <3>2
  <2> QED BY <2>2, <2>3, <2>4 DEF QueueMarks
<1>8. IdsFresh(next_id, woken_upto', d)
  <2>1. QueueOrder(q, next_id, woken_upto, d) /\ IdsFresh(next_id, woken_upto, d)
    BY DEF QInv
  <2>2. woken_upto' < next_id
    BY <1>1, <1>2, <2>1 DEF QueueOrder, IdsFresh
  <2> QED BY <2>1, <2>2 DEF IdsFresh
<1> QED BY <1>5, <1>6, <1>7, <1>8 DEF QInv

\* Waiters::unregister, and the future forgetting its id, keep the invariant: t
\* leaves the queue if it was there, and no longer counts as woken if it was.
LEMMA UnregisterPreserves ==
  ASSUME WaitersInv, NEW t \in Tasks
  PROVE  QInv(unregister(wid[t]), next_id, woken_upto,
              [wid EXCEPT ![t] = 0], scheduled \ {t})
<1> DEFINE q == unregister(wid[t])
           d == [wid EXCEPT ![t] = 0]
           s == scheduled \ {t}
<1>0. /\ QueueTypes(entries, next_id, woken_upto, wid, scheduled)
      /\ QueueOrder(entries, next_id, woken_upto, wid)
      /\ QueueMarks(entries, woken_upto, wid, scheduled)
      /\ IdsFresh(next_id, woken_upto, wid)
  BY DEF WaitersInv, QInv
<1>1. entries \in Seq(Entry) /\ Len(entries) \in Nat /\ DOMAIN entries = 1 .. Len(entries)
  BY <1>0, LenProperties DEF QueueTypes
<1>2. \A i \in 1 .. Len(entries) :
        entries[i] \in Entry /\ entries[i].id \in Nat /\ entries[i].waker \in Tasks
  <2>1. \A i \in 1 .. Len(entries) : entries[i] \in Entry
    BY <1>1, ElementOfSeq
  <2> QED BY <2>1 DEF Entry
<1>3. d \in [Tasks -> Nat] /\ d[t] = 0 /\ \A u \in Tasks \ {t} : d[u] = wid[u]
  BY <1>0 DEF QueueTypes
<1>4. IdsFresh(next_id, woken_upto, d)
  BY <1>0, <1>3 DEF IdsFresh
<1>5. s \in SUBSET Tasks /\ (\A u \in s : d[u] # 0)
      /\ \A u \in Tasks : d[u] # 0 => (u \in s <=> d[u] <= woken_upto)
  BY <1>0, <1>3 DEF QueueMarks, QueueTypes
<1>6. CASE Withdrawable(wid[t])
  <2>1. PICK p \in 1 .. Len(entries) : p = Position(wid[t]) /\ entries[p].id = wid[t]
    BY <1>1, <1>6 DEF Withdrawable, Queued, Position
  <2>2. q = RemoveAt(entries, p)
    BY <1>6, <2>1 DEF unregister
  <2> HIDE DEF q, d, s
  <2>3. /\ q \in Seq(Entry)
        /\ Len(q) = Len(entries) - 1
        /\ \A j \in 1 .. Len(entries) - 1 :
              q[j] = IF j < p THEN entries[j] ELSE entries[j + 1]
    BY <1>1, <2>2, RemoveAtProperties
  <2>4. \A j \in 1 .. Len(q) : \E i \in 1 .. Len(entries) :
           i # p /\ q[j] = entries[i]
    BY <1>1, <2>3
  <2>5. \A i \in 1 .. Len(entries) : i # p => \E j \in 1 .. Len(q) : q[j] = entries[i]
    <3> SUFFICES ASSUME NEW i \in 1 .. Len(entries), i # p
                 PROVE  \E j \in 1 .. Len(q) : q[j] = entries[i]
      OBVIOUS
    <3>1. CASE i < p
      BY <1>1, <2>3, <3>1
    <3>2. CASE i > p
      <4>1. i - 1 \in 1 .. Len(q) /\ ~(i - 1 < p) /\ (i - 1) + 1 = i
        BY <1>1, <2>3, <3>2
      <4> QED BY <2>3, <4>1
    <3> QED BY <1>1, <3>1, <3>2
  <2>6. \A i \in 1 .. Len(entries) : i # p => entries[i].id # wid[t]
    BY <1>0, <1>1, <1>2, <2>1 DEF QueueOrder
  <2>7. QueueTypes(q, next_id, woken_upto, d, s)
    BY <1>0, <1>3, <1>5, <2>3 DEF QueueTypes
  <2>8. QueueOrder(q, next_id, woken_upto, d)
    <3>1. ASSUME NEW i \in 1 .. Len(q), NEW j \in 1 .. Len(q), i < j
          PROVE  q[i].id < q[j].id
      <4>1. \E a, b \in 1 .. Len(entries) : a < b /\ q[i] = entries[a] /\ q[j] = entries[b]
        BY <1>1, <2>3, <3>1
      <4> QED BY <1>0, <4>1 DEF QueueOrder
    <3>2. ASSUME NEW j \in 1 .. Len(q)
          PROVE  /\ woken_upto < q[j].id
                 /\ q[j].id < next_id
                 /\ d[q[j].waker] = q[j].id
      <4>1. PICK i \in 1 .. Len(entries) : i # p /\ q[j] = entries[i]
        BY <2>4
      <4>2. wid[entries[i].waker] = entries[i].id
        BY <1>0 DEF QueueOrder
      <4>3. entries[i].waker # t
        BY <2>6, <4>1, <4>2
      <4> QED BY <1>0, <1>2, <1>3, <4>1, <4>2, <4>3 DEF QueueOrder
    <3> QED BY <3>1, <3>2 DEF QueueOrder
  <2>9. QueueMarks(q, woken_upto, d, s)
    <3>1. ASSUME NEW u \in Tasks, d[u] # 0, d[u] > woken_upto
          PROVE  \E j \in 1 .. Len(q) : q[j].id = d[u]
      <4>1. u # t /\ d[u] = wid[u]
        BY <1>3, <3>1
      <4>2. PICK i \in 1 .. Len(entries) : entries[i].id = wid[u]
        BY <1>0, <3>1, <4>1 DEF QueueMarks
      <4>3. i # p
        BY <1>0, <2>1, <3>1, <4>1, <4>2 DEF IdsFresh
      <4> QED BY <2>5, <4>1, <4>2, <4>3
    <3> QED BY <1>5, <3>1 DEF QueueMarks
  <2> QED BY <1>4, <2>7, <2>8, <2>9 DEF QInv, q, d, s
<1>7. CASE ~Withdrawable(wid[t])
  <2>1. q = entries
    BY <1>7 DEF unregister
  <2>2. wid[t] = 0 \/ wid[t] <= woken_upto
    BY <1>0, <1>1, <1>7 DEF Withdrawable, Queued, QueueMarks, QueueTypes
  <2> HIDE DEF q, d, s
  <2>3. QueueTypes(q, next_id, woken_upto, d, s)
    BY <1>0, <1>3, <1>5, <2>1 DEF QueueTypes
  <2>4. QueueOrder(q, next_id, woken_upto, d)
    <3>1. ASSUME NEW i \in 1 .. Len(entries) PROVE entries[i].waker # t
      BY <1>0, <1>2, <2>2 DEF QueueOrder, QueueTypes
    <3> QED BY <1>0, <1>2, <1>3, <2>1, <3>1 DEF QueueOrder
  <2>5. QueueMarks(q, woken_upto, d, s)
    BY <1>0, <1>3, <1>5, <2>1 DEF QueueMarks
  <2> QED BY <1>4, <2>3, <2>4, <2>5 DEF QInv, q, d, s
<1> QED BY <1>6, <1>7

\* WaitReady::poll that parks: a refresh changes nothing, a fresh id is above
\* every other and goes to the back.
LEMMA PollPendingPreserves ==
  ASSUME WaitersInv, NEW t \in Tasks, PollPending(t)
  PROVE  WaitersInv'
<1>0. /\ QueueTypes(entries, next_id, woken_upto, wid, scheduled)
      /\ QueueOrder(entries, next_id, woken_upto, wid)
      /\ QueueMarks(entries, woken_upto, wid, scheduled)
      /\ IdsFresh(next_id, woken_upto, wid)
  BY DEF WaitersInv, QInv
<1>1. entries \in Seq(Entry) /\ Len(entries) \in Nat /\ DOMAIN entries = 1 .. Len(entries)
  BY <1>0, LenProperties DEF QueueTypes
<1>2. \A i \in 1 .. Len(entries) :
        entries[i] \in Entry /\ entries[i].id \in Nat /\ entries[i].waker \in Tasks
  <2>1. \A i \in 1 .. Len(entries) : entries[i] \in Entry
    BY <1>1, ElementOfSeq
  <2> QED BY <2>1 DEF Entry
<1>3. CASE wid[t] > woken_upto /\ Queued(wid[t])
  <2>1. UNCHANGED <<entries, next_id, woken_upto, wid>>
    BY <1>3 DEF PollPending, register
  <2>2. wid[t] # 0 /\ t \notin scheduled
    BY <1>0, <1>3 DEF QueueMarks, QueueTypes
  <2>3. scheduled' = scheduled
    BY <2>2 DEF PollPending
  <2> QED BY <2>1, <2>3 DEF WaitersInv, QInv, QueueTypes, QueueOrder, QueueMarks, IdsFresh
<1>4. CASE ~(wid[t] > woken_upto /\ Queued(wid[t]))
  <2> DEFINE e == [id |-> next_id, waker |-> t]
  <2>1. /\ entries' = Append(entries, e)
        /\ wid' = [wid EXCEPT ![t] = next_id]
        /\ next_id' = next_id + 1
        /\ woken_upto' = woken_upto
        /\ scheduled' = scheduled \ {t}
    BY <1>4 DEF PollPending, register
  <2>2. e \in Entry /\ e.id = next_id /\ e.waker = t
    BY <1>0 DEF Entry, QueueTypes
  <2> HIDE DEF e
  <2>3. /\ entries' \in Seq(Entry)
        /\ Len(entries') = Len(entries) + 1
        /\ \A i \in 1 .. Len(entries) : entries'[i] = entries[i]
        /\ entries'[Len(entries) + 1] = e
    BY <1>1, <2>1, <2>2, AppendProperties
  <2>4. wid' \in [Tasks -> Nat] /\ wid'[t] = next_id /\ \A u \in Tasks \ {t} : wid'[u] = wid[u]
    BY <1>0, <2>1 DEF QueueTypes
  <2>5. wid[t] = 0 \/ wid[t] <= woken_upto
    BY <1>0, <1>1, <1>4 DEF Queued, QueueMarks, QueueTypes
  <2>6. \A u \in Tasks : wid[u] < next_id
    BY <1>0 DEF QueueMarks, QueueTypes, QueueOrder, IdsFresh
  <2>7. QueueTypes(entries', next_id', woken_upto', wid', scheduled')
    BY <1>0, <2>1, <2>3, <2>4 DEF QueueTypes
  <2>8. QueueOrder(entries', next_id', woken_upto', wid')
    <3>1. \A i \in 1 .. Len(entries) : entries[i].waker # t
      BY <1>0, <1>2, <2>5 DEF QueueOrder, QueueTypes
    <3>2. ASSUME NEW i \in 1 .. Len(entries), NEW j \in 1 .. Len(entries'), i < j
          PROVE  entries'[i].id < entries'[j].id
      <4>1. CASE j \in 1 .. Len(entries)
        BY <1>0, <2>3, <3>2, <4>1 DEF QueueOrder
      <4>2. CASE j = Len(entries) + 1
        BY <1>0, <2>2, <2>3, <3>2, <4>2 DEF QueueOrder
      <4> QED BY <1>1, <2>3, <3>2, <4>1, <4>2
    <3>3. ASSUME NEW i \in 1 .. Len(entries')
          PROVE  /\ woken_upto' < entries'[i].id
                 /\ entries'[i].id < next_id'
                 /\ wid'[entries'[i].waker] = entries'[i].id
      <4>1. CASE i \in 1 .. Len(entries)
        <5>1. entries'[i] = entries[i] /\ entries[i].waker \in Tasks \ {t}
          BY <1>2, <2>3, <3>1, <4>1
        <5>2. /\ woken_upto < entries[i].id /\ entries[i].id < next_id
              /\ wid[entries[i].waker] = entries[i].id
          BY <1>0, <4>1 DEF QueueOrder
        <5>3. entries[i].id \in Nat /\ next_id \in Nat
          BY <1>0, <1>2, <4>1 DEF QueueTypes
        <5> QED BY <2>1, <2>4, <5>1, <5>2, <5>3
      <4>2. CASE i = Len(entries) + 1
        BY <1>0, <2>1, <2>2, <2>3, <2>4, <4>2 DEF IdsFresh, QueueTypes
      <4> QED BY <1>1, <2>3, <4>1, <4>2
    <3>4. \A i, j \in 1 .. Len(entries') : i < j => i \in 1 .. Len(entries)
      BY <1>1, <2>3
    <3> QED BY <3>2, <3>3, <3>4 DEF QueueOrder
  <2>9. QueueMarks(entries', woken_upto', wid', scheduled')
    <3>1. ASSUME NEW u \in Tasks, wid'[u] # 0
          PROVE  /\ u \in scheduled' <=> wid'[u] <= woken_upto'
                 /\ wid'[u] > woken_upto' => \E i \in 1 .. Len(entries') : entries'[i].id = wid'[u]
      <4>1. CASE u = t
        <5>1. ~(next_id <= woken_upto)
          BY <1>0 DEF IdsFresh, QueueTypes
        <5>2. Len(entries) + 1 \in 1 .. Len(entries')
          BY <1>1, <2>3
        <5> QED BY <2>1, <2>2, <2>3, <2>4, <4>1, <5>1, <5>2
      <4>2. CASE u # t
        <5>1. wid[u] # 0 /\ wid'[u] = wid[u]
          BY <2>4, <3>1, <4>2
        <5>2. wid[u] > woken_upto => \E i \in 1 .. Len(entries) : entries[i].id = wid[u]
          BY <1>0, <5>1 DEF QueueMarks
        <5>3. u \in scheduled' <=> wid'[u] <= woken_upto'
          BY <1>0, <2>1, <4>2, <5>1 DEF QueueMarks
        <5> QED BY <1>1, <2>1, <2>3, <5>1, <5>2, <5>3
      <4> QED BY <4>1, <4>2
    <3>2. \A u \in scheduled' : wid'[u] # 0
      BY <1>0, <2>1, <2>4 DEF QueueMarks, QueueTypes
    <3> QED BY <3>1, <3>2 DEF QueueMarks
  <2>10. IdsFresh(next_id', woken_upto', wid')
    <3>1. woken_upto' < next_id'
      BY <1>0, <2>1 DEF IdsFresh, QueueTypes
    <3>2. ASSUME NEW u \in Tasks, NEW v \in Tasks, wid'[u] # 0, wid'[u] = wid'[v]
          PROVE  u = v
      BY <1>0, <2>4, <2>6, <3>2 DEF IdsFresh, QueueTypes
    <3> QED BY <3>1, <3>2 DEF IdsFresh
  <2> QED BY <2>7, <2>8, <2>9, <2>10 DEF WaitersInv, QInv
<1> QED BY <1>3, <1>4

\* The three steps that wake: they all end in `wake` on a queue that satisfies
\* the invariant, with the ids and the woken tasks they leave to it.
LEMMA WakingStep ==
  ASSUME WaitersInv,
         \/ \E t \in Tasks, isClosed \in BOOLEAN : PollReady(t, isClosed)
         \/ \E t \in Tasks : DropWait(t)
         \/ \E n \in 0 .. Len(entries), isClosed \in BOOLEAN : Notify(n, isClosed)
  PROVE  /\ next_id' = next_id
         /\ \E q, s : \E m \in Nat :
              /\ QInv(q, next_id, woken_upto, wid', s)
              /\ wake(q, m, s)
              /\ \/ wid' = wid /\ s = scheduled
                 \/ \E t \in Tasks : /\ wid' = [wid EXCEPT ![t] = 0]
                                     /\ s = scheduled \ {t}
<1>0. entries \in Seq(Entry) /\ Len(entries) \in Nat
  BY LenProperties DEF WaitersInv, QInv, QueueTypes
<1>1. ASSUME NEW t \in Tasks, NEW isClosed \in BOOLEAN, PollReady(t, isClosed)
      PROVE  /\ next_id' = next_id
             /\ \E q, s : \E m \in Nat :
                  /\ QInv(q, next_id, woken_upto, wid', s)
                  /\ wake(q, m, s)
                  /\ wid' = [wid EXCEPT ![t] = 0]
                  /\ s = scheduled \ {t}
  <2> DEFINE q == unregister(wid[t])
             s == scheduled \ {t}
  <2>1. wid' = [wid EXCEPT ![t] = 0] /\ next_id' = next_id
    BY <1>1 DEF PollReady
  <2>2. QInv(q, next_id, woken_upto, wid', s)
    BY <2>1, UnregisterPreserves
  <2>3. Len(q) \in Nat
    BY <2>2, LenProperties DEF QInv, QueueTypes
  <2>4. wake(q, Len(q), s) \/ wake(q, 0, s)
    BY <1>1 DEF PollReady, wake_all
  <2> QED BY <2>1, <2>2, <2>3, <2>4
<1>2. ASSUME NEW t \in Tasks, DropWait(t)
      PROVE  /\ next_id' = next_id
             /\ \E q, s : \E m \in Nat :
                  /\ QInv(q, next_id, woken_upto, wid', s)
                  /\ wake(q, m, s)
                  /\ wid' = [wid EXCEPT ![t] = 0]
                  /\ s = scheduled \ {t}
  <2> DEFINE q == unregister(wid[t])
             s == scheduled \ {t}
  <2>1. wid' = [wid EXCEPT ![t] = 0] /\ next_id' = next_id
    BY <1>2 DEF DropWait
  <2>2. QInv(q, next_id, woken_upto, wid', s)
    BY <2>1, UnregisterPreserves
  <2>3. wake(q, 1, s) \/ wake(q, 0, s)
    BY <1>2 DEF DropWait
  <2> QED BY <2>1, <2>2, <2>3
<1>3. ASSUME NEW n \in 0 .. Len(entries), NEW isClosed \in BOOLEAN, Notify(n, isClosed)
      PROVE  /\ next_id' = next_id
             /\ \E q, s : \E m \in Nat :
                  /\ QInv(q, next_id, woken_upto, wid', s)
                  /\ wake(q, m, s)
                  /\ wid' = wid
                  /\ s = scheduled
  <2>1. wid' = wid /\ next_id' = next_id
    BY <1>3 DEF Notify
  <2>2. QInv(entries, next_id, woken_upto, wid', scheduled)
    BY <2>1 DEF WaitersInv
  <2>3. wake(entries, Len(entries), scheduled) \/ wake(entries, n, scheduled)
    BY <1>3 DEF Notify, wake_all
  <2>4. n \in Nat
    BY <1>0, <1>3
  <2> QED BY <1>0, <2>1, <2>2, <2>3, <2>4
<1> QED BY <1>1, <1>2, <1>3

\* Every step of the queue keeps the invariant.
LEMMA WaitersStep == WaitersInv /\ [WaitersNext]_waiterVars => WaitersInv'
<1> SUFFICES ASSUME WaitersInv, [WaitersNext]_waiterVars PROVE WaitersInv'
  OBVIOUS
<1>1. CASE \E t \in Tasks : PollPending(t)
  BY <1>1, PollPendingPreserves
<1>2. CASE \/ \E t \in Tasks, isClosed \in BOOLEAN : PollReady(t, isClosed)
           \/ \E t \in Tasks : DropWait(t)
           \/ \E n \in 0 .. Len(entries), isClosed \in BOOLEAN : Notify(n, isClosed)
  <2>1. next_id' = next_id
    BY <1>2, WakingStep
  <2>2. PICK q, s : \E m \in Nat : /\ QInv(q, next_id, woken_upto, wid', s)
                                   /\ wake(q, m, s)
    BY <1>2, WakingStep
  <2>3. QInv(entries', next_id, woken_upto', wid', scheduled')
    BY <2>2, WakePreserves
  <2> QED BY <2>1, <2>3 DEF WaitersInv
<1>3. CASE UNCHANGED waiterVars
  BY <1>3 DEF waiterVars, WaitersInv, QInv, QueueTypes, QueueOrder, QueueMarks, IdsFresh
<1> QED BY <1>1, <1>2, <1>3 DEF WaitersNext

LEMMA WaitersStart == WaitersInit => WaitersInv
<1> SUFFICES ASSUME WaitersInit PROVE WaitersInv
  OBVIOUS
<1>1. entries = << >> /\ Len(entries) = 0 /\ entries \in Seq(Entry)
  BY EmptySeq DEF WaitersInit
<1> QED BY <1>1 DEF WaitersInit, WaitersInv, QInv, QueueTypes, QueueOrder, QueueMarks, IdsFresh

\* For every set of tasks: the queue stays sorted, an entry always belongs to a
\* future that waits under that id, and the watermark alone tells a woken waiter
\* from a queued one (Waiters::register, unregister and wake in pool.rs).
THEOREM WaitersCorrect ==
  WaitersSpec => [](WaitersTypeOK /\ QueueWellFormed /\ WatermarkExact)
<1>1. WaitersSpec => []WaitersInv
  BY WaitersStart, WaitersStep, PTL DEF WaitersSpec
<1> QED BY <1>1, WaitersInvImplies, PTL

-----------------------------------------------------------------------------
(* Arrival order. *)

\* A wake never passes over an older waiter.
LEMMA WakeInOrder ==
  ASSUME NEW q, NEW m \in Nat, NEW s, NEW d,
         QInv(q, next_id, woken_upto, d, s), wake(q, m, s),
         NEW t \in Tasks, NEW u \in scheduled' \ s,
         t \notin s, d[t] # 0
  PROVE  d[u] # 0 /\ (d[u] > d[t] => t \in scheduled')
<1> DEFINE k == IF m < Len(q) THEN m ELSE Len(q)
<1>0. /\ QueueTypes(q, next_id, woken_upto, d, s)
      /\ QueueOrder(q, next_id, woken_upto, d)
      /\ QueueMarks(q, woken_upto, d, s)
      /\ IdsFresh(next_id, woken_upto, d)
  BY DEF QInv
<1>1. q \in Seq(Entry) /\ Len(q) \in Nat /\ k \in 0 .. Len(q)
  BY <1>0, LenProperties DEF QueueTypes
<1>2. scheduled' = s \cup {q[i].waker : i \in 1 .. k}
  BY DEF wake
<1> HIDE DEF k
<1>3. \A i \in 1 .. Len(q) : q[i].id \in Nat /\ q[i].waker \in Tasks
  <2>1. \A i \in 1 .. Len(q) : q[i] \in Entry
    BY <1>1, ElementOfSeq
  <2> QED BY <2>1 DEF Entry
<1>4. PICK i \in 1 .. k : u = q[i].waker
  BY <1>2
<1>5. i \in 1 .. Len(q) /\ d[u] = q[i].id /\ woken_upto < q[i].id
  BY <1>0, <1>1, <1>4 DEF QueueOrder
<1>6. d[u] # 0
  BY <1>0, <1>3, <1>5 DEF QueueTypes
<1>7. ASSUME d[u] > d[t] PROVE t \in scheduled'
  <2>1. d[t] > woken_upto
    BY <1>0 DEF QueueMarks, QueueTypes
  <2>2. PICK j \in 1 .. Len(q) : q[j].id = d[t]
    BY <1>0, <2>1 DEF QueueMarks
  <2>3. q[j].waker = t
    BY <1>0, <1>3, <2>2 DEF QueueOrder, IdsFresh
  <2>4. j < i
    BY <1>0, <1>3, <1>5, <1>7, <2>2 DEF QueueOrder
  <2>5. j \in 1 .. k
    BY <1>1, <1>4, <2>4
  <2> QED BY <1>2, <2>3, <2>5
<1> QED BY <1>6, <1>7

\* What ArrivalOrder says of one step.
KeepsOrder ==
  \A t \in Tasks : wid[t] # 0 /\ t \notin scheduled =>
    /\ wid'[t] \in {0, wid[t]}
    /\ wid'[t] # 0 => \A u \in Tasks :
         /\ (wid'[u] # wid[u] /\ wid'[u] # 0) => wid'[u] > wid[t]
         /\ (u \in scheduled' \ scheduled /\ wid[u] > wid[t])
              => t \in scheduled'

LEMMA StepKeepsOrder == WaitersInv /\ WaitersNext => KeepsOrder
<1> SUFFICES ASSUME WaitersInv, WaitersNext,
                    NEW t \in Tasks, wid[t] # 0, t \notin scheduled
             PROVE  /\ wid'[t] \in {0, wid[t]}
                    /\ wid'[t] # 0 => \A u \in Tasks :
                         /\ (wid'[u] # wid[u] /\ wid'[u] # 0) => wid'[u] > wid[t]
                         /\ (u \in scheduled' \ scheduled /\ wid[u] > wid[t])
                              => t \in scheduled'
  BY DEF KeepsOrder
<1>0. /\ QueueTypes(entries, next_id, woken_upto, wid, scheduled)
      /\ QueueOrder(entries, next_id, woken_upto, wid)
      /\ QueueMarks(entries, woken_upto, wid, scheduled)
      /\ IdsFresh(next_id, woken_upto, wid)
  BY DEF WaitersInv, QInv
<1>1. wid[t] > woken_upto /\ wid[t] < next_id /\ Queued(wid[t])
  <2>1. wid[t] > woken_upto
    BY <1>0 DEF QueueMarks, QueueTypes
  <2>2. PICK i \in 1 .. Len(entries) : entries[i].id = wid[t]
    BY <1>0, <2>1 DEF QueueMarks
  <2>3. DOMAIN entries = 1 .. Len(entries)
    BY <1>0, LenProperties DEF QueueTypes
  <2> QED BY <1>0, <2>1, <2>2, <2>3 DEF QueueOrder, Queued
<1>2. CASE \E v \in Tasks : PollPending(v)
  <2>1. PICK v \in Tasks : PollPending(v)
    BY <1>2
  <2>2. scheduled' = scheduled \ {v}
    BY <2>1 DEF PollPending
  <2>3. wid' = wid \/ (wid' = [wid EXCEPT ![v] = next_id] /\ v # t)
    BY <1>1, <2>1 DEF PollPending, register
  <2> QED BY <1>0, <1>1, <2>2, <2>3 DEF QueueTypes
<1>3. CASE \/ \E v \in Tasks, isClosed \in BOOLEAN : PollReady(v, isClosed)
           \/ \E v \in Tasks : DropWait(v)
           \/ \E n \in 0 .. Len(entries), isClosed \in BOOLEAN : Notify(n, isClosed)
  <2>1. PICK q, s : \E m \in Nat :
              /\ QInv(q, next_id, woken_upto, wid', s)
              /\ wake(q, m, s)
              /\ \/ wid' = wid /\ s = scheduled
                 \/ \E v \in Tasks : /\ wid' = [wid EXCEPT ![v] = 0]
                                     /\ s = scheduled \ {v}
    BY <1>3, WakingStep
  <2>2. \A u \in Tasks : wid'[u] \in {0, wid[u]}
    BY <1>0, <2>1 DEF QueueTypes
  <2>3. ASSUME wid'[t] # 0, NEW u \in Tasks, u \in scheduled' \ scheduled,
               wid[u] > wid[t]
        PROVE  t \in scheduled'
    <3>1. t \notin s /\ u \notin s
      BY <2>1, <2>3
    <3>2. wid'[u] # 0 /\ (wid'[u] > wid'[t] => t \in scheduled')
      BY <2>1, <2>3, <3>1, WakeInOrder
    <3>3. wid'[u] = wid[u] /\ wid'[t] = wid[t]
      BY <2>2, <2>3, <3>2
    <3> QED BY <2>3, <3>2, <3>3
  <2> QED BY <2>2, <2>3
<1> QED BY <1>2, <1>3 DEF WaitersNext

\* For every set of tasks: waiters are woken in the order in which they parked,
\* and a poll that finds nothing does not cost an unwoken waiter its place
\* (Waiters::wake pops the front, register refreshes in place).
THEOREM WaitersInOrder == WaitersSpec => ArrivalOrder
<1>1. WaitersSpec => []WaitersInv
  BY WaitersStart, WaitersStep, PTL DEF WaitersSpec
<1>2. WaitersInv /\ [WaitersNext]_waiterVars => [KeepsOrder]_waiterVars
  BY StepKeepsOrder
<1> QED BY <1>1, <1>2, PTL DEF WaitersSpec, ArrivalOrder, KeepsOrder
=============================================================================
