--------------------------- MODULE ServicesProofs --------------------------
(***************************************************************************)
(* Proofs about the servers, for any number of connections, of resources   *)
(* in the pool and of segments, any payload and any way the reads and the  *)
(* writes split it: what the log has acknowledged stays on disk, a buffer  *)
(* is back in its lease before the pool has it again, and a client of the  *)
(* echo servers reads its own bytes.                                       *)
(***************************************************************************)
EXTENDS Services, FiniteSetTheorems, SequenceTheorems, TLAPS

-----------------------------------------------------------------------------
(* The inductive invariant. *)

Item ==
  ({"data"} \X Threads \X Nat \X Nat) \cup {<<"ack">>, <<"ERR">>}
  \cup ({"size"} \X Nat) \cup ({"body"} \X Nat)

ThreadType ==
  [at : {"start", "barrier", "loop", "write", "read", "ok", "err"},
   c : {0} \cup Slots, sent : Nat, put : Nat, got : Seq(Item),
   why : {"none", "refused", "hung up", "mismatch"}]
ConnType == [client : BOOLEAN, server : BOOLEAN, req : Seq(Item), rep : Seq(Item)]
TaskType ==
  [at : {"none", "get", "read", "append", "sync", "open", "copy"} \cup Writing,
   k : {0} \cup Resources, cur : Seq(Item), out : Seq(Item), size : Nat, off : Nat]
ResourceType ==
  [place : {"closed", "idle", "leased"}, home : BOOLEAN, data : Seq(Item),
   seg : 0 .. MaxSegments, offset : Nat]
SegmentType == [recs : Seq(Item), disk : Seq(Item)]

\* A thread that writes or reads has a stream; one that dials first keeps it.
\* And none has read more than it needs.
StreamHeld ==
  \A i \in Threads :
    \/ th[i].at \in {"write", "read"}
    \/ th[i].at \in {"barrier", "loop"} /\ gen # "load_churn"
    => th[i].c # 0
HasRoom == \A i \in Threads : Len(th[i].got) <= Need(i)
GenType ==
  /\ th \in [Threads -> ThreadType] /\ conn \in [Slots -> ConnType]
  /\ StreamHeld /\ HasRoom
SrvType ==
  /\ srv \in [Slots -> TaskType]
  /\ res \in [Resources -> ResourceType]
  /\ segment \in [1 .. MaxSegments -> SegmentType]
  /\ next \in 0 .. MaxSegments
  /\ acked \subseteq [seg : 1 .. MaxSegments, pos : Nat \ {0}, rec : Item]
  /\ file \in [len : Nat, touched : BOOLEAN]

\* A task's lease is its own, and a log task that has a request has a lease.
LeaseInv ==
  /\ \A s \in Slots : srv[s].k # 0 => res[srv[s].k].place = "leased"
  /\ \A s, t \in Slots : srv[s].k = srv[t].k /\ srv[s].k # 0 => s = t
  /\ \A s \in Slots : gen = "load_wal" /\ srv[s].at \notin {"none", "get"} => srv[s].k # 0

\* An open segment has one resource, whose offset is inside what was written.
SegmentInv ==
  gen = "load_wal" =>
    /\ \A k \in Resources : res[k].place # "closed" =>
         res[k].seg \in 1 .. next /\ res[k].offset <= Len(segment[res[k].seg].recs)
    /\ \A j, k \in Resources :
         res[j].place # "closed" /\ res[k].place # "closed" /\ res[j].seg = res[k].seg => j = k

\* No buffer is away from a resource that waits, or from any of the log's.
HomeInv == BufferHome /\ (gen = "load_wal" => \A k \in Resources : res[k].home)

\* The record a task is at ends at the tail: written once it syncs, on disk once
\* it acknowledges.
Holds(log, pos, cur) == \A j \in 1 .. Len(cur) : log[pos - Len(cur) + j] = cur[j]
Here(s) == res[srv[s].k].offset
Log(s) == segment[res[srv[s].k].seg]
LogAt == {"none", "get", "read", "append", "sync", "ack"}
RecordInv ==
  \A s \in Slots :
    /\ srv[s].at \in {"append", "sync", "ack"} => gen = "load_wal"
    /\ gen = "load_wal" => srv[s].at \in LogAt
    /\ srv[s].at \in {"sync", "ack"} =>
         Len(srv[s].cur) <= Here(s) /\ Holds(Log(s).recs, Here(s), srv[s].cur)
    /\ srv[s].at = "ack" =>
         Here(s) <= Len(Log(s).disk) /\ Holds(Log(s).disk, Here(s), srv[s].cur)

\* What was acknowledged is where it was, and no tail is before it.
Kept(a) ==
  /\ a.seg <= next
  /\ a.pos <= Len(segment[a.seg].recs) /\ segment[a.seg].recs[a.pos] = a.rec
  /\ a.pos <= Len(segment[a.seg].disk) /\ segment[a.seg].disk[a.pos] = a.rec
  /\ \A k \in Resources : res[k].place # "closed" /\ res[k].seg = a.seg => a.pos <= res[k].offset
AckedInv == (acked # {} => gen = "load_wal") /\ \A a \in acked : Kept(a)

ServicesInv ==
  /\ GenType /\ SrvType
  /\ LeaseInv /\ HomeInv /\ SegmentInv /\ RecordInv /\ AckedInv

-----------------------------------------------------------------------------
(* Pieces of sequences. *)

LEMMA SlotsNat == 0 \notin Slots
  BY DEF Slots

LEMMA LeastIs ==
  ASSUME NEW m \in Int, NEW n \in Int
  PROVE  /\ Least(m, n) \in Int /\ Least(m, n) <= m /\ Least(m, n) <= n
         /\ Least(m, n) = m \/ Least(m, n) = n
  BY DEF Least

\* The first k of a sequence, and the rest of it.
LEMMA Cut ==
  ASSUME NEW S, NEW q \in Seq(S), NEW k \in Nat, k <= Len(q)
  PROVE  /\ SubSeq(q, 1, k) \in Seq(S) /\ Len(SubSeq(q, 1, k)) = k
         /\ \A j \in 1 .. k : SubSeq(q, 1, k)[j] = q[j]
         /\ SubSeq(q, k + 1, Len(q)) \in Seq(S)
         /\ Len(SubSeq(q, k + 1, Len(q))) = Len(q) - k
         /\ \A j \in 1 .. Len(q) - k : SubSeq(q, k + 1, Len(q))[j] = q[k + j]
<1>1. Len(q) \in Nat /\ \A j \in 1 .. Len(q) : q[j] \in S
  BY LenProperties, ElementOfSeq
<1>2. /\ SubSeq(q, 1, k) \in Seq(S) /\ Len(SubSeq(q, 1, k)) = k
      /\ \A j \in 1 .. k : SubSeq(q, 1, k)[j] = q[j]
  <2>1. \A j \in 1 .. k : q[j] \in S
    BY <1>1
  <2>2. /\ SubSeq(q, 1, k) \in Seq(S)
        /\ Len(SubSeq(q, 1, k)) = IF 1 <= k THEN k - 1 + 1 ELSE 0
        /\ \A j \in 1 .. k - 1 + 1 : SubSeq(q, 1, k)[j] = q[1 + j - 1]
    BY <2>1, SubSeqProperties
  <2> QED
    BY <2>2
<1>3. \A j \in k + 1 .. Len(q) : q[j] \in S
  BY <1>1
<1>4. /\ SubSeq(q, k + 1, Len(q)) \in Seq(S)
      /\ Len(SubSeq(q, k + 1, Len(q))) = IF k + 1 <= Len(q) THEN Len(q) - (k + 1) + 1 ELSE 0
      /\ \A j \in 1 .. Len(q) - (k + 1) + 1 :
           SubSeq(q, k + 1, Len(q))[j] = q[k + 1 + j - 1]
  BY <1>1, <1>3, SubSeqProperties
<1>5. \A j \in 1 .. Len(q) - k : q[k + 1 + j - 1] = q[k + j]
  BY <1>1
<1> QED
  BY <1>1, <1>2, <1>4, <1>5

\* What is written at an offset is there, and what was before it stays.
LEMMA WriteAtIs ==
  ASSUME NEW S, NEW q \in Seq(S), NEW n \in Nat, n <= Len(q), NEW u \in Seq(S)
  PROVE  /\ WriteAt(q, n, u) \in Seq(S)
         /\ Len(WriteAt(q, n, u)) \in Nat
         /\ Len(WriteAt(q, n, u)) >= n + Len(u) /\ Len(WriteAt(q, n, u)) >= Len(q)
         /\ \A j \in 1 .. n : WriteAt(q, n, u)[j] = q[j]
         /\ \A j \in 1 .. Len(u) : WriteAt(q, n, u)[n + j] = u[j]
<1>0. Len(q) \in Nat /\ Len(u) \in Nat
  BY LenProperties
<1>1. PICK e \in Nat : e = n + Len(u)
  BY <1>0
<1>2. PICK m \in Nat : m = IF Len(q) > e THEN Len(q) ELSE e
  BY <1>0
<1>3. m >= e /\ m >= Len(q)
  BY <1>0, <1>2
<1> DEFINE f == [p \in 1 .. m |-> IF p > n /\ p <= e THEN u[p - n] ELSE q[p]]
<1>4. WriteAt(q, n, u) = f
  BY <1>1, <1>2 DEF WriteAt
<1>5. ASSUME NEW p \in 1 .. m PROVE (IF p > n /\ p <= e THEN u[p - n] ELSE q[p]) \in S
  <2>1. CASE p > n /\ p <= e
    <3>1. p - n \in 1 .. Len(u)
      BY <1>0, <1>1, <2>1
    <3> QED
      BY <2>1, <3>1, ElementOfSeq
  <2>2. CASE ~(p > n /\ p <= e)
    <3>1. p \in 1 .. Len(q)
      BY <1>0, <1>1, <1>2, <2>2
    <3> QED
      BY <2>2, <3>1, ElementOfSeq
  <2> QED
    BY <2>1, <2>2
<1>6. f \in Seq(S)
  BY <1>5
<1>7. Len(f) = m
  OBVIOUS
<1>8. ASSUME NEW j \in 1 .. n PROVE f[j] = q[j]
  <2>1. j \in 1 .. m /\ ~(j > n)
    BY <1>0, <1>3
  <2> QED
    BY <2>1
<1>9. ASSUME NEW j \in 1 .. Len(u) PROVE f[n + j] = u[j]
  <2>1. n + j \in 1 .. m /\ n + j > n /\ n + j <= e /\ (n + j) - n = j
    BY <1>0, <1>1, <1>3
  <2> QED
    BY <2>1
<1> HIDE DEF f
<1> QED
  BY <1>0, <1>1, <1>3, <1>4, <1>6, <1>7, <1>8, <1>9

\* A cleared buffer holds what was read into it and no more.
LEMMA FillCleared ==
  ASSUME NEW S, NEW u \in Seq(S), NEW buf
  PROVE  Fill(Cleared(buf), u) = u
<1>0. Len(u) \in Nat /\ u \in [1 .. Len(u) -> S]
  BY LenProperties
<1>1. Fill(Cleared(buf), u) =
        [p \in 1 .. (IF 0 > 0 + Len(u) THEN 0 ELSE 0 + Len(u)) |->
           IF p > 0 /\ p <= 0 + Len(u) THEN u[p - 0] ELSE << >>[p]]
  BY DEF Fill, Cleared, WriteAt
<1>2. (IF 0 > 0 + Len(u) THEN 0 ELSE 0 + Len(u)) = Len(u)
  BY <1>0
<1>3. \A p \in 1 .. Len(u) :
        (IF p > 0 /\ p <= 0 + Len(u) THEN u[p - 0] ELSE << >>[p]) = u[p]
  BY <1>0
<1>4. Fill(Cleared(buf), u) = [p \in 1 .. Len(u) |-> u[p]]
  BY <1>1, <1>2, <1>3
<1> QED
  BY <1>0, <1>4

-----------------------------------------------------------------------------
(* Types: the load generator's side. *)

LEMMA SizeType == \A n \in Nat : Size(n) \in Nat \ {0}
  BY LoadAssumption DEF Size

LEMMA UnitType ==
  ASSUME NEW i \in Threads, NEW n \in Nat, NEW j \in Nat
  PROVE  Unit(i, n, j) \in Item
  BY DEF Unit, Item

LEMMA SilentType == Silent \in ConnType
  BY DEF Silent, ConnType

LEMMA ConnFields ==
  ASSUME GenType, NEW s \in Slots
  PROVE  /\ conn[s] \in ConnType /\ conn[s].client \in BOOLEAN /\ conn[s].server \in BOOLEAN
         /\ conn[s].req \in Seq(Item) /\ conn[s].rep \in Seq(Item)
         /\ Len(conn[s].req) \in Nat /\ Len(conn[s].rep) \in Nat
<1>1. conn[s] \in ConnType
  BY DEF GenType
<1>2. conn[s].req \in Seq(Item) /\ conn[s].rep \in Seq(Item)
  BY <1>1 DEF ConnType
<1> QED
  BY <1>1, <1>2, LenProperties DEF ConnType

LEMMA ThreadFields ==
  ASSUME GenType, NEW i \in Threads
  PROVE  /\ th[i] \in ThreadType /\ th[i].sent \in Nat /\ th[i].put \in Nat
         /\ th[i].c \in {0} \cup Slots /\ th[i].got \in Seq(Item) /\ Len(th[i].got) \in Nat
         /\ th[i].why \in {"none", "refused", "hung up", "mismatch"}
<1>1. th[i] \in ThreadType
  BY DEF GenType
<1>2. th[i].got \in Seq(Item)
  BY <1>1 DEF ThreadType
<1> QED
  BY <1>1, <1>2, LenProperties DEF ThreadType

\* A stream is dropped.
LEMMA DroppedType ==
  ASSUME GenType, NEW i \in Threads
  PROVE  Dropped(i) \in [Slots -> ConnType]
<1>1. ASSUME NEW s \in Slots PROVE [conn[s] EXCEPT !.client = FALSE] \in ConnType
  BY DEF GenType, ConnType
<1> QED
  BY <1>1, SilentType DEF Dropped, GenType

LEMMA SameNeed ==
  ASSUME gen' = gen, NEW i \in Threads, th'[i].sent = th[i].sent
  PROVE  Need(i)' = Need(i)
  BY DEF Need, Size

LEMMA NeedPrime ==
  ASSUME gen' = gen, NEW i \in Threads, th' \in [Threads -> ThreadType]
  PROVE  Need(i)' \in Nat
<1>1. th'[i].sent \in Nat
  BY DEF ThreadType
<1> QED
  BY <1>1, LoadAssumption DEF Need, Size

\* A thread's record, and whatever its connection has become.
LEMMA ThreadMoves ==
  ASSUME GenType, NEW i \in Threads, NEW t \in ThreadType, th' = [th EXCEPT ![i] = t],
         conn' \in [Slots -> ConnType], gen' = gen,
         \/ t.at \notin {"write", "read", "barrier", "loop"}
         \/ t.at \in {"barrier", "loop"} /\ gen = "load_churn"
         \/ t.c # 0,
         \/ t.got = << >>
         \/ t.sent = th[i].sent /\ Len(t.got) <= Need(i)
  PROVE  GenType'
<1>1. th' \in [Threads -> ThreadType]
  BY DEF GenType
<1>2. \A j \in Threads : th'[j] = IF j = i THEN t ELSE th[j]
  BY DEF GenType
<1>3. StreamHeld'
  BY <1>2 DEF GenType, StreamHeld
<1>4. ASSUME NEW j \in Threads PROVE Len(th'[j].got) <= Need(j)'
  <2>1. CASE th'[j].sent = th[j].sent /\ Len(th'[j].got) <= Need(j)
    BY <2>1, SameNeed
  <2>2. CASE th'[j].got = << >>
    <3>1. Need(j)' \in Nat
      BY <1>1, NeedPrime
    <3> QED
      BY <2>2, <3>1
  <2> QED
    BY <1>2, <2>1, <2>2 DEF GenType, HasRoom
<1> QED
  BY <1>1, <1>3, <1>4 DEF GenType, HasRoom

LEMMA BetweenType ==
  ASSUME GenType, NEW i \in Threads,
         NEW at \in {"start", "barrier", "loop", "write", "read", "ok", "err"},
         NEW c \in {0} \cup Slots, NEW n \in Nat,
         NEW why \in {"none", "refused", "hung up", "mismatch"},
         Between(i, at, c, n, why), conn' \in [Slots -> ConnType], gen' = gen,
         \/ at \notin {"write", "read", "barrier", "loop"}
         \/ at \in {"barrier", "loop"} /\ gen = "load_churn"
         \/ c # 0
  PROVE  GenType'
<1> DEFINE t == [at |-> at, c |-> c, sent |-> n, put |-> 0, got |-> << >>, why |-> why]
<1>0. << >> \in Seq(Item) /\ 0 \in Nat
  BY EmptySeq
<1>1. t \in ThreadType
  BY <1>0 DEF ThreadType
<1>2. t.at = at /\ t.c = c /\ t.got = << >> /\ th' = [th EXCEPT ![i] = t]
  BY DEF Between
<1> HIDE DEF t
<1> QED
  BY <1>1, <1>2, ThreadMoves

LEMMA FailType ==
  ASSUME GenType, NEW i \in Threads, NEW why \in {"refused", "hung up", "mismatch"},
         Fail(i, why), gen' = gen
  PROVE  GenType'
<1>1. Between(i, "err", 0, th[i].sent, why) /\ conn' \in [Slots -> ConnType]
  BY DroppedType DEF Fail
<1> QED
  BY <1>1, BetweenType, ThreadFields

LEMMA DialType ==
  ASSUME GenType, NEW i \in Threads, NEW at \in {"barrier", "write"}, NEW n \in Nat,
         Dial(i, at, n), gen' = gen
  PROVE  GenType'
<1>1. PICK s \in Slots :
        /\ Between(i, at, s, n, "none")
        /\ conn' = [Dropped(i) EXCEPT ![s] = [Silent EXCEPT !.client = TRUE, !.server = TRUE]]
  BY DEF Dial
<1>2. [Silent EXCEPT !.client = TRUE, !.server = TRUE] \in ConnType
  BY SilentType DEF ConnType
<1>3. conn' \in [Slots -> ConnType]
  BY <1>1, <1>2, DroppedType
<1>4. s # 0
  BY SlotsNat
<1> QED
  BY <1>1, <1>3, <1>4, BetweenType

\* Some of a request is written.
LEMMA PutType ==
  ASSUME GenType, NEW i \in Threads, th[i].at = "write", Room(i) > 0,
         NEW at \in {"write", "read"}, Put(i, Room(i), at), gen' = gen
  PROVE  GenType'
<1>1. PICK c \in Slots : c = th[i].c
  BY ThreadFields DEF GenType, StreamHeld
<1>0. th[i] \in ThreadType /\ th[i].sent \in Nat /\ th[i].put \in Nat
  BY ThreadFields
<1>2. Size(th[i].sent) \in Nat /\ Window \in Nat /\ Len(conn[c].req) \in Nat
  BY <1>0, ConnFields, SizeType, LoadAssumption
<1>3. PICK k \in Nat : k = Room(i) /\ k > 0
  <2>1. Size(th[i].sent) - th[i].put \in Int /\ Window - Len(conn[th[i].c].req) \in Int
    BY <1>0, <1>1, <1>2
  <2>2. Room(i) \in Int
    BY <2>1, LeastIs DEF Room
  <2> QED
    BY <2>2
<1> DEFINE u == [j \in 1 .. k |-> Unit(i, th[i].sent, th[i].put + j)]
<1>4. u \in Seq(Item)
  <2>1. \A j \in 1 .. k : Unit(i, th[i].sent, th[i].put + j) \in Item
    BY <1>0, UnitType
  <2> QED
    BY <2>1
<1>5. /\ th' = [th EXCEPT ![i].put = @ + k, ![i].at = at]
      /\ conn' = [conn EXCEPT ![c].req = @ \o u]
  BY <1>1, <1>3 DEF Put
<1> HIDE DEF u
<1>6. [conn[c] EXCEPT !.req = @ \o u] \in ConnType
  <2>1. conn[c].req \o u \in Seq(Item)
    BY <1>4, ConnFields, ConcatProperties
  <2> QED
    BY <2>1, ConnFields DEF ConnType
<1>7. conn' \in [Slots -> ConnType]
  BY <1>5, <1>6 DEF GenType
<1> DEFINE t == [th[i] EXCEPT !.put = th[i].put + k, !.at = at]
<1>8. t \in ThreadType /\ t.c = c /\ t.got = th[i].got /\ t.sent = th[i].sent
  <2>1. th[i].put + k \in Nat /\ th[i] \in ThreadType
    BY <1>0
  <2> QED
    BY <1>1, <2>1 DEF ThreadType
<1>9. th' = [th EXCEPT ![i] = t]
  BY <1>5
<1> HIDE DEF t
<1> QED
  BY <1>7, <1>8, <1>9, ThreadMoves, SlotsNat DEF GenType, HasRoom

LEMMA NeedType ==
  ASSUME GenType, NEW i \in Threads
  PROVE  Need(i) \in Nat
<1>1. PICK n \in Nat : n = Size(th[i].sent)
  BY ThreadFields, SizeType
<1>2. Need(i) = 1 \/ Need(i) = 1 + FileSize \/ Need(i) = n
  BY <1>1 DEF Need
<1> QED
  BY <1>2, LoadAssumption

\* And some of a reply read.
LEMMA TakenType ==
  ASSUME GenType, NEW i \in Threads, th[i].at = "read"
  PROVE  /\ Need(i) \in Nat /\ Taken(i) \in Nat /\ th[i].c \in Slots
         /\ Taken(i) <= Len(conn[th[i].c].rep) /\ Taken(i) <= Need(i) - Len(th[i].got)
         /\ Has(i) \in Seq(Item) /\ Len(Has(i)) = Len(th[i].got) + Taken(i)
         /\ Left(i) \in [Slots -> ConnType]
<1>1. PICK c \in Slots : c = th[i].c
  BY ThreadFields DEF GenType, StreamHeld
<1>0. th[i].got \in Seq(Item) /\ Len(th[i].got) \in Nat
  BY ThreadFields
<1>2. Need(i) \in Nat /\ Len(th[i].got) <= Need(i)
  BY NeedType DEF GenType, HasRoom
<1>3. Len(conn[c].rep) \in Nat /\ Len(th[i].got) \in Nat
  BY ConnFields, ThreadFields
<1>4. PICK k \in Nat : k = Taken(i) /\ k <= Len(conn[c].rep) /\ k <= Need(i) - Len(th[i].got)
  <2>1. PICK a \in Nat : a = Len(conn[c].rep)
    BY <1>3
  <2>2. PICK b \in Nat : b = Need(i) - Len(th[i].got)
    BY <1>0, <1>2
  <2>3. Taken(i) = IF a < b THEN a ELSE b
    BY <1>1, <2>1, <2>2 DEF Taken, Least
  <2> QED
    BY <2>1, <2>2, <2>3
<1>5. /\ SubSeq(conn[c].rep, 1, k) \in Seq(Item) /\ Len(SubSeq(conn[c].rep, 1, k)) = k
      /\ SubSeq(conn[c].rep, k + 1, Len(conn[c].rep)) \in Seq(Item)
  BY <1>4, Cut, ConnFields
<1>6. Has(i) = th[i].got \o SubSeq(conn[c].rep, 1, k)
  BY <1>1, <1>4 DEF Has
<1>7. Has(i) \in Seq(Item) /\ Len(Has(i)) = Len(th[i].got) + k
  <2>1. PICK q \in Seq(Item) : q = SubSeq(conn[c].rep, 1, k) /\ Len(q) = k
    BY <1>5
  <2>2. th[i].got \o q \in Seq(Item) /\ Len(th[i].got \o q) = Len(th[i].got) + Len(q)
    BY <1>0, ConcatProperties
  <2> QED
    BY <1>6, <2>1, <2>2
<1>8. Left(i) = [conn EXCEPT ![c].rep = SubSeq(@, k + 1, Len(@))]
  BY <1>1, <1>4 DEF Left
<1>9. [conn[c] EXCEPT !.rep = SubSeq(conn[c].rep, k + 1, Len(conn[c].rep))] \in ConnType
  BY <1>5, ConnFields DEF ConnType
<1>10. Left(i) \in [Slots -> ConnType]
  BY <1>8, <1>9 DEF GenType
<1> QED
  BY <1>1, <1>2, <1>4, <1>7, <1>10

LEMMA CountedType ==
  ASSUME GenType, NEW i \in Threads, th[i].at = "read", NEW at \in {"barrier", "loop"},
         NEW n \in Nat, Between(i, at, th[i].c, n, "none"), conn' = Left(i), gen' = gen
  PROVE  GenType'
<1>1. th[i].c \in Slots /\ th[i].c # 0 /\ conn' \in [Slots -> ConnType]
  BY TakenType, SlotsNat
<1> QED
  BY <1>1, BetweenType

LEMMA ThreadStepType ==
  ASSUME GenType, NEW i \in Threads, ThreadStep(i)
  PROVE  GenType' /\ gen' = gen
<1>0. /\ th[i] \in ThreadType /\ th[i].sent \in Nat /\ th[i].sent + 1 \in Nat
      /\ th[i].c \in {0} \cup Slots
  <2>1. th[i] \in ThreadType /\ th[i].sent \in Nat /\ th[i].c \in {0} \cup Slots
    BY ThreadFields
  <2> QED
    BY <2>1
<1>a. conn \in [Slots -> ConnType] /\ Dropped(i) \in [Slots -> ConnType] /\ StreamHeld
  BY DroppedType DEF GenType
<1>b. gen' = gen
  BY DEF ThreadStep, Open, ChurnArrives, PassBarrier, Finish, Send, Reconnect, ChurnSends, Write,
         ReceiveSome, Echoed, ChurnEchoed, Acked, FileReceived, RoundOver, Eof
<1>c. ASSUME NEW why \in {"refused", "hung up", "mismatch"}, Fail(i, why) PROVE GenType'
  BY <1>b, <1>c, FailType
<1>d. ASSUME NEW at \in {"barrier", "write"}, NEW n \in Nat, Dial(i, at, n) PROVE GenType'
  BY <1>b, <1>d, DialType
<1>e. ASSUME th[i].at = "read", NEW at \in {"barrier", "loop"}, NEW n \in Nat,
             Between(i, at, th[i].c, n, "none"), conn' = Left(i)
      PROVE  GenType'
  BY <1>b, <1>e, CountedType
<1>1. CASE Open(i)
  BY <1>1, <1>c, <1>d DEF Open
<1>2. CASE ChurnArrives(i)
  <2>1. Between(i, "barrier", 0, 0, "none") /\ conn' = conn /\ gen = "load_churn"
    BY <1>2 DEF ChurnArrives
  <2> QED
    BY <1>a, <1>b, <2>1, BetweenType
<1>3. CASE PassBarrier(i)
  <2>1. Between(i, "loop", th[i].c, 0, "none") /\ conn' = conn /\ th[i].at = "barrier"
    BY <1>3 DEF PassBarrier
  <2>2. gen = "load_churn" \/ th[i].c # 0
    BY <1>a, <2>1 DEF StreamHeld
  <2> QED
    BY <1>0, <1>a, <1>b, <2>1, <2>2, BetweenType
<1>4. CASE Finish(i)
  <2>1. Between(i, "ok", 0, th[i].sent, "none") /\ conn' = Dropped(i)
    BY <1>4 DEF Finish
  <2> QED
    BY <1>0, <1>a, <1>b, <2>1, BetweenType
<1>5. CASE Send(i)
  <2>1. /\ Between(i, "write", th[i].c, th[i].sent + 1, "none") /\ conn' = conn
        /\ th[i].at = "loop" /\ gen # "load_churn"
    BY <1>5 DEF Send, Again
  <2>2. th[i].c # 0
    BY <1>a, <2>1 DEF StreamHeld
  <2> QED
    BY <1>0, <1>a, <1>b, <2>1, <2>2, BetweenType
<1>6. CASE Reconnect(i) \/ ChurnSends(i)
  BY <1>0, <1>6, <1>c, <1>d DEF Reconnect, ChurnSends
<1>7. CASE Write(i)
  <2>1. ASSUME Room(i) > 0, NEW at \in {"write", "read"}, Put(i, Room(i), at) PROVE GenType'
    BY <1>7, <1>b, <2>1, PutType DEF Write
  <2> QED
    BY <1>7, <1>c, <2>1 DEF Write
<1>8. CASE ReceiveSome(i)
  <2>1. th' = [th EXCEPT ![i].got = Has(i)] /\ conn' = Left(i) /\ th[i].at = "read"
    BY <1>8 DEF ReceiveSome
  <2>2. /\ Has(i) \in Seq(Item) /\ Len(Has(i)) <= Need(i) /\ th[i].c # 0
        /\ conn' \in [Slots -> ConnType]
    <3>1. Len(th[i].got) \in Nat
      BY ThreadFields
    <3>2. /\ Need(i) \in Nat /\ Taken(i) \in Nat /\ th[i].c \in Slots
          /\ Taken(i) <= Need(i) - Len(th[i].got)
          /\ Has(i) \in Seq(Item) /\ Len(Has(i)) = Len(th[i].got) + Taken(i)
          /\ conn' \in [Slots -> ConnType]
      BY <2>1, TakenType
    <3> QED
      BY <3>1, <3>2, SlotsNat
  <2> DEFINE t == [th[i] EXCEPT !.got = Has(i)]
  <2>3. /\ t \in ThreadType /\ t.c = th[i].c /\ t.got = Has(i) /\ t.sent = th[i].sent
        /\ th' = [th EXCEPT ![i] = t]
    BY <1>0, <2>1, <2>2 DEF ThreadType
  <2> HIDE DEF t
  <2> QED
    BY <1>b, <2>2, <2>3, ThreadMoves
<1>9. CASE Echoed(i) \/ Acked(i) \/ FileReceived(i)
  <2>1. th[i].at = "read"
    BY <1>9 DEF Echoed, Acked, FileReceived, Complete
  <2>2. CASE Counted(i)
    BY <1>0, <1>b, <1>e, <2>1, <2>2 DEF Counted
  <2>3. CASE \E why \in {"refused", "mismatch"} : Fail(i, why)
    BY <1>b, <1>c, <2>3
  <2>4. Counted(i) \/ \E why \in {"refused", "mismatch"} : Fail(i, why)
    BY <1>9 DEF Echoed, Acked, FileReceived
  <2> QED
    BY <2>2, <2>3, <2>4
<1>10. CASE ChurnEchoed(i)
  <2>1. CASE Fail(i, "mismatch")
    BY <1>b, <1>c, <2>1
  <2>2. CASE Between(i, "loop", 0, th[i].sent, "none") /\ conn' = Dropped(i)
    <3>1. gen = "load_churn"
      BY <1>10 DEF ChurnEchoed
    <3> QED
      BY <1>0, <1>a, <1>b, <2>2, <3>1, BetweenType
  <2> QED
    BY <1>10, <2>1, <2>2 DEF ChurnEchoed
<1>11. CASE RoundOver(i)
  <2>1. th[i].at = "read"
    BY <1>11 DEF RoundOver, Complete
  <2>2. CASE Counted(i)
    BY <1>0, <1>b, <1>e, <2>1, <2>2 DEF Counted
  <2>3. CASE Between(i, "barrier", th[i].c, 0, "none") /\ conn' = Left(i)
    BY <1>b, <1>e, <2>1, <2>3
  <2> QED
    BY <1>11, <2>2, <2>3 DEF RoundOver
<1>12. CASE Eof(i)
  BY <1>12, <1>c DEF Eof
<1> QED
  BY <1>b, <1>1, <1>2, <1>3, <1>4, <1>5, <1>6, <1>7, <1>8, <1>9, <1>10, <1>11, <1>12
  DEF ThreadStep

LEMMA GenNextType == GenType /\ GenNext => GenType' /\ gen' = gen
<1> SUFFICES ASSUME GenType, GenNext PROVE GenType' /\ gen' = gen
  OBVIOUS
<1>1. CASE Deadline \/ Join
  BY <1>1 DEF Deadline, Join, GenType, StreamHeld, HasRoom, Need, Size
<1>2. CASE Interrupt
  <2> DEFINE t(i) == [at |-> "err", c |-> 0, sent |-> th[i].sent, put |-> 0,
                      got |-> << >>, why |-> th[i].why]
  <2>0. th' = [i \in Threads |-> t(i)] /\ gen' = gen
    BY <1>2 DEF Interrupt
  <2>1. \A i \in Threads : t(i) \in ThreadType /\ t(i).at = "err" /\ t(i).got = << >>
    <3> TAKE i \in Threads
    <3>1. /\ th[i].sent \in Nat /\ th[i].why \in {"none", "refused", "hung up", "mismatch"}
          /\ << >> \in Seq(Item) /\ 0 \in Nat
      BY ThreadFields, EmptySeq
    <3> QED
      BY <3>1 DEF ThreadType
  <2> HIDE DEF t
  <2>2. th' \in [Threads -> ThreadType]
    BY <2>0, <2>1
  <2>3. StreamHeld'
    BY <2>0, <2>1 DEF StreamHeld
  <2>4. HasRoom'
    <3>1. \A i \in Threads : th'[i].got = << >> /\ Need(i)' \in Nat
      BY <2>0, <2>1, <2>2, NeedPrime
    <3> QED
      BY <3>1 DEF HasRoom
  <2>5. \A s \in Slots : [conn[s] EXCEPT !.client = FALSE] \in ConnType /\ conn[s] \in ConnType
    BY DEF GenType, ConnType
  <2>6. conn' \in [Slots -> ConnType]
    BY <1>2, <2>5, SilentType DEF Interrupt
  <2> QED
    BY <2>0, <2>2, <2>3, <2>4, <2>6 DEF GenType
<1>3. ASSUME NEW i \in Threads, ThreadStep(i) PROVE GenType' /\ gen' = gen
  BY <1>3, ThreadStepType
<1> QED
  BY <1>1, <1>2, <1>3 DEF GenNext

-----------------------------------------------------------------------------
(* Types: the servers' side. *)

LEMMA ResourcesNat == 0 \notin Resources /\ Resources \subseteq Nat
  BY ServicesAssumption DEF Resources

LEMMA TaskFields ==
  ASSUME SrvType, NEW s \in Slots
  PROVE  /\ srv[s] \in TaskType /\ srv[s].k \in {0} \cup Resources
         /\ srv[s].cur \in Seq(Item) /\ srv[s].out \in Seq(Item)
         /\ srv[s].size \in Nat /\ srv[s].off \in Nat
<1>1. srv[s] \in TaskType
  BY DEF SrvType
<1> QED
  BY <1>1 DEF TaskType

LEMMA TaskLens ==
  ASSUME SrvType, NEW s \in Slots
  PROVE  Len(srv[s].cur) \in Nat /\ Len(srv[s].out) \in Nat
  BY TaskFields, LenProperties

LEMMA ResourceFields ==
  ASSUME SrvType, NEW k \in Resources
  PROVE  /\ res[k] \in ResourceType /\ res[k].seg \in 0 .. MaxSegments
         /\ res[k].offset \in Nat /\ res[k].place \in {"closed", "idle", "leased"}
         /\ res[k].data \in Seq(Item) /\ res[k].home \in BOOLEAN
<1>1. res[k] \in ResourceType
  BY DEF SrvType
<1> QED
  BY <1>1 DEF ResourceType

LEMMA SegmentFields ==
  ASSUME SrvType, NEW g \in 1 .. MaxSegments
  PROVE  /\ segment[g] \in SegmentType
         /\ segment[g].recs \in Seq(Item) /\ segment[g].disk \in Seq(Item)
         /\ Len(segment[g].recs) \in Nat /\ Len(segment[g].disk) \in Nat
<1>1. segment[g] \in SegmentType
  BY DEF SrvType
<1>2. segment[g].recs \in Seq(Item) /\ segment[g].disk \in Seq(Item)
  BY <1>1 DEF SegmentType
<1> QED
  BY <1>1, <1>2, LenProperties

LEMMA BlankType ==
  /\ Gone \in TaskType
  /\ Closed \in ResourceType
  /\ Blank \in SegmentType
<1>1. 0 \in Nat /\ 0 \in 0 .. MaxSegments /\ << >> \in Seq(Item)
  BY ServicesAssumption, EmptySeq
<1> QED
  BY <1>1 DEF Gone, Closed, Blank, TaskType, ResourceType, SegmentType

LEMMA LeasedType ==
  ASSUME NEW r \in ResourceType
  PROVE  /\ Leased(r) \in ResourceType
         /\ Leased(r).place = "leased" /\ Leased(r).seg = r.seg
         /\ Leased(r).offset = r.offset
         /\ gen = "load_wal" => Leased(r).home = r.home
<1>1. << >> \in Seq(Item)
  BY EmptySeq
<1> QED
  BY <1>1 DEF Leased, ResourceType

\* What dropping a lease leaves in the pool.
LEMMA LeaseBackIs ==
  ASSUME SrvType, NEW s \in Slots
  PROVE  /\ LeaseBack(s, TRUE) \in [Resources -> ResourceType]
         /\ \A k \in Resources :
              IF k = srv[s].k
              THEN LET r == LeaseBack(s, TRUE)[k] IN
                   /\ r.place = "idle" /\ r.seg = res[k].seg /\ r.offset = res[k].offset
                   /\ r.home = IF gen = "load_wal" THEN res[k].home ELSE TRUE
              ELSE LeaseBack(s, TRUE)[k] = res[k]
<1>0. res \in [Resources -> ResourceType]
  BY DEF SrvType
<1>1. CASE srv[s].k = 0
  BY <1>0, <1>1, ResourcesNat DEF LeaseBack
<1>2. CASE srv[s].k # 0
  <2>1. PICK j \in Resources : j = srv[s].k
    BY <1>2, TaskFields
  <2>2. res[j] \in ResourceType /\ InHand(s) \in Seq(Item)
    BY TaskFields, ResourceFields, EmptySeq DEF InHand, Cleared
  <2>3. PICK r : r = IF gen = "load_wal" THEN [res[j] EXCEPT !.place = "idle"]
                     ELSE [res[j] EXCEPT !.place = "idle", !.home = TRUE, !.data = InHand(s)]
    OBVIOUS
  <2>4. /\ r \in ResourceType /\ r.place = "idle" /\ r.seg = res[j].seg
        /\ r.offset = res[j].offset
        /\ r.home = IF gen = "load_wal" THEN res[j].home ELSE TRUE
    BY <2>2, <2>3 DEF ResourceType
  <2>5. LeaseBack(s, TRUE) = [res EXCEPT ![j] = r]
    BY <1>2, <2>1, <2>3 DEF LeaseBack
  <2> QED
    BY <1>0, <2>1, <2>4, <2>5
<1> QED
  BY <1>1, <1>2

LEMMA ReturnType ==
  ASSUME GenType, SrvType, NEW s \in Slots, Return(s, TRUE)
  PROVE  /\ conn' \in [Slots -> ConnType]
         /\ srv' \in [Slots -> TaskType]
         /\ res' \in [Resources -> ResourceType]
<1>1. conn' \in [Slots -> ConnType]
  <2>1. [conn[s] EXCEPT !.server = FALSE] \in ConnType
    BY DEF GenType, ConnType
  <2> QED
    BY <2>1, SilentType DEF GenType, Return
<1>2. srv' \in [Slots -> TaskType]
  BY BlankType DEF Return, SrvType
<1> QED
  BY <1>1, <1>2, LeaseBackIs DEF Return

\* A new resource: for the log, a segment that no one has used.
LEMMA ConnectType ==
  ASSUME SrvType, NEW k \in Resources, connect(k)
  PROVE  /\ res' \in [Resources -> ResourceType]
         /\ segment' \in [1 .. MaxSegments -> SegmentType]
         /\ next' \in 0 .. MaxSegments
<1>1. CASE gen # "load_wal"
  BY <1>1, BlankType, LeasedType DEF connect, SrvType
<1>2. CASE gen = "load_wal"
  <2>1. next' \in 1 .. MaxSegments /\ next' \in 0 .. MaxSegments
    BY <1>2, ServicesAssumption DEF connect, SrvType
  <2>2. [Closed EXCEPT !.seg = next'] \in ResourceType
    BY <2>1, BlankType DEF ResourceType
  <2>3. Leased([Closed EXCEPT !.seg = next']) \in ResourceType
    BY <2>2, LeasedType
  <2> QED
    BY <1>2, <2>1, <2>3, BlankType DEF connect, SrvType
<1> QED
  BY <1>1, <1>2

\* A generator that leaves the threads alone keeps their types.
LEMMA GenKept ==
  ASSUME GenType, UNCHANGED genVars, conn' \in [Slots -> ConnType]
  PROVE  GenType' /\ gen' = gen
<1>1. th' = th /\ gen' = gen
  BY DEF genVars
<1>2. StreamHeld' /\ HasRoom'
  BY <1>1, SameNeed DEF GenType, StreamHeld, HasRoom
<1> QED
  BY <1>1, <1>2 DEF GenType

-----------------------------------------------------------------------------
(* What a step of a server does to its record and its streams. *)

\* Some of the request is read.
LEMMA ReadIs ==
  ASSUME GenType, SrvType, NEW s \in Slots, Read(s)
  PROVE  \E n \in Nat \ {0}, buf \in Seq(Item) :
           /\ n <= Len(conn[s].req) /\ buf = SubSeq(conn[s].req, 1, n) /\ Len(buf) = n
           /\ srv' = [srv EXCEPT ![s] =
                        [srv[s] EXCEPT !.at = AfterRead, !.cur = buf,
                                       !.out = IF AfterRead = "echo" THEN buf ELSE << >>]]
           /\ conn' = [conn EXCEPT ![s] =
                         [conn[s] EXCEPT !.req = SubSeq(conn[s].req, n + 1, Len(conn[s].req))]]
<1>0. conn[s].req \in Seq(Item) /\ Len(conn[s].req) \in Nat /\ Chunk \in Nat
  BY ConnFields, ServicesAssumption
<1>1. PICK n \in 1 .. Least(Len(conn[s].req), Chunk) :
        /\ srv' = [srv EXCEPT ![s].at = AfterRead,
                    ![s].cur = Fill(Cleared(srv[s].cur), SubSeq(conn[s].req, 1, n)),
                    ![s].out = IF AfterRead = "echo"
                               THEN Fill(Cleared(srv[s].cur), SubSeq(conn[s].req, 1, n))
                               ELSE << >>]
        /\ conn' = [conn EXCEPT ![s].req = SubSeq(@, n + 1, Len(@))]
  BY DEF Read
<1>2. n \in Nat \ {0} /\ n <= Len(conn[s].req)
  BY <1>0 DEF Least
<1>3. PICK buf \in Seq(Item) : buf = SubSeq(conn[s].req, 1, n) /\ Len(buf) = n
  <2>1. SubSeq(conn[s].req, 1, n) \in Seq(Item) /\ Len(SubSeq(conn[s].req, 1, n)) = n
    BY <1>0, <1>2, Cut
  <2> QED
    BY <2>1
<1>4. Fill(Cleared(srv[s].cur), SubSeq(conn[s].req, 1, n)) = buf
  BY <1>3, FillCleared
<1>5. /\ srv' = [srv EXCEPT ![s] =
                   [srv[s] EXCEPT !.at = AfterRead, !.cur = buf,
                                  !.out = IF AfterRead = "echo" THEN buf ELSE << >>]]
      /\ conn' = [conn EXCEPT ![s] =
                    [conn[s] EXCEPT !.req = SubSeq(conn[s].req, n + 1, Len(conn[s].req))]]
  <2>1. PICK f : f = Fill(Cleared(srv[s].cur), SubSeq(conn[s].req, 1, n)) /\ f = buf
    BY <1>4
  <2>2. srv' = [srv EXCEPT ![s].at = AfterRead, ![s].cur = f,
                           ![s].out = IF AfterRead = "echo" THEN f ELSE << >>]
    BY <1>1, <2>1
  <2>3. srv' = [srv EXCEPT ![s] =
                  [srv[s] EXCEPT !.at = AfterRead, !.cur = f,
                                 !.out = IF AfterRead = "echo" THEN f ELSE << >>]]
    BY <2>2
  <2>4. conn' = [conn EXCEPT ![s] =
                   [conn[s] EXCEPT !.req = SubSeq(conn[s].req, n + 1, Len(conn[s].req))]]
    BY <1>1
  <2> QED
    BY <2>1, <2>3, <2>4
<1> QED
  BY <1>2, <1>3, <1>5

\* Some of an answer is written.
LEMMA WriteIs ==
  ASSUME GenType, SrvType, NEW s \in Slots, WriteAll(s)
  PROVE  \E k \in Nat \ {0}, w \in Seq(Item), x \in Seq(Item) :
           /\ k <= Len(srv[s].out)
           /\ w = SubSeq(srv[s].out, 1, k) /\ x = SubSeq(srv[s].out, k + 1, Len(srv[s].out))
           /\ Len(w) = k /\ Len(x) = Len(srv[s].out) - k
           /\ srv' = [srv EXCEPT ![s] =
                        [srv[s] EXCEPT !.out = x,
                                       !.at = IF k = Len(srv[s].out) THEN AfterWrite(s) ELSE @]]
           /\ conn' = [conn EXCEPT ![s] = [conn[s] EXCEPT !.rep = conn[s].rep \o w]]
<1>0. srv[s].out \in Seq(Item) /\ Len(srv[s].out) \in Nat /\ Len(conn[s].rep) \in Nat
  BY TaskFields, TaskLens, ConnFields
<1>1. PICK k : /\ k = Least(Len(srv[s].out), Window - Len(conn[s].rep)) /\ k > 0
               /\ conn' = [conn EXCEPT ![s].rep = @ \o SubSeq(srv[s].out, 1, k)]
               /\ srv' = [srv EXCEPT ![s].out = SubSeq(@, k + 1, Len(@)),
                           ![s].at = IF k = Len(srv[s].out) THEN AfterWrite(s) ELSE @]
  BY DEF WriteAll
<1>2. k \in Nat \ {0} /\ k <= Len(srv[s].out)
  <2>0. k = Least(Len(srv[s].out), Window - Len(conn[s].rep)) /\ k > 0
    BY <1>1
  <2>1. PICK a \in Nat : a = Len(srv[s].out)
    BY <1>0
  <2>2. Window - Len(conn[s].rep) \in Int
    BY <1>0, LoadAssumption
  <2>3. PICK b \in Int : b = Window - Len(conn[s].rep)
    BY <2>2
  <2>4. k = IF a < b THEN a ELSE b
    BY <2>0, <2>1, <2>3 DEF Least
  <2> QED
    BY <2>0, <2>1, <2>4
<1>3. /\ SubSeq(srv[s].out, 1, k) \in Seq(Item) /\ Len(SubSeq(srv[s].out, 1, k)) = k
      /\ SubSeq(srv[s].out, k + 1, Len(srv[s].out)) \in Seq(Item)
      /\ Len(SubSeq(srv[s].out, k + 1, Len(srv[s].out))) = Len(srv[s].out) - k
  BY <1>0, <1>2, Cut
<1>4. PICK w \in Seq(Item) : w = SubSeq(srv[s].out, 1, k) /\ Len(w) = k
  BY <1>3
<1>5. PICK x \in Seq(Item) :
        x = SubSeq(srv[s].out, k + 1, Len(srv[s].out)) /\ Len(x) = Len(srv[s].out) - k
  BY <1>3
<1>6. /\ srv' = [srv EXCEPT ![s] =
                   [srv[s] EXCEPT !.out = x,
                                  !.at = IF k = Len(srv[s].out) THEN AfterWrite(s) ELSE @]]
      /\ conn' = [conn EXCEPT ![s] = [conn[s] EXCEPT !.rep = conn[s].rep \o w]]
  BY <1>1, <1>4, <1>5
<1> QED
  BY <1>2, <1>4, <1>5, <1>6

LEMMA AfterReadIs ==
  /\ AfterRead \in {"append", "open", "echo"}
  /\ gen = "load_wal" <=> AfterRead = "append"
  BY DEF AfterRead

LEMMA AfterWriteIs ==
  ASSUME NEW s
  PROVE  AfterWrite(s) \in {"get", "copy", "read"} /\ (srv[s].at = "echo" => AfterWrite(s) = "read")
         /\ (srv[s].at = "ack" => AfterWrite(s) = "read")
         /\ (srv[s].at \notin {"header", "body"} => AfterWrite(s) = "read")
  BY DEF AfterWrite

\* A turn of the copy loop that has something to copy.
LEMMA CopyIs ==
  ASSUME SrvType, NEW s \in Slots, srv[s].off < srv[s].size,
         NEW n \in Int, n = Least(Chunk, file.len - srv[s].off), n > 0
  PROVE  /\ [j \in 1 .. n |-> <<"body", srv[s].off + j>>] \in Seq(Item)
         /\ srv[s].off + n \in Nat
<1>1. srv[s].off \in Nat /\ n \in Nat
  BY TaskFields
<1>2. \A j \in 1 .. n : <<"body", srv[s].off + j>> \in Item
  BY <1>1 DEF Item
<1> QED
  BY <1>1, <1>2

\* The answers that are not data.
LEMMA AnswerType ==
  /\ <<<<"ack">>>> \in Seq(Item) /\ <<<<"ERR">>>> \in Seq(Item)
  /\ \A n \in Nat : <<<<"size", n>>>> \in Seq(Item)
<1>1. <<"ack">> \in Item /\ <<"ERR">> \in Item /\ \A n \in Nat : <<"size", n>> \in Item
  BY DEF Item
<1> QED
  BY <1>1

-----------------------------------------------------------------------------
(* What a step of a server does, point by point. *)

Others(s) == \A t \in Slots : t # s => srv'[t] = srv[t]

\* The task goes on with what it has.
Stepped(s) ==
  /\ Others(s) /\ UNCHANGED <<res, segment, next, acked>>
  /\ srv'[s].k = srv[s].k
  /\ srv'[s].at \notin {"sync", "ack"}
  /\ srv'[s].at = "append" => gen = "load_wal"
  /\ gen = "load_wal" => srv'[s].at \in LogAt
  /\ gen = "load_wal" /\ srv'[s].at \notin {"none", "get"} => srv[s].at \notin {"none", "get"}

\* The lease, if there is one, goes back.
LetGo(s) ==
  /\ Others(s) /\ UNCHANGED <<next, acked>>
  /\ srv'[s].k = 0 /\ srv'[s].at \in {"none", "read"}
  /\ gen = "load_wal" => srv'[s].at = "none"
  /\ \A k \in Resources :
       IF k = srv[s].k
       THEN /\ res'[k].place = "idle"
            /\ res'[k].home = IF gen = "load_wal" THEN res[k].home ELSE TRUE
            /\ res'[k].seg = res[k].seg /\ res'[k].offset = res[k].offset
       ELSE res'[k] = res[k]
Released(s) == LetGo(s) /\ segment' = segment

\* A resource is lent: one that was idle, or a new one.
Lent(s, k) ==
  /\ Others(s) /\ acked' = acked
  /\ srv'[s].k = k /\ srv'[s].at \in {"read", "copy"} /\ (gen = "load_wal" => srv'[s].at = "read")
  /\ res[k].place # "leased" /\ res'[k].place = "leased"
  /\ \A j \in Resources : j # k => res'[j] = res[j]
  /\ \/ /\ UNCHANGED <<segment, next>>
        /\ gen = "load_wal" => /\ res[k].place = "idle" /\ res'[k].seg = res[k].seg
                               /\ res'[k].offset = res[k].offset
                               /\ res'[k].home = res[k].home
     \/ /\ gen = "load_wal" /\ res'[k].home
        /\ next' = next + 1 /\ next' \in 1 .. MaxSegments
        /\ res'[k].seg = next' /\ res'[k].offset = 0
        /\ segment'[next'] = Blank
        /\ \A g \in 1 .. MaxSegments : g # next' => segment'[g] = segment[g]

\* The log: a record is written at the tail, synced, acknowledged; or it is torn
\* and the connection ends.
Logging(s, k, g) ==
  /\ gen = "load_wal" /\ k = srv[s].k /\ g = res[k].seg
  /\ Others(s) /\ next' = next
  /\ \A f \in 1 .. MaxSegments : f # g => segment'[f] = segment[f]
Extended(k, g) ==
  /\ segment'[g].disk = segment[g].disk
  /\ Len(segment'[g].recs) \in Nat /\ Len(segment'[g].recs) >= Len(segment[g].recs)
  /\ \A i \in 1 .. res[k].offset : segment'[g].recs[i] = segment[g].recs[i]
Torn(s, k, g) == Logging(s, k, g) /\ Extended(k, g) /\ LetGo(s)
Written(s, k, g) ==
  LET n == res[k].offset + Len(srv[s].cur) IN
  /\ Logging(s, k, g) /\ Extended(k, g)
  /\ srv'[s].k = k /\ srv'[s].cur = srv[s].cur
  /\ srv[s].at = "append" /\ srv'[s].at = "sync" /\ acked' = acked
  /\ \A j \in Resources : j # k => res'[j] = res[j]
  /\ res'[k].place = res[k].place /\ res'[k].seg = g /\ res'[k].offset = n
  /\ res'[k].home = res[k].home
  /\ Len(segment'[g].recs) >= n /\ Holds(segment'[g].recs, n, srv[s].cur)
Synced(s, k, g) ==
  /\ Logging(s, k, g) /\ srv'[s].k = k /\ srv'[s].cur = srv[s].cur
  /\ srv[s].at = "sync" /\ srv'[s].at = "ack" /\ UNCHANGED <<res, acked>>
  /\ segment'[g].recs = segment[g].recs /\ segment'[g].disk = segment[g].recs
Confirmed(s, k, g) ==
  /\ Logging(s, k, g) /\ srv'[s].k = k /\ srv'[s].cur = srv[s].cur
  /\ UNCHANGED <<res, segment>>
  /\ srv[s].at = "ack" /\ srv'[s].at \in {"ack", "read"}
  /\ \A a \in acked' :
       \/ a \in acked
       \/ \E j \in 1 .. Len(srv[s].cur) :
            a = [seg |-> g, pos |-> res[k].offset - Len(srv[s].cur) + j, rec |-> srv[s].cur[j]]

ServeMove(s) ==
  \/ Stepped(s) \/ Released(s)
  \/ \E k \in Resources : Lent(s, k)
  \/ \E k \in Resources, g \in 1 .. MaxSegments :
       Torn(s, k, g) \/ Written(s, k, g) \/ Synced(s, k, g) \/ Confirmed(s, k, g)
Done(s) == GenType' /\ SrvType' /\ gen' = gen /\ ServeMove(s)

LEMMA StepDone ==
  ASSUME GenType, SrvType, NEW s \in Slots,
         UNCHANGED <<genVars, res, segment, next, acked, file>>,
         NEW t \in TaskType, srv' = [srv EXCEPT ![s] = t], conn' \in [Slots -> ConnType],
         t.k = srv[s].k, t.at \notin {"sync", "ack"}, t.at = "append" => gen = "load_wal",
         gen = "load_wal" => t.at \in LogAt,
         gen = "load_wal" /\ t.at \notin {"none", "get"} => srv[s].at \notin {"none", "get"}
  PROVE  Done(s)
<1>1. srv'[s] = t /\ Others(s)
  BY DEF Others, SrvType
<1>2. Stepped(s)
  BY <1>1 DEF Stepped
<1>3. GenType' /\ gen' = gen
  BY GenKept
<1>4. SrvType'
  BY DEF SrvType
<1> QED
  BY <1>2, <1>3, <1>4 DEF Done, ServeMove

LEMMA ReturnLetsGo ==
  ASSUME SrvType, NEW s \in Slots, Return(s, TRUE), UNCHANGED <<next, acked>>
  PROVE  LetGo(s)
<1>1. Others(s) /\ srv'[s].k = 0 /\ srv'[s].at = "none"
  BY DEF Return, Others, Gone, SrvType
<1>2. res' = LeaseBack(s, TRUE)
  BY DEF Return
<1> QED
  BY <1>1, <1>2, LeaseBackIs DEF LetGo

LEMMA ReturnDone ==
  ASSUME GenType, SrvType, NEW s \in Slots, Return(s, TRUE),
         UNCHANGED <<genVars, segment, next, acked, file>>
  PROVE  Done(s)
<1>1. Released(s)
  BY ReturnLetsGo DEF Released
<1>2. /\ conn' \in [Slots -> ConnType]
      /\ srv' \in [Slots -> TaskType]
      /\ res' \in [Resources -> ResourceType]
  BY ReturnType
<1>3. GenType' /\ gen' = gen
  BY <1>2, GenKept
<1>4. SrvType'
  BY <1>2 DEF SrvType
<1> QED
  BY <1>1, <1>3, <1>4 DEF Done, ServeMove

LEMMA GetDone ==
  ASSUME GenType, SrvType, NEW s \in Slots, Get(s)
  PROVE  Done(s)
<1>0. /\ srv \in [Slots -> TaskType] /\ res \in [Resources -> ResourceType]
      /\ segment \in [1 .. MaxSegments -> SegmentType] /\ next \in 0 .. MaxSegments
  BY DEF SrvType
<1>1. PICK k \in Resources :
        /\ \/ /\ res[k].place = "idle"
              /\ res' = [res EXCEPT ![k] = Leased(@)]
              /\ UNCHANGED <<segment, next>>
           \/ res[k].place = "closed" /\ connect(k)
        /\ srv' = [srv EXCEPT ![s].k = k, ![s].cur = res[k].data,
                              ![s].at = IF gen = "load_file" THEN "copy" ELSE "read"]
  BY DEF Get
<1>2. UNCHANGED <<genVars, conn, acked, file>>
  BY DEF Get
<1> DEFINE t == [srv[s] EXCEPT !.k = k, !.cur = res[k].data,
                               !.at = IF gen = "load_file" THEN "copy" ELSE "read"]
<1>3. srv' = [srv EXCEPT ![s] = t]
  BY <1>1
<1>4. t \in TaskType /\ t.k = k /\ t.at \in {"read", "copy"} /\ (gen = "load_wal" => t.at = "read")
  <2>1. srv[s] \in TaskType /\ res[k].data \in Seq(Item)
    BY TaskFields, ResourceFields
  <2> QED
    BY <2>1 DEF TaskType
<1> HIDE DEF t
<1>5. /\ srv' \in [Slots -> TaskType] /\ Others(s) /\ srv'[s].k = k
      /\ srv'[s].at \in {"read", "copy"} /\ (gen = "load_wal" => srv'[s].at = "read")
  BY <1>0, <1>3, <1>4 DEF Others
<1>6. /\ res' \in [Resources -> ResourceType]
      /\ segment' \in [1 .. MaxSegments -> SegmentType]
      /\ next' \in 0 .. MaxSegments
  BY <1>0, <1>1, ConnectType, LeasedType
<1>7. GenType' /\ gen' = gen
  BY <1>2, GenKept DEF GenType
<1>8. SrvType'
  BY <1>2, <1>5, <1>6 DEF SrvType
<1>9. Lent(s, k)
  <2>3. CASE /\ res[k].place = "idle" /\ res' = [res EXCEPT ![k] = Leased(@)]
             /\ UNCHANGED <<segment, next>>
    <3>1. /\ res'[k] = Leased(res[k]) /\ \A j \in Resources : j # k => res'[j] = res[j]
          /\ res[k] \in ResourceType
      BY <1>0, <2>3
    <3>2. /\ res'[k].place = "leased" /\ res'[k].seg = res[k].seg
          /\ res'[k].offset = res[k].offset
          /\ gen = "load_wal" => res'[k].home = res[k].home
      BY <3>1, LeasedType
    <3> QED
      BY <1>2, <1>5, <2>3, <3>1, <3>2 DEF Lent
  <2>4. CASE res[k].place = "closed" /\ connect(k) /\ gen # "load_wal"
    <3>1. /\ res'[k] = Leased(Closed) /\ \A j \in Resources : j # k => res'[j] = res[j]
          /\ UNCHANGED <<segment, next>>
      BY <1>0, <2>4 DEF connect
    <3>2. res'[k].place = "leased"
      BY <3>1, BlankType, LeasedType
    <3> QED
      BY <1>2, <1>5, <2>4, <3>1, <3>2 DEF Lent
  <2>5. CASE res[k].place = "closed" /\ connect(k) /\ gen = "load_wal"
    <3>1. /\ next' = next + 1 /\ next' \in 1 .. MaxSegments /\ next' \in 0 .. MaxSegments
      BY <1>0, <2>5, ServicesAssumption DEF connect
    <3>2. /\ res'[k] = Leased([Closed EXCEPT !.seg = next'])
          /\ \A j \in Resources : j # k => res'[j] = res[j]
      BY <1>0, <2>5 DEF connect
    <3>3. segment' = [segment EXCEPT ![next'] = Blank]
      BY <2>5 DEF connect
    <3>4. /\ segment'[next'] = Blank
          /\ \A g \in 1 .. MaxSegments : g # next' => segment'[g] = segment[g]
      BY <1>0, <3>1, <3>3
    <3>5. /\ [Closed EXCEPT !.seg = next'] \in ResourceType
          /\ [Closed EXCEPT !.seg = next'].seg = next'
          /\ [Closed EXCEPT !.seg = next'].offset = 0
          /\ [Closed EXCEPT !.seg = next'].home
      BY <3>1, BlankType DEF ResourceType, Closed
    <3>6. res'[k].place = "leased" /\ res'[k].seg = next' /\ res'[k].offset = 0 /\ res'[k].home
      BY <2>5, <3>2, <3>5, LeasedType
    <3> QED
      BY <1>2, <1>5, <2>5, <3>1, <3>2, <3>4, <3>6 DEF Lent
  <2> QED
    BY <1>1, <2>3, <2>4, <2>5
<1> QED
  BY <1>7, <1>8, <1>9 DEF Done, ServeMove

\* Where a log task stands.
LEMMA AtLog ==
  ASSUME SrvType, LeaseInv, SegmentInv, RecordInv, NEW s \in Slots,
         srv[s].at \in {"append", "sync", "ack"}
  PROVE  /\ gen = "load_wal" /\ srv[s].k \in Resources /\ res[srv[s].k].place = "leased"
         /\ res[srv[s].k].seg \in 1 .. MaxSegments /\ res[srv[s].k].offset \in Nat
         /\ res[srv[s].k].offset <= Len(segment[res[srv[s].k].seg].recs)
<1>0. gen = "load_wal" /\ srv[s].k \in {0} \cup Resources
  BY TaskFields DEF RecordInv
<1>1. srv[s].k \in Resources /\ res[srv[s].k].place = "leased"
  BY <1>0 DEF LeaseInv
<1>2. res[srv[s].k].offset \in Nat
  BY <1>1, ResourceFields
<1>3. /\ res[srv[s].k].seg \in 1 .. next
      /\ res[srv[s].k].offset <= Len(segment[res[srv[s].k].seg].recs)
  BY <1>0, <1>1 DEF SegmentInv
<1>4. res[srv[s].k].seg \in 1 .. MaxSegments
  BY <1>3, ServicesAssumption DEF SrvType
<1> QED
  BY <1>0, <1>1, <1>2, <1>3, <1>4

\* A record is written at the tail, or some of it is.
LEMMA AppendDone ==
  ASSUME GenType, SrvType, LeaseInv, SegmentInv, RecordInv, NEW s \in Slots, AppendRecord(s)
  PROVE  Done(s)
<1>0. /\ srv[s].at = "append" /\ UNCHANGED <<genVars, next, acked, file>>
      /\ srv[s].cur \in Seq(Item) /\ Len(srv[s].cur) \in Nat /\ srv[s] \in TaskType
  BY TaskFields, TaskLens DEF AppendRecord
<1>1. PICK k \in Resources : k = srv[s].k
  BY <1>0, AtLog
<1>2. PICK g \in 1 .. MaxSegments : g = res[k].seg
  BY <1>0, <1>1, AtLog
<1>3. gen = "load_wal" /\ res[k].offset <= Len(segment[g].recs) /\ res[k].offset \in Nat
  BY <1>0, <1>1, <1>2, AtLog
<1>4. PICK n \in Nat : n = res[k].offset
  BY <1>3
<1>5. segment[g] \in SegmentType /\ segment[g].recs \in Seq(Item) /\ n <= Len(segment[g].recs)
  BY <1>3, <1>4, SegmentFields
<1>6. ASSUME NEW u \in Seq(Item),
             segment' = [segment EXCEPT ![g].recs = WriteAt(@, n, u)]
      PROVE  /\ segment' \in [1 .. MaxSegments -> SegmentType]
             /\ \A f \in 1 .. MaxSegments : f # g => segment'[f] = segment[f]
             /\ Extended(k, g) /\ segment'[g].recs = WriteAt(segment[g].recs, n, u)
  <2>1. PICK q \in Seq(Item) : q = WriteAt(segment[g].recs, n, u)
    BY <1>5, WriteAtIs
  <2>2. /\ Len(q) \in Nat /\ Len(q) >= Len(segment[g].recs)
        /\ \A j \in 1 .. n : q[j] = segment[g].recs[j]
    BY <1>5, <2>1, WriteAtIs
  <2>3. segment' = [segment EXCEPT ![g] = [segment[g] EXCEPT !.recs = q]]
    BY <1>6, <2>1
  <2>4. /\ [segment[g] EXCEPT !.recs = q] \in SegmentType
        /\ [segment[g] EXCEPT !.recs = q].recs = q
        /\ [segment[g] EXCEPT !.recs = q].disk = segment[g].disk
    BY <1>5 DEF SegmentType
  <2>5. segment \in [1 .. MaxSegments -> SegmentType]
    BY DEF SrvType
  <2>6. /\ segment' \in [1 .. MaxSegments -> SegmentType]
        /\ \A f \in 1 .. MaxSegments : f # g => segment'[f] = segment[f]
        /\ segment'[g].recs = q /\ segment'[g].disk = segment[g].disk
    BY <2>3, <2>4, <2>5
  <2> QED
    BY <1>4, <2>1, <2>2, <2>6 DEF Extended
<1>7. CASE /\ segment' = [segment EXCEPT ![g].recs = WriteAt(@, n, srv[s].cur)]
           /\ res' = [res EXCEPT ![k].offset = @ + Len(srv[s].cur)]
           /\ srv' = [srv EXCEPT ![s].at = "sync"]
           /\ UNCHANGED conn
  <2>1. /\ segment' \in [1 .. MaxSegments -> SegmentType]
        /\ \A f \in 1 .. MaxSegments : f # g => segment'[f] = segment[f]
        /\ Extended(k, g) /\ segment'[g].recs = WriteAt(segment[g].recs, n, srv[s].cur)
    BY <1>0, <1>6, <1>7
  <2>2. PICK e \in Nat : e = n + Len(srv[s].cur)
    BY <1>0
  <2>3. /\ Len(segment'[g].recs) >= e
        /\ \A j \in 1 .. Len(srv[s].cur) : segment'[g].recs[n + j] = srv[s].cur[j]
    BY <1>0, <1>5, <2>1, <2>2, WriteAtIs
  <2>4. Holds(segment'[g].recs, e, srv[s].cur)
    <3>1. \A j \in 1 .. Len(srv[s].cur) : e - Len(srv[s].cur) + j = n + j
      BY <1>0, <2>2
    <3> QED
      BY <2>3, <3>1 DEF Holds
  <2>5. /\ res'[k].place = res[k].place /\ res'[k].seg = res[k].seg /\ res'[k].offset = e
        /\ res'[k].home = res[k].home /\ \A j \in Resources : j # k => res'[j] = res[j]
        /\ res' \in [Resources -> ResourceType]
    <3>1. res[k] \in ResourceType /\ res \in [Resources -> ResourceType]
      BY DEF SrvType
    <3>2. res' = [res EXCEPT ![k] = [res[k] EXCEPT !.offset = e]]
      BY <1>4, <1>7, <2>2
    <3>3. /\ [res[k] EXCEPT !.offset = e] \in ResourceType
          /\ [res[k] EXCEPT !.offset = e].place = res[k].place
          /\ [res[k] EXCEPT !.offset = e].seg = res[k].seg
          /\ [res[k] EXCEPT !.offset = e].offset = e
          /\ [res[k] EXCEPT !.offset = e].home = res[k].home
      BY <3>1 DEF ResourceType
    <3> QED
      BY <3>1, <3>2, <3>3
  <2>6. /\ srv'[s].at = "sync" /\ srv'[s].k = k /\ srv'[s].cur = srv[s].cur /\ Others(s)
        /\ srv' \in [Slots -> TaskType]
    <3>1. srv \in [Slots -> TaskType]
      BY DEF SrvType
    <3> QED
      BY <1>0, <1>1, <1>7, <3>1 DEF TaskType, Others
  <2>7. Written(s, k, g)
    BY <1>0, <1>1, <1>2, <1>3, <1>4, <2>1, <2>2, <2>3, <2>4, <2>5, <2>6
    DEF Written, Logging
  <2>8. GenType' /\ gen' = gen
    BY <1>0, <1>7, GenKept DEF GenType
  <2>9. SrvType'
    BY <1>0, <2>1, <2>5, <2>6 DEF SrvType
  <2> QED
    BY <2>7, <2>8, <2>9 DEF Done, ServeMove
<1>8. ASSUME NEW m \in 0 .. Len(srv[s].cur),
             segment' = [segment EXCEPT ![g].recs = WriteAt(@, n, SubSeq(srv[s].cur, 1, m))],
             Return(s, TRUE)
      PROVE  Done(s)
  <2>0. m \in Nat /\ m <= Len(srv[s].cur)
    BY <1>0
  <2>1. PICK u \in Seq(Item) : u = SubSeq(srv[s].cur, 1, m)
    BY <1>0, <2>0, Cut
  <2>2. /\ segment' \in [1 .. MaxSegments -> SegmentType]
        /\ \A f \in 1 .. MaxSegments : f # g => segment'[f] = segment[f]
        /\ Extended(k, g)
    BY <1>6, <1>8, <2>1
  <2>3. LetGo(s)
    BY <1>0, <1>8, ReturnLetsGo
  <2>4. /\ conn' \in [Slots -> ConnType]
        /\ srv' \in [Slots -> TaskType]
        /\ res' \in [Resources -> ResourceType]
    BY <1>8, ReturnType
  <2>5. Torn(s, k, g)
    BY <1>0, <1>1, <1>2, <1>3, <2>2, <2>3 DEF Torn, Logging, LetGo
  <2>6. GenType' /\ gen' = gen
    BY <1>0, <2>4, GenKept
  <2>7. SrvType'
    BY <1>0, <2>2, <2>4 DEF SrvType
  <2> QED
    BY <2>5, <2>6, <2>7 DEF Done, ServeMove
<1> QED
  BY <1>1, <1>2, <1>4, <1>7, <1>8 DEF AppendRecord

LEMMA SyncDone ==
  ASSUME GenType, SrvType, LeaseInv, SegmentInv, RecordInv, NEW s \in Slots, SyncData(s)
  PROVE  Done(s)
<1>0. srv[s].at = "sync" /\ UNCHANGED <<genVars, next, acked, file>> /\ srv[s] \in TaskType
  BY TaskFields DEF SyncData
<1>1. PICK k \in Resources : k = srv[s].k
  BY <1>0, AtLog
<1>2. PICK g \in 1 .. MaxSegments : g = res[k].seg
  BY <1>0, <1>1, AtLog
<1>3. gen = "load_wal"
  BY <1>0, AtLog
<1>4. CASE Return(s, TRUE) /\ UNCHANGED segment
  BY <1>0, <1>4, ReturnDone
<1>5. CASE /\ segment' = [segment EXCEPT ![g].disk = segment[g].recs]
           /\ srv' = [srv EXCEPT ![s].at = "ack", ![s].out = <<<<"ack">>>>]
           /\ UNCHANGED <<res, conn>>
  <2>1. /\ segment \in [1 .. MaxSegments -> SegmentType] /\ srv \in [Slots -> TaskType]
        /\ segment[g] \in SegmentType
    BY DEF SrvType
  <2>2. /\ [segment[g] EXCEPT !.disk = segment[g].recs] \in SegmentType
        /\ [segment[g] EXCEPT !.disk = segment[g].recs].recs = segment[g].recs
        /\ [segment[g] EXCEPT !.disk = segment[g].recs].disk = segment[g].recs
    BY <2>1 DEF SegmentType
  <2>3. /\ segment' \in [1 .. MaxSegments -> SegmentType]
        /\ \A f \in 1 .. MaxSegments : f # g => segment'[f] = segment[f]
        /\ segment'[g].recs = segment[g].recs /\ segment'[g].disk = segment[g].recs
    BY <1>5, <2>1, <2>2
  <2>4. PICK out \in Seq(Item) : out = <<<<"ack">>>>
    BY AnswerType
  <2>5. /\ [srv[s] EXCEPT !.at = "ack", !.out = out] \in TaskType
        /\ [srv[s] EXCEPT !.at = "ack", !.out = out].at = "ack"
        /\ [srv[s] EXCEPT !.at = "ack", !.out = out].k = srv[s].k
        /\ [srv[s] EXCEPT !.at = "ack", !.out = out].cur = srv[s].cur
    BY <1>0 DEF TaskType, Writing
  <2>6. /\ srv' = [srv EXCEPT ![s] = [srv[s] EXCEPT !.at = "ack", !.out = out]]
    BY <1>5, <2>4
  <2>7. /\ srv' \in [Slots -> TaskType] /\ Others(s)
        /\ srv'[s].at = "ack" /\ srv'[s].k = srv[s].k /\ srv'[s].cur = srv[s].cur
    BY <2>1, <2>5, <2>6 DEF Others
  <2>8. Synced(s, k, g)
    BY <1>0, <1>1, <1>2, <1>3, <1>5, <2>3, <2>7 DEF Synced, Logging
  <2>9. GenType' /\ gen' = gen
    BY <1>0, <1>5, GenKept DEF GenType
  <2>10. SrvType'
    BY <1>0, <1>5, <2>3, <2>7 DEF SrvType
  <2> QED
    BY <2>8, <2>9, <2>10 DEF Done, ServeMove
<1> QED
  BY <1>1, <1>2, <1>4, <1>5 DEF SyncData

\* An answer, or an acknowledgement, goes out.
LEMMA WriteDone ==
  ASSUME GenType, SrvType, LeaseInv, SegmentInv, RecordInv, NEW s \in Slots, WriteAll(s)
  PROVE  Done(s)
<1>0. /\ srv[s] \in TaskType /\ conn[s] \in ConnType /\ conn[s].rep \in Seq(Item)
      /\ srv[s].at \in Writing /\ UNCHANGED <<genVars, res, segment, next, file>>
      /\ acked' = acked \cup Promised(s)
  BY TaskFields, ConnFields DEF WriteAll
<1>1. PICK n \in Nat \ {0}, w \in Seq(Item), x \in Seq(Item) :
           /\ n <= Len(srv[s].out)
           /\ w = SubSeq(srv[s].out, 1, n) /\ x = SubSeq(srv[s].out, n + 1, Len(srv[s].out))
           /\ Len(w) = n /\ Len(x) = Len(srv[s].out) - n
           /\ srv' = [srv EXCEPT ![s] =
                        [srv[s] EXCEPT !.out = x,
                                       !.at = IF n = Len(srv[s].out) THEN AfterWrite(s) ELSE @]]
           /\ conn' = [conn EXCEPT ![s] = [conn[s] EXCEPT !.rep = conn[s].rep \o w]]
  BY WriteIs
<1>2. conn' \in [Slots -> ConnType]
  <2>1. conn[s].rep \o w \in Seq(Item)
    BY <1>0, ConcatProperties
  <2>2. [conn[s] EXCEPT !.rep = conn[s].rep \o w] \in ConnType
    BY <1>0, <2>1 DEF ConnType
  <2> QED
    BY <1>1, <2>2 DEF GenType
<1> DEFINE t == [srv[s] EXCEPT !.out = x,
                               !.at = IF n = Len(srv[s].out) THEN AfterWrite(s) ELSE @]
<1>3. /\ t \in TaskType /\ t.k = srv[s].k /\ t.cur = srv[s].cur
      /\ t.at = srv[s].at \/ t.at = AfterWrite(s)
  <2>1. AfterWrite(s) \in {"get", "copy", "read"}
    BY AfterWriteIs
  <2> QED
    BY <1>0, <2>1 DEF TaskType
<1>4. srv' = [srv EXCEPT ![s] = t]
  BY <1>1
<1> HIDE DEF t
<1>5. CASE srv[s].at # "ack"
  <2>1. acked' = acked
    BY <1>0, <1>5 DEF Promised
  <2>2. /\ AfterWrite(s) \in {"get", "copy", "read"}
        /\ (srv[s].at \notin {"header", "body"} => AfterWrite(s) = "read")
    BY AfterWriteIs
  <2>3. gen # "load_wal"
    BY <1>0, <1>5 DEF RecordInv, LogAt, Writing
  <2>4. t.at \notin {"sync", "ack", "append"}
    BY <1>0, <1>3, <1>5, <2>2 DEF Writing
  <2> QED
    BY <1>0, <1>2, <1>3, <1>4, <2>1, <2>3, <2>4, StepDone
<1>6. CASE srv[s].at = "ack"
  <2>1. PICK k \in Resources : k = srv[s].k
    BY <1>6, AtLog
  <2>2. PICK g \in 1 .. MaxSegments : g = res[k].seg
    BY <1>6, <2>1, AtLog
  <2>3. gen = "load_wal" /\ res[k].offset \in Nat
    BY <1>6, <2>1, AtLog
  <2>4. srv[s].cur \in Seq(Item) /\ Len(srv[s].cur) \in Nat /\ Len(srv[s].cur) <= res[k].offset
    BY <1>6, <2>1, TaskFields, TaskLens DEF RecordInv, Here
  <2>5. DOMAIN srv[s].cur = 1 .. Len(srv[s].cur)
    BY <2>4, LenProperties
  <2>6. \A a \in acked' :
          \/ a \in acked
          \/ \E j \in 1 .. Len(srv[s].cur) :
               a = [seg |-> g, pos |-> res[k].offset - Len(srv[s].cur) + j, rec |-> srv[s].cur[j]]
    BY <1>0, <1>6, <2>1, <2>2, <2>5 DEF Promised
  <2>7. acked' \subseteq [seg : 1 .. MaxSegments, pos : Nat \ {0}, rec : Item]
    <3>1. ASSUME NEW j \in 1 .. Len(srv[s].cur)
          PROVE  [seg |-> g, pos |-> res[k].offset - Len(srv[s].cur) + j, rec |-> srv[s].cur[j]]
                   \in [seg : 1 .. MaxSegments, pos : Nat \ {0}, rec : Item]
      <4>1. res[k].offset - Len(srv[s].cur) + j \in Nat \ {0}
        BY <2>3, <2>4
      <4>2. srv[s].cur[j] \in Item
        BY <2>4, ElementOfSeq
      <4> QED
        BY <4>1, <4>2
    <3>2. acked \subseteq [seg : 1 .. MaxSegments, pos : Nat \ {0}, rec : Item]
      BY DEF SrvType
    <3> QED
      BY <2>6, <3>1, <3>2
  <2>8. srv' \in [Slots -> TaskType] /\ Others(s) /\ srv'[s] = t
    BY <1>3, <1>4 DEF SrvType, Others
  <2>9. t.at \in {"ack", "read"}
    BY <1>3, <1>6, AfterWriteIs
  <2>10. Confirmed(s, k, g)
    BY <1>0, <1>3, <1>6, <2>1, <2>2, <2>3, <2>6, <2>8, <2>9 DEF Confirmed, Logging
  <2>11. GenType' /\ gen' = gen
    BY <1>0, <1>2, GenKept
  <2>12. SrvType'
    BY <1>0, <2>7, <2>8 DEF SrvType
  <2> QED
    BY <2>10, <2>11, <2>12 DEF Done, ServeMove
<1> QED
  BY <1>5, <1>6

\* A turn of the copy loop.
LEMMA CopyDone ==
  ASSUME GenType, SrvType, RecordInv, NEW s \in Slots, CopyChunk(s)
  PROVE  Done(s)
<1>0. /\ srv[s] \in TaskType /\ srv[s].at = "copy" /\ srv[s].off \in Nat
      /\ UNCHANGED <<genVars, segment, next, acked, file>>
  BY TaskFields DEF CopyChunk
<1>1. gen # "load_wal"
  BY <1>0 DEF RecordInv, LogAt
<1>a. srv \in [Slots -> TaskType] /\ conn \in [Slots -> ConnType]
  BY DEF SrvType, GenType
<1>2. PICK n \in Int : n = Least(Chunk, file.len - srv[s].off)
  <2>1. file.len - srv[s].off \in Int
    BY <1>0 DEF SrvType
  <2> QED
    BY <2>1, LeastIs, ServicesAssumption
<1>3. CASE Return(s, TRUE)
  BY <1>0, <1>3, ReturnDone
<1>4. ASSUME srv[s].off < srv[s].size, n > 0, NEW buf,
             buf = Fill(Cleared(srv[s].cur), [j \in 1 .. n |-> <<"body", srv[s].off + j>>]),
             srv' = [srv EXCEPT ![s].at = "body", ![s].cur = buf, ![s].out = buf, ![s].off = @ + n],
             UNCHANGED <<res, conn>>
      PROVE  Done(s)
  <2>1. /\ [j \in 1 .. n |-> <<"body", srv[s].off + j>>] \in Seq(Item)
        /\ srv[s].off + n \in Nat
    BY <1>2, <1>4, CopyIs
  <2>2. buf \in Seq(Item)
    BY <1>4, <2>1, FillCleared
  <2> DEFINE t == [srv[s] EXCEPT !.at = "body", !.cur = buf, !.out = buf, !.off = srv[s].off + n]
  <2>3. t \in TaskType /\ t.k = srv[s].k /\ t.at = "body"
    BY <1>0, <2>1, <2>2 DEF TaskType, Writing
  <2>4. srv' = [srv EXCEPT ![s] = t]
    BY <1>4
  <2> HIDE DEF t
  <2> QED
    BY <1>0, <1>1, <1>a, <1>4, <2>3, <2>4, StepDone
<1>5. CASE /\ srv' = [srv EXCEPT ![s].at = "read", ![s].k = 0, ![s].cur = << >>]
           /\ res' = LeaseBack(s, TRUE)
           /\ UNCHANGED conn
  <2> DEFINE t == [srv[s] EXCEPT !.at = "read", !.k = 0, !.cur = << >>]
  <2>1. t \in TaskType /\ t.k = 0 /\ t.at = "read"
    <3>1. << >> \in Seq(Item)
      BY EmptySeq
    <3> QED
      BY <1>0, <3>1 DEF TaskType
  <2>2. srv' = [srv EXCEPT ![s] = t]
    BY <1>5
  <2> HIDE DEF t
  <2>3. srv' \in [Slots -> TaskType] /\ Others(s) /\ srv'[s].k = 0 /\ srv'[s].at = "read"
    BY <1>a, <2>1, <2>2 DEF Others
  <2>4. LetGo(s)
    BY <1>0, <1>1, <1>5, <2>3, LeaseBackIs DEF LetGo
  <2>5. Released(s)
    BY <1>0, <2>4 DEF Released
  <2>6. GenType' /\ gen' = gen
    BY <1>0, <1>a, <1>5, GenKept
  <2>7. SrvType'
    BY <1>0, <1>5, <2>3, LeaseBackIs DEF SrvType
  <2> QED
    BY <2>5, <2>6, <2>7 DEF Done, ServeMove
<1> QED
  BY <1>2, <1>3, <1>4, <1>5 DEF CopyChunk

LEMMA ServeDone ==
  ASSUME GenType, SrvType, LeaseInv, SegmentInv, RecordInv, NEW s \in Slots, ServeStep(s)
  PROVE  Done(s)
<1>0. srv[s] \in TaskType /\ conn[s] \in ConnType /\ conn \in [Slots -> ConnType]
  BY TaskFields, ConnFields DEF GenType
<1>1. CASE Accept(s)
  <2> DEFINE t == [srv[s] EXCEPT !.at = IF gen \in {"load_file", "kvload"} THEN "read" ELSE "get"]
  <2>1. /\ t \in TaskType /\ t.k = srv[s].k /\ t.at \in {"read", "get"}
        /\ (gen = "load_wal" => t.at = "get")
    BY <1>0 DEF TaskType
  <2>2. srv' = [srv EXCEPT ![s] = t] /\ UNCHANGED <<genVars, conn, res, segment, next, acked, file>>
    BY <1>1 DEF Accept
  <2> HIDE DEF t
  <2> QED
    BY <1>0, <2>1, <2>2, StepDone DEF LogAt
<1>2. CASE Get(s)
  BY <1>2, GetDone
<1>3. CASE GetFails(s) \/ ReadEof(s) \/ WriteFails(s) \/ KvHangsUp(s)
  BY <1>3, ReturnDone DEF GetFails, ReadEof, WriteFails, KvHangsUp
<1>4. CASE Read(s)
  <2>1. PICK n \in Nat \ {0}, buf \in Seq(Item) :
           /\ n <= Len(conn[s].req)
           /\ srv' = [srv EXCEPT ![s] =
                        [srv[s] EXCEPT !.at = AfterRead, !.cur = buf,
                                       !.out = IF AfterRead = "echo" THEN buf ELSE << >>]]
           /\ conn' = [conn EXCEPT ![s] =
                         [conn[s] EXCEPT !.req = SubSeq(conn[s].req, n + 1, Len(conn[s].req))]]
    BY <1>4, ReadIs
  <2>2. srv[s].at = "read" /\ UNCHANGED <<genVars, res, segment, next, acked, file>>
    BY <1>4 DEF Read
  <2>3. SubSeq(conn[s].req, n + 1, Len(conn[s].req)) \in Seq(Item)
    BY <2>1, Cut, ConnFields
  <2>4. conn' \in [Slots -> ConnType]
    <3>1. [conn[s] EXCEPT !.req = SubSeq(conn[s].req, n + 1, Len(conn[s].req))] \in ConnType
      BY <1>0, <2>3 DEF ConnType
    <3> QED
      BY <1>0, <2>1, <3>1
  <2> DEFINE t == [srv[s] EXCEPT !.at = AfterRead, !.cur = buf,
                                 !.out = IF AfterRead = "echo" THEN buf ELSE << >>]
  <2>5. t \in TaskType /\ t.k = srv[s].k /\ t.at = AfterRead
    <3>1. AfterRead \in {"append", "open", "echo"} /\ << >> \in Seq(Item)
      BY AfterReadIs, EmptySeq
    <3> QED
      BY <1>0, <3>1 DEF TaskType, Writing
  <2>6. srv' = [srv EXCEPT ![s] = t]
    BY <2>1
  <2> HIDE DEF t
  <2> QED
    BY <2>2, <2>4, <2>5, <2>6, AfterReadIs, StepDone DEF LogAt
<1>5. CASE WriteAll(s)
  BY <1>5, WriteDone
<1>6. CASE AppendRecord(s)
  BY <1>6, AppendDone
<1>7. CASE SyncData(s)
  BY <1>7, SyncDone
<1>8. CASE OpenFile(s)
  <2>0. srv[s].at = "open" /\ UNCHANGED <<genVars, conn, res, segment, next, acked, file>>
    BY <1>8 DEF OpenFile
  <2>1. gen # "load_wal" /\ << >> \in Seq(Item) /\ file.len \in Nat /\ 0 \in Nat
    BY <2>0, EmptySeq DEF RecordInv, LogAt, SrvType
  <2>2. ASSUME NEW out \in Seq(Item),
               srv' = [srv EXCEPT ![s].at = "reply", ![s].cur = << >>, ![s].out = out]
        PROVE  Done(s)
    <3> DEFINE t == [srv[s] EXCEPT !.at = "reply", !.cur = << >>, !.out = out]
    <3>1. t \in TaskType /\ t.k = srv[s].k /\ t.at = "reply"
      BY <1>0, <2>1 DEF TaskType, Writing
    <3>2. srv' = [srv EXCEPT ![s] = t]
      BY <2>2
    <3> HIDE DEF t
    <3> QED
      BY <1>0, <2>0, <2>1, <3>1, <3>2, StepDone
  <2>3. ASSUME NEW out \in Seq(Item),
               srv' = [srv EXCEPT ![s].at = "header", ![s].cur = << >>, ![s].out = out,
                                  ![s].size = file.len, ![s].off = 0]
        PROVE  Done(s)
    <3> DEFINE t == [srv[s] EXCEPT !.at = "header", !.cur = << >>, !.out = out,
                                   !.size = file.len, !.off = 0]
    <3>1. t \in TaskType /\ t.k = srv[s].k /\ t.at = "header"
      BY <1>0, <2>1 DEF TaskType, Writing
    <3>2. srv' = [srv EXCEPT ![s] = t]
      BY <2>3
    <3> HIDE DEF t
    <3> QED
      BY <1>0, <2>0, <2>1, <3>1, <3>2, StepDone
  <2> QED
    BY <1>8, <2>1, <2>2, <2>3, AnswerType DEF OpenFile
<1>9. CASE CopyChunk(s)
  BY <1>9, CopyDone
<1> QED
  BY <1>1, <1>2, <1>3, <1>4, <1>5, <1>6, <1>7, <1>8, <1>9 DEF ServeStep

-----------------------------------------------------------------------------
(* Every step of a server keeps the invariant. *)

LEMMA LeaseStep ==
  ASSUME SrvType, LeaseInv, NEW s \in Slots, ServeMove(s), gen' = gen
  PROVE  LeaseInv'
<1>0. \A t \in Slots : srv[t].k \in {0} \cup Resources
  BY TaskFields
<1>a. \A t \in Slots : srv[t].k # 0 => res[srv[t].k].place = "leased" /\ srv[t].k \in Resources
  BY <1>0 DEF LeaseInv
<1>b. \A t, u \in Slots : srv[t].k = srv[u].k /\ srv[t].k # 0 => t = u
  BY DEF LeaseInv
<1>c. \A t \in Slots : gen = "load_wal" /\ srv[t].at \notin {"none", "get"} => srv[t].k # 0
  BY DEF LeaseInv
<1>1. CASE Stepped(s)
  <2>1. \A t \in Slots : srv'[t].k = srv[t].k
    BY <1>1 DEF Stepped, Others
  <2>2. \A t \in Slots : gen = "load_wal" /\ srv'[t].at \notin {"none", "get"} => srv'[t].k # 0
    BY <1>c, <1>1, <2>1 DEF Stepped, Others
  <2> QED
    BY <1>a, <1>b, <1>1, <2>1, <2>2 DEF Stepped, LeaseInv
<1>2. ASSUME LetGo(s) PROVE LeaseInv'
  <2>1. \A t \in Slots : t # s /\ srv[t].k # 0 => res'[srv[t].k] = res[srv[t].k]
    BY <1>a, <1>b, <1>2 DEF LetGo
  <2>2. srv'[s].k = 0 /\ Others(s) /\ (gen = "load_wal" => srv'[s].at = "none")
    BY <1>2 DEF LetGo
  <2>3. \A t \in Slots : srv'[t].k # 0 => t # s /\ srv'[t] = srv[t]
    BY <2>2 DEF Others
  <2>4. \A t \in Slots : gen = "load_wal" /\ srv'[t].at \notin {"none", "get"} => srv'[t].k # 0
    BY <1>c, <2>2 DEF Others
  <2>5. \A t \in Slots : srv'[t].k # 0 => res'[srv'[t].k].place = "leased"
    BY <1>a, <2>1, <2>3
  <2>6. \A t, u \in Slots : srv'[t].k = srv'[u].k /\ srv'[t].k # 0 => t = u
    BY <1>b, <2>3
  <2> QED
    BY <2>4, <2>5, <2>6 DEF LeaseInv
<1>3. ASSUME NEW k \in Resources, Lent(s, k) PROVE LeaseInv'
  <2>1. \A t \in Slots : srv[t].k # k
    BY <1>a, <1>3, ResourcesNat DEF Lent
  <2>2. /\ srv'[s].k = k /\ Others(s) /\ res'[k].place = "leased" /\ k # 0
        /\ \A j \in Resources : j # k => res'[j] = res[j]
    BY <1>3, ResourcesNat DEF Lent
  <2>3. \A t \in Slots : gen = "load_wal" /\ srv'[t].at \notin {"none", "get"} => srv'[t].k # 0
    BY <1>c, <2>2 DEF Others
  <2>4. \A t \in Slots : srv'[t].k # 0 => res'[srv'[t].k].place = "leased"
    BY <1>a, <2>1, <2>2 DEF Others
  <2>5. \A t, u \in Slots : srv'[t].k = srv'[u].k /\ srv'[t].k # 0 => t = u
    BY <1>b, <2>1, <2>2 DEF Others
  <2> QED
    BY <2>3, <2>4, <2>5 DEF LeaseInv
<1>4. ASSUME NEW k \in Resources, NEW g \in 1 .. MaxSegments,
             Written(s, k, g) \/ Synced(s, k, g) \/ Confirmed(s, k, g)
      PROVE  LeaseInv'
  <2>1. /\ \A t \in Slots : srv'[t].k = srv[t].k
        /\ \A t \in Slots : srv'[t].at \notin {"none", "get"} => srv[t].at \notin {"none", "get"}
    BY <1>4 DEF Written, Synced, Confirmed, Logging, Others
  <2>2. \A j \in Resources : res'[j].place = res[j].place
    BY <1>4 DEF Written, Synced, Confirmed
  <2> QED
    BY <1>a, <1>b, <1>c, <2>1, <2>2 DEF LeaseInv
<1> QED
  BY <1>1, <1>2, <1>3, <1>4 DEF ServeMove, Released, Torn

LEMMA HomeStep ==
  ASSUME SrvType, HomeInv, NEW s \in Slots, ServeMove(s), gen' = gen
  PROVE  HomeInv'
<1>1. CASE Stepped(s)
  BY <1>1 DEF Stepped, HomeInv, BufferHome
<1>2. ASSUME LetGo(s) PROVE HomeInv'
  BY <1>2 DEF LetGo, HomeInv, BufferHome
<1>3. ASSUME NEW k \in Resources, Lent(s, k) PROVE HomeInv'
  BY <1>3 DEF Lent, HomeInv, BufferHome
<1>4. ASSUME NEW k \in Resources, NEW g \in 1 .. MaxSegments,
             Written(s, k, g) \/ Synced(s, k, g) \/ Confirmed(s, k, g)
      PROVE  HomeInv'
  <2>1. \A j \in Resources : res'[j].place = res[j].place /\ res'[j].home = res[j].home
    BY <1>4 DEF Written, Synced, Confirmed
  <2> QED
    BY <2>1 DEF HomeInv, BufferHome
<1> QED
  BY <1>1, <1>2, <1>3, <1>4 DEF ServeMove, Released, Torn

LEMMA SegmentStep ==
  ASSUME SrvType, LeaseInv, SegmentInv, NEW s \in Slots, ServeMove(s), gen' = gen
  PROVE  SegmentInv'
<1> SUFFICES ASSUME gen = "load_wal" PROVE SegmentInv'
  BY DEF SegmentInv
<1>0. /\ next \in 0 .. MaxSegments /\ MaxSegments \in Nat
      /\ \A k \in Resources : res[k].offset \in Nat
      /\ \A g \in 1 .. MaxSegments : Len(segment[g].recs) \in Nat
  BY ResourceFields, SegmentFields, ServicesAssumption DEF SrvType
<1>a. \A j \in 1 .. next : j \in 1 .. MaxSegments
  BY <1>0
<1>1. CASE Stepped(s)
  BY <1>1 DEF Stepped, SegmentInv
<1>2. ASSUME LetGo(s),
             \A g \in 1 .. MaxSegments : \A n \in Nat :
               n <= Len(segment[g].recs) => n <= Len(segment'[g].recs)
      PROVE  SegmentInv'
  <2>1. \A k \in Resources : res'[k].place # "closed" => res[k].place # "closed"
    BY <1>2, ResourcesNat DEF LetGo, LeaseInv
  <2>2. \A k \in Resources : res'[k].seg = res[k].seg /\ res'[k].offset = res[k].offset
    BY <1>2 DEF LetGo
  <2>3. \A k \in Resources : res'[k].place # "closed" =>
          res[k].seg \in 1 .. next /\ res[k].offset <= Len(segment'[res[k].seg].recs)
    BY <1>0, <1>a, <1>2, <2>1 DEF SegmentInv
  <2> QED
    BY <1>2, <2>1, <2>2, <2>3 DEF LetGo, SegmentInv
<1>3. ASSUME NEW k \in Resources, Lent(s, k) PROVE SegmentInv'
  <2>1. CASE UNCHANGED <<segment, next>>
    <3>1. /\ \A j \in Resources : res'[j].place # "closed" => res[j].place # "closed"
          /\ \A j \in Resources : res'[j].place # "closed" =>
               res'[j].seg = res[j].seg /\ res'[j].offset = res[j].offset
      BY <1>0, <1>3, <2>1 DEF Lent
    <3> QED
      BY <2>1, <3>1 DEF SegmentInv
  <2>2. CASE /\ next' = next + 1 /\ next' \in 1 .. MaxSegments
             /\ res'[k].seg = next' /\ res'[k].offset = 0
             /\ segment'[next'] = Blank
             /\ \A g \in 1 .. MaxSegments : g # next' => segment'[g] = segment[g]
    <3>1. \A j \in Resources : j # k => res'[j] = res[j]
      BY <1>3 DEF Lent
    <3>2. ASSUME NEW j \in Resources, j # k, res'[j].place # "closed"
          PROVE  /\ res'[j].seg \in 1 .. next' /\ res'[j].seg # next'
                 /\ res'[j].offset <= Len(segment'[res'[j].seg].recs)
      <4>1. res[j].seg \in 1 .. next /\ res[j].offset <= Len(segment[res[j].seg].recs)
        BY <3>1, <3>2 DEF SegmentInv
      <4>2. res[j].seg \in 1 .. MaxSegments /\ res[j].seg # next' /\ res[j].seg \in 1 .. next'
        BY <1>0, <2>2, <4>1
      <4> QED
        BY <2>2, <3>1, <3>2, <4>1, <4>2
    <3>3. Len(segment'[next'].recs) \in Nat
      BY <2>2 DEF Blank
    <3>4. res'[k].seg \in 1 .. next' /\ res'[k].offset <= Len(segment'[res'[k].seg].recs)
      BY <1>0, <2>2, <3>3
    <3> QED
      BY <2>2, <3>1, <3>2, <3>4 DEF SegmentInv
  <2> QED
    BY <1>3, <2>1, <2>2 DEF Lent
<1>4. ASSUME NEW k \in Resources, NEW g \in 1 .. MaxSegments, Written(s, k, g)
      PROVE  SegmentInv'
  <2>0. /\ k = srv[s].k /\ g = res[k].seg /\ next' = next
        /\ \A f \in 1 .. MaxSegments : f # g => segment'[f] = segment[f]
    BY <1>4 DEF Written, Logging
  <2>1. res[k].place = "leased"
    BY <2>0, ResourcesNat DEF LeaseInv
  <2>2. \A j \in Resources : res'[j].place = res[j].place /\ res'[j].seg = res[j].seg
    BY <1>4, <2>0 DEF Written
  <2>3. ASSUME NEW j \in Resources, res'[j].place # "closed"
        PROVE  res'[j].seg \in 1 .. next' /\ res'[j].offset <= Len(segment'[res'[j].seg].recs)
    <3>1. res[j].seg \in 1 .. next /\ res[j].offset <= Len(segment[res[j].seg].recs)
      BY <2>2, <2>3 DEF SegmentInv
    <3>2. CASE j = k
      <4>0. Len(srv[s].cur) \in Nat
        BY TaskLens
      <4>1. /\ res'[k].offset = res[k].offset + Len(srv[s].cur)
            /\ Len(segment'[g].recs) >= res[k].offset + Len(srv[s].cur)
            /\ Len(segment'[g].recs) \in Nat
        BY <1>4 DEF Written, Extended
      <4> QED
        BY <1>0, <2>0, <2>2, <3>1, <3>2, <4>0, <4>1
    <3>3. CASE j # k
      <4>1. res[j].seg # g
        BY <2>0, <2>1, <2>2, <2>3, <3>3 DEF SegmentInv
      <4>2. res[j].seg \in 1 .. MaxSegments /\ res'[j] = res[j]
        BY <1>4, <1>0, <1>a, <3>1, <3>3 DEF Written
      <4> QED
        BY <2>0, <3>1, <4>1, <4>2
    <3> QED
      BY <3>2, <3>3
  <2> QED
    BY <2>2, <2>3 DEF SegmentInv
<1>5. ASSUME NEW k \in Resources, NEW g \in 1 .. MaxSegments, Torn(s, k, g)
      PROVE  SegmentInv'
  <2>1. ASSUME NEW f \in 1 .. MaxSegments, NEW n \in Nat, n <= Len(segment[f].recs)
        PROVE  n <= Len(segment'[f].recs)
    <3>1. CASE f = g
      <4>1. Len(segment'[g].recs) \in Nat /\ Len(segment'[g].recs) >= Len(segment[g].recs)
        BY <1>5 DEF Torn, Extended
      <4> QED
        BY <1>0, <2>1, <3>1, <4>1
    <3>2. CASE f # g
      BY <1>5, <2>1, <3>2 DEF Torn, Logging
    <3> QED
      BY <3>1, <3>2
  <2>2. LetGo(s)
    BY <1>5 DEF Torn
  <2> QED
    BY <1>2, <2>1, <2>2
<1>6. ASSUME NEW k \in Resources, NEW g \in 1 .. MaxSegments,
             Synced(s, k, g) \/ Confirmed(s, k, g)
      PROVE  SegmentInv'
  <2>1. (\A f \in 1 .. MaxSegments : segment'[f].recs = segment[f].recs) /\ res' = res /\ next' = next
    BY <1>6 DEF Synced, Confirmed, Logging
  <2> QED
    BY <1>a, <2>1 DEF SegmentInv
<1>7. CASE Released(s)
  BY <1>2, <1>7 DEF Released
<1> QED
  BY <1>1, <1>3, <1>4, <1>5, <1>6, <1>7 DEF ServeMove

\* A task that has written is left alone by the steps of the others.
LEMMA OthersLog ==
  ASSUME SrvType, LeaseInv, SegmentInv, gen = "load_wal", NEW s \in Slots, ServeMove(s),
         NEW t \in Slots, t # s, srv[t].at \in {"sync", "ack"}
  PROVE  /\ srv'[t] = srv[t] /\ srv[t].k \in Resources
         /\ res[srv[t].k].seg \in 1 .. MaxSegments
         /\ res'[srv[t].k] = res[srv[t].k]
         /\ segment'[res[srv[t].k].seg] = segment[res[srv[t].k].seg]
<1>0. PICK k \in Resources : k = srv[t].k /\ res[k].place = "leased" /\ srv[s].k # k
  BY TaskFields DEF LeaseInv
<1>1. PICK g \in 1 .. MaxSegments : g = res[k].seg /\ g <= next /\ next \in Nat
  <2>1. res[k].seg \in 1 .. next /\ next \in 0 .. MaxSegments
    BY <1>0 DEF SegmentInv, SrvType
  <2> QED
    BY <2>1, ServicesAssumption
<1>2. \A j \in Resources : j # k /\ res[j].place # "closed" => res[j].seg # g
  BY <1>0, <1>1 DEF SegmentInv
<1> SUFFICES srv'[t] = srv[t] /\ res'[k] = res[k] /\ segment'[g] = segment[g]
  BY <1>0, <1>1
<1>3. CASE Stepped(s) \/ Released(s)
  BY <1>0, <1>3 DEF Stepped, Released, LetGo, Others
<1>4. ASSUME NEW j \in Resources, Lent(s, j)
      PROVE  srv'[t] = srv[t] /\ res'[k] = res[k] /\ segment'[g] = segment[g]
  <2>1. j # k /\ srv'[t] = srv[t] /\ res'[k] = res[k]
    BY <1>0, <1>4 DEF Lent, Others
  <2>2. CASE next' = next + 1
    <3>1. g # next'
      BY <1>1, <2>2
    <3> QED
      BY <1>4, <2>1, <3>1 DEF Lent
  <2> QED
    BY <1>4, <2>1, <2>2 DEF Lent
<1>5. ASSUME NEW j \in Resources, NEW f \in 1 .. MaxSegments,
             Torn(s, j, f) \/ Written(s, j, f) \/ Synced(s, j, f) \/ Confirmed(s, j, f)
      PROVE  srv'[t] = srv[t] /\ res'[k] = res[k] /\ segment'[g] = segment[g]
  <2>1. /\ j = srv[s].k /\ f = res[j].seg /\ srv'[t] = srv[t]
        /\ \A h \in 1 .. MaxSegments : h # f => segment'[h] = segment[h]
    BY <1>5 DEF Torn, Written, Synced, Confirmed, Logging, Others
  <2>2. j # k /\ res[j].place = "leased"
    BY <1>0, <2>1, ResourcesNat DEF LeaseInv
  <2>3. f # g
    BY <1>2, <2>1, <2>2
  <2>4. res'[k] = res[k]
    BY <1>0, <1>5, <2>2 DEF Torn, LetGo, Written, Synced, Confirmed
  <2> QED
    BY <2>1, <2>3, <2>4
<1> QED
  BY <1>3, <1>4, <1>5 DEF ServeMove

LEMMA RecordStep ==
  ASSUME SrvType, LeaseInv, SegmentInv, RecordInv, NEW s \in Slots, ServeMove(s), gen' = gen
  PROVE  RecordInv'
<1> DEFINE Fine(t) ==
      /\ srv'[t].at \in {"append", "sync", "ack"} => gen = "load_wal"
      /\ gen = "load_wal" => srv'[t].at \in LogAt
      /\ srv'[t].at \in {"sync", "ack"} =>
           Len(srv'[t].cur) <= Here(t)' /\ Holds(Log(t)'.recs, Here(t)', srv'[t].cur)
      /\ srv'[t].at = "ack" =>
           Here(t)' <= Len(Log(t)'.disk) /\ Holds(Log(t)'.disk, Here(t)', srv'[t].cur)
<1>1. ASSUME NEW t \in Slots, t # s PROVE Fine(t)
  <2>0. srv'[t] = srv[t]
    BY <1>1 DEF ServeMove, Stepped, Released, LetGo, Lent, Torn, Written, Synced, Confirmed,
                Logging, Others
  <2>1. CASE srv[t].at \notin {"sync", "ack"}
    BY <2>0, <2>1 DEF RecordInv
  <2>2. CASE srv[t].at \in {"sync", "ack"}
    <3>0. gen = "load_wal" /\ srv[t].at \in LogAt
      BY <2>2 DEF RecordInv
    <3>1. /\ res'[srv[t].k] = res[srv[t].k]
          /\ segment'[res[srv[t].k].seg] = segment[res[srv[t].k].seg]
      BY <1>1, <2>2, <3>0, OthersLog
    <3>2. Here(t)' = Here(t) /\ Log(t)' = Log(t)
      BY <2>0, <3>1 DEF Here, Log
    <3>3. /\ Len(srv[t].cur) <= Here(t) /\ Holds(Log(t).recs, Here(t), srv[t].cur)
          /\ srv[t].at = "ack" =>
               Here(t) <= Len(Log(t).disk) /\ Holds(Log(t).disk, Here(t), srv[t].cur)
      BY <2>2 DEF RecordInv
    <3> QED
      BY <2>0, <3>0, <3>2, <3>3
  <2> QED
    BY <2>1, <2>2
<1>2. Fine(s)
  <2>1. CASE Stepped(s) \/ LetGo(s) \/ \E k \in Resources : Lent(s, k)
    BY <2>1 DEF Stepped, LetGo, Lent, LogAt
  <2>2. ASSUME NEW k \in Resources, NEW g \in 1 .. MaxSegments,
               Written(s, k, g) \/ Synced(s, k, g) \/ Confirmed(s, k, g)
        PROVE  Fine(s)
    <3>0. /\ gen = "load_wal" /\ srv[s].at \in {"append", "sync", "ack"}
          /\ k = srv[s].k /\ g = res[k].seg /\ srv'[s].k = k /\ srv'[s].cur = srv[s].cur
      BY <2>2 DEF Written, Synced, Confirmed, Logging
    <3>1. Len(srv[s].cur) \in Nat /\ res[k].offset \in Nat
      BY TaskLens, ResourceFields
    <3>2. res[k].place = "leased" /\ res[k].offset <= Len(segment[g].recs)
      BY <3>0, ResourcesNat DEF LeaseInv, SegmentInv
    <3>3. CASE Written(s, k, g)
      <4>0. PICK n \in Nat : n = res[k].offset + Len(srv[s].cur)
        BY <3>1
      <4>1. /\ srv'[s].at = "sync" /\ res'[k].seg = g
            /\ res'[k].offset = n /\ Holds(segment'[g].recs, n, srv[s].cur)
        BY <3>3, <4>0 DEF Written
      <4>2. Here(s)' = n /\ Log(s)' = segment'[g]
        BY <3>0, <4>1 DEF Here, Log
      <4>3. Len(srv[s].cur) <= n
        BY <3>1, <4>0
      <4> QED
        BY <3>0, <4>1, <4>2, <4>3 DEF LogAt
    <3>4. CASE Synced(s, k, g)
      <4>1. /\ srv[s].at = "sync" /\ srv'[s].at = "ack" /\ res' = res
            /\ segment'[g].recs = segment[g].recs /\ segment'[g].disk = segment[g].recs
        BY <3>4 DEF Synced
      <4>2. Here(s) = res[k].offset /\ Here(s)' = res[k].offset
            /\ Log(s) = segment[g] /\ Log(s)' = segment'[g]
        BY <3>0, <4>1 DEF Here, Log
      <4>3. /\ Len(srv[s].cur) <= res[k].offset
            /\ Holds(segment[g].recs, res[k].offset, srv[s].cur)
        BY <4>1, <4>2 DEF RecordInv
      <4> QED
        BY <3>0, <3>2, <4>1, <4>2, <4>3 DEF LogAt
    <3>5. CASE Confirmed(s, k, g)
      <4>1. srv[s].at = "ack" /\ srv'[s].at \in {"ack", "read"} /\ res' = res /\ segment' = segment
        BY <3>5 DEF Confirmed
      <4>2. Here(s)' = Here(s) /\ Log(s)' = Log(s)
        BY <3>0, <4>1 DEF Here, Log
      <4>3. /\ Len(srv[s].cur) <= Here(s) /\ Holds(Log(s).recs, Here(s), srv[s].cur)
            /\ Here(s) <= Len(Log(s).disk) /\ Holds(Log(s).disk, Here(s), srv[s].cur)
        BY <4>1 DEF RecordInv
      <4> QED
        BY <3>0, <4>1, <4>2, <4>3 DEF LogAt
    <3> QED
      BY <2>2, <3>3, <3>4, <3>5
  <2> QED
    BY <2>1, <2>2 DEF ServeMove, Released, Torn
<1> HIDE DEF Fine
<1>3. \A t \in Slots : Fine(t)
  BY <1>1, <1>2
<1> QED
  BY <1>3 DEF RecordInv, Fine

\* What is written past the tail leaves the acknowledged records alone.
LEMMA ExtendedKeeps ==
  ASSUME SrvType, NEW k \in Resources, NEW g \in 1 .. MaxSegments, Extended(k, g),
         \A f \in 1 .. MaxSegments : f # g => segment'[f] = segment[f],
         NEW a \in acked, Kept(a), a.seg = g => a.pos <= res[k].offset
  PROVE  /\ a.pos <= Len(segment'[a.seg].recs) /\ segment'[a.seg].recs[a.pos] = a.rec
         /\ a.pos <= Len(segment'[a.seg].disk) /\ segment'[a.seg].disk[a.pos] = a.rec
<1>0. a.seg \in 1 .. MaxSegments /\ a.pos \in Nat \ {0} /\ res[k].offset \in Nat
  BY ResourceFields DEF SrvType
<1>1. CASE a.seg # g
  BY <1>0, <1>1 DEF Kept
<1>2. CASE a.seg = g
  <2>0. PICK n \in Nat : n = res[k].offset
    BY <1>0
  <2>1. /\ segment'[g].disk = segment[g].disk
        /\ Len(segment'[g].recs) \in Nat /\ Len(segment'[g].recs) >= Len(segment[g].recs)
        /\ \A i \in 1 .. n : segment'[g].recs[i] = segment[g].recs[i]
    BY <2>0 DEF Extended
  <2>2. a.pos \in 1 .. n
    BY <1>0, <1>2, <2>0
  <2>3. Len(segment[g].recs) \in Nat
    BY SegmentFields
  <2>4. a.pos <= Len(segment'[g].recs)
    BY <1>0, <1>2, <2>1, <2>3 DEF Kept
  <2> QED
    BY <1>2, <2>1, <2>2, <2>4 DEF Kept
<1> QED
  BY <1>1, <1>2

LEMMA AckedStep ==
  ASSUME SrvType, LeaseInv, SegmentInv, RecordInv, AckedInv, NEW s \in Slots, ServeMove(s),
         gen' = gen
  PROVE  AckedInv'
<1>0. /\ next \in 0 .. MaxSegments /\ next \in Nat
      /\ \A k \in Resources : res[k].offset \in Nat
      /\ \A a \in acked : a.seg \in 1 .. MaxSegments /\ a.seg \in Nat /\ a.pos \in Nat \ {0}
  BY ResourceFields, ServicesAssumption DEF SrvType
<1>1. CASE Stepped(s)
  BY <1>1 DEF Stepped, AckedInv, Kept
<1>2. ASSUME LetGo(s),
             \A a \in acked :
               /\ a.pos <= Len(segment'[a.seg].recs) /\ segment'[a.seg].recs[a.pos] = a.rec
               /\ a.pos <= Len(segment'[a.seg].disk) /\ segment'[a.seg].disk[a.pos] = a.rec
      PROVE  AckedInv'
  <2>0. LetGo(s)
    BY <1>2
  <2>1. \A k \in Resources : res'[k].place # "closed" => res[k].place # "closed"
    BY <2>0, ResourcesNat DEF LetGo, LeaseInv
  <2>2. \A k \in Resources : res'[k].seg = res[k].seg /\ res'[k].offset = res[k].offset
    BY <2>0 DEF LetGo
  <2> QED
    BY <1>2, <2>1, <2>2 DEF LetGo, AckedInv, Kept
<1>3. ASSUME NEW k \in Resources, Lent(s, k) PROVE AckedInv'
  <2>0. acked' = acked /\ \A j \in Resources : j # k => res'[j] = res[j]
    BY <1>3 DEF Lent
  <2> SUFFICES ASSUME NEW a \in acked PROVE Kept(a)'
    BY <2>0 DEF AckedInv
  <2>1. gen = "load_wal" /\ Kept(a)
    BY DEF AckedInv
  <2>2. CASE UNCHANGED <<segment, next>> /\ res[k].place = "idle"
             /\ res'[k].seg = res[k].seg /\ res'[k].offset = res[k].offset
    BY <2>0, <2>1, <2>2 DEF Kept
  <2>3. CASE /\ next' = next + 1 /\ res'[k].seg = next'
             /\ \A g \in 1 .. MaxSegments : g # next' => segment'[g] = segment[g]
    <3>1. a.seg <= next' /\ a.seg # next' /\ a.seg \in 1 .. MaxSegments
      BY <1>0, <2>1, <2>3 DEF Kept
    <3>2. segment'[a.seg] = segment[a.seg]
      BY <2>3, <3>1
    <3>3. ASSUME NEW j \in Resources, res'[j].place # "closed", res'[j].seg = a.seg
          PROVE  a.pos <= res'[j].offset
      <4>1. res'[j] = res[j]
        BY <2>0, <2>3, <3>1, <3>3
      <4> QED
        BY <2>1, <3>3, <4>1 DEF Kept
    <3> QED
      BY <2>1, <3>1, <3>2, <3>3 DEF Kept
  <2> QED
    BY <1>3, <2>1, <2>2, <2>3 DEF Lent
<1>4. ASSUME NEW k \in Resources, NEW g \in 1 .. MaxSegments, Logging(s, k, g)
      PROVE  /\ gen = "load_wal" /\ next' = next /\ g = res[k].seg
             /\ \A f \in 1 .. MaxSegments : f # g => segment'[f] = segment[f]
             /\ res[k].place = "leased" /\ g <= next
             /\ res[k].offset <= Len(segment[g].recs)
             /\ \A a \in acked : a.seg = g => a.pos <= res[k].offset
  <2>0. /\ gen = "load_wal" /\ k = srv[s].k /\ g = res[k].seg /\ next' = next
        /\ \A f \in 1 .. MaxSegments : f # g => segment'[f] = segment[f]
    BY <1>4 DEF Logging
  <2>1. res[k].place = "leased"
    BY <2>0, ResourcesNat DEF LeaseInv
  <2>2. res[k].seg \in 1 .. next /\ res[k].offset <= Len(segment[g].recs)
    BY <2>0, <2>1 DEF SegmentInv
  <2> QED
    BY <1>0, <2>0, <2>1, <2>2 DEF AckedInv, Kept
<1>5. ASSUME NEW k \in Resources, NEW g \in 1 .. MaxSegments, Torn(s, k, g)
      PROVE  AckedInv'
  <2>1. Logging(s, k, g) /\ Extended(k, g) /\ LetGo(s)
    BY <1>5 DEF Torn
  <2>2. \A a \in acked :
               /\ a.pos <= Len(segment'[a.seg].recs) /\ segment'[a.seg].recs[a.pos] = a.rec
               /\ a.pos <= Len(segment'[a.seg].disk) /\ segment'[a.seg].disk[a.pos] = a.rec
    BY <1>4, <2>1, ExtendedKeeps DEF AckedInv
  <2> QED
    BY <1>2, <2>1, <2>2
<1>6. ASSUME NEW k \in Resources, NEW g \in 1 .. MaxSegments, Written(s, k, g)
      PROVE  AckedInv'
  <2>1. Logging(s, k, g) /\ Extended(k, g) /\ acked' = acked
    BY <1>6 DEF Written
  <2> SUFFICES ASSUME NEW a \in acked PROVE Kept(a)'
    BY <1>4, <2>1 DEF AckedInv
  <2>2. Kept(a) /\ a.pos \in Nat \ {0} /\ a.seg <= next'
    BY <1>0, <1>4, <2>1 DEF AckedInv, Kept
  <2>3. /\ a.pos <= Len(segment'[a.seg].recs) /\ segment'[a.seg].recs[a.pos] = a.rec
        /\ a.pos <= Len(segment'[a.seg].disk) /\ segment'[a.seg].disk[a.pos] = a.rec
    BY <1>4, <2>1, <2>2, ExtendedKeeps
  <2>4. ASSUME NEW j \in Resources, res'[j].place # "closed", res'[j].seg = a.seg
        PROVE  a.pos <= res'[j].offset
    <3>1. CASE j = k
      <4>0. Len(srv[s].cur) \in Nat
        BY TaskLens
      <4>1. res'[k].seg = g /\ res'[k].offset = res[k].offset + Len(srv[s].cur)
        BY <1>6 DEF Written
      <4>2. a.pos <= res[k].offset
        BY <1>4, <2>1, <2>4, <3>1, <4>1
      <4> QED
        BY <1>0, <2>2, <3>1, <4>0, <4>1, <4>2
    <3>2. CASE j # k
      BY <1>6, <2>2, <2>4, <3>2 DEF Written, Kept
    <3> QED
      BY <3>1, <3>2
  <2> QED
    BY <2>2, <2>3, <2>4 DEF Kept
<1>7. ASSUME NEW k \in Resources, NEW g \in 1 .. MaxSegments, Synced(s, k, g)
      PROVE  AckedInv'
  <2>1. /\ Logging(s, k, g) /\ acked' = acked /\ res' = res
        /\ segment'[g].recs = segment[g].recs /\ segment'[g].disk = segment[g].recs
    BY <1>7 DEF Synced
  <2> SUFFICES ASSUME NEW a \in acked PROVE Kept(a)'
    BY <1>4, <2>1 DEF AckedInv
  <2> QED
    BY <1>0, <1>4, <2>1 DEF AckedInv, Kept
<1>8. ASSUME NEW k \in Resources, NEW g \in 1 .. MaxSegments, Confirmed(s, k, g)
      PROVE  AckedInv'
  <2>1. /\ Logging(s, k, g) /\ UNCHANGED <<res, segment>> /\ srv[s].at = "ack"
        /\ \A a \in acked' :
             \/ a \in acked
             \/ \E j \in 1 .. Len(srv[s].cur) :
                  a = [seg |-> g, pos |-> res[k].offset - Len(srv[s].cur) + j, rec |-> srv[s].cur[j]]
    BY <1>8 DEF Confirmed
  <2>2. gen = "load_wal" /\ next' = next
    BY <1>4, <2>1
  <2>3. ASSUME NEW a \in acked PROVE Kept(a)'
    BY <2>1, <2>2 DEF AckedInv, Kept
  <2>4. ASSUME NEW a, NEW j \in 1 .. Len(srv[s].cur),
               a = [seg |-> g, pos |-> res[k].offset - Len(srv[s].cur) + j, rec |-> srv[s].cur[j]]
        PROVE  Kept(a)'
    <3>1. k = srv[s].k /\ g = res[k].seg
      BY <2>1 DEF Logging
    <3>2. PICK n \in Nat : n = res[k].offset
      BY <1>0
    <3>3. PICK m \in Nat : m = Len(srv[s].cur)
      BY TaskLens
    <3>4. /\ m <= n /\ Holds(segment[g].recs, n, srv[s].cur)
          /\ n <= Len(segment[g].disk) /\ Holds(segment[g].disk, n, srv[s].cur)
      BY <2>1, <3>1, <3>2, <3>3 DEF RecordInv, Here, Log
    <3>5. n <= Len(segment[g].recs) /\ g <= next /\ res[k].place = "leased"
      BY <1>4, <2>1, <3>2
    <3>a. j \in 1 .. m /\ m <= n
      BY <3>3, <3>4
    <3>b. n - m + j \in Nat /\ n - m + j <= n
      BY <3>a
    <3>6. PICK p \in Nat : p = n - m + j /\ p <= n
      BY <3>b
    <3>7. a.seg = g /\ a.pos = p /\ a.rec = srv[s].cur[j]
      BY <2>4, <3>2, <3>3, <3>6
    <3>8. segment[g].recs[p] = srv[s].cur[j] /\ segment[g].disk[p] = srv[s].cur[j]
      BY <3>3, <3>4, <3>6 DEF Holds
    <3>9. p <= Len(segment[g].recs) /\ p <= Len(segment[g].disk)
      <4>1. Len(segment[g].recs) \in Nat /\ Len(segment[g].disk) \in Nat
        BY SegmentFields
      <4> QED
        BY <3>4, <3>5, <3>6, <4>1
    <3>10. \A i \in Resources : res[i].place # "closed" /\ res[i].seg = g => i = k
      BY <2>2, <3>1, <3>5 DEF SegmentInv
    <3> QED
      BY <2>1, <2>2, <3>2, <3>5, <3>6, <3>7, <3>8, <3>9, <3>10 DEF Kept
  <2> QED
    BY <2>1, <2>2, <2>3, <2>4 DEF AckedInv
<1>9. CASE Released(s)
  BY <1>2, <1>9 DEF Released, AckedInv, Kept
<1> QED
  BY <1>1, <1>3, <1>5, <1>6, <1>7, <1>8, <1>9 DEF ServeMove

-----------------------------------------------------------------------------
(* The theorems. *)

LEMMA ServicesInit == Init => ServicesInv
<1> SUFFICES ASSUME Init PROVE ServicesInv
  OBVIOUS
<1>1. GenType
  <2> DEFINE t == [at |-> "start", c |-> 0, sent |-> 0, put |-> 0, got |-> << >>, why |-> "none"]
  <2>1. t \in ThreadType /\ t.at = "start" /\ t.got = << >> /\ t.sent = 0
    <3>1. << >> \in Seq(Item) /\ 0 \in Nat
      BY EmptySeq
    <3> QED
      BY <3>1 DEF ThreadType
  <2>2. th = [i \in Threads |-> t] /\ conn = [s \in Slots |-> Silent]
    BY DEF Init, GenInit
  <2> HIDE DEF t
  <2>3. th \in [Threads -> ThreadType] /\ conn \in [Slots -> ConnType] /\ StreamHeld
    BY <2>1, <2>2, SilentType DEF StreamHeld
  <2>4. \A i \in Threads : th[i].got = << >> /\ Need(i) \in Nat
    <3>1. \A i \in Threads : th[i].sent \in Nat /\ th[i].got = << >>
      BY <2>1, <2>2
    <3> QED
      BY <3>1, LoadAssumption DEF Need, Size
  <2> QED
    BY <2>3, <2>4 DEF GenType, HasRoom
<1>2. SrvType
  <2>1. 0 \in 0 .. MaxSegments /\ [len |-> FileSize, touched |-> FALSE] \in [len : Nat, touched : BOOLEAN]
    BY ServicesAssumption, LoadAssumption
  <2> QED
    BY <2>1, BlankType DEF Init, SrvType
<1>3. /\ \A s \in Slots : srv[s].k = 0 /\ srv[s].at = "none"
      /\ \A k \in Resources : res[k].place = "closed" /\ res[k].home
      /\ acked = {}
  BY DEF Init, Gone, Closed
<1> QED
  BY <1>1, <1>2, <1>3
  DEF ServicesInv, LeaseInv, HomeInv, BufferHome, SegmentInv, RecordInv, LogAt, AckedInv

LEMMA ServicesStep == ServicesInv /\ [Next]_vars => ServicesInv'
<1> SUFFICES ASSUME ServicesInv, [Next]_vars PROVE ServicesInv'
  OBVIOUS
<1>0. GenType /\ SrvType /\ LeaseInv /\ HomeInv /\ SegmentInv /\ RecordInv /\ AckedInv
  BY DEF ServicesInv
<1>1. ASSUME UNCHANGED <<gen, srv, res, segment, next, acked>>, GenType', SrvType'
      PROVE  ServicesInv'
  <2>1. \A s \in Slots : Here(s)' = Here(s) /\ Log(s)' = Log(s)
    BY <1>1 DEF Here, Log
  <2>2. LeaseInv' /\ HomeInv' /\ SegmentInv' /\ AckedInv'
    BY <1>0, <1>1 DEF LeaseInv, HomeInv, BufferHome, SegmentInv, AckedInv, Kept
  <2>3. RecordInv'
    BY <1>0, <1>1, <2>1 DEF RecordInv
  <2> QED
    BY <1>1, <2>2, <2>3 DEF ServicesInv
<1>2. CASE GenNext /\ UNCHANGED srvVars
  BY <1>0, <1>1, <1>2, GenNextType DEF srvVars, SrvType
<1>a. ASSUME UNCHANGED genVars, conn' = conn PROVE GenType' /\ gen' = gen
  BY <1>0, <1>a, GenKept DEF GenType
<1>3. CASE Touch
  <2>1. file' \in [len : Nat, touched : BOOLEAN]
    BY <1>3, ServicesAssumption DEF Touch
  <2>2. GenType' /\ gen' = gen
    BY <1>3, <1>a DEF Touch
  <2> QED
    BY <1>0, <1>1, <1>3, <2>1, <2>2 DEF Touch, SrvType
<1>4. CASE UNCHANGED vars
  <2>1. GenType' /\ gen' = gen
    BY <1>4, <1>a DEF vars
  <2> QED
    BY <1>0, <1>1, <1>4, <2>1 DEF vars, srvVars, SrvType
<1>5. ASSUME NEW s \in Slots, ServeStep(s) PROVE ServicesInv'
  <2>1. GenType' /\ SrvType' /\ gen' = gen /\ ServeMove(s)
    BY <1>0, <1>5, ServeDone DEF Done
  <2> QED
    BY <1>0, <2>1, LeaseStep, HomeStep, SegmentStep, RecordStep, AckedStep DEF ServicesInv
<1>6. ASSUME NEW k \in Resources, Expire(k) PROVE ServicesInv'
  <2>1. /\ res[k].place = "idle" /\ UNCHANGED <<genVars, conn, srv, segment, next, acked, file>>
        /\ res'[k] = Closed /\ \A j \in Resources : j # k => res'[j] = res[j]
        /\ res' \in [Resources -> ResourceType]
    BY <1>0, <1>6, BlankType DEF Expire, SrvType
  <2>2. res'[k].place = "closed" /\ res'[k].home
    BY <2>1 DEF Closed
  <2>3. \A s \in Slots : srv[s].k # 0 => srv[s].k \in Resources /\ res'[srv[s].k] = res[srv[s].k]
    BY <1>0, <2>1, TaskFields DEF LeaseInv
  <2>a. GenType' /\ gen' = gen
    BY <1>a, <2>1
  <2>4. LeaseInv' /\ HomeInv'
    BY <1>0, <2>1, <2>2, <2>3, <2>a DEF LeaseInv, HomeInv, BufferHome
  <2>5. SegmentInv' /\ AckedInv'
    BY <1>0, <2>1, <2>2, <2>a DEF SegmentInv, AckedInv, Kept
  <2>6. RecordInv'
    <3>1. ASSUME NEW s \in Slots, srv[s].at \in {"sync", "ack"}
          PROVE  Here(s)' = Here(s) /\ Log(s)' = Log(s)
      <4>1. srv[s].k # 0
        BY <1>0, <3>1 DEF RecordInv, LeaseInv
      <4> QED
        BY <2>1, <2>3, <4>1 DEF Here, Log
    <3> QED
      BY <1>0, <2>1, <2>a, <3>1 DEF RecordInv
  <2> QED
    BY <1>0, <2>1, <2>4, <2>5, <2>6, <2>a DEF ServicesInv, SrvType
<1> QED
  BY <1>2, <1>3, <1>4, <1>5, <1>6 DEF Next

LEMMA ServicesInductive == Spec => []ServicesInv
  BY ServicesInit, ServicesStep, PTL DEF Spec

\* wal.rs: what was acknowledged stays where it was written and synced, for any
\* number of connections, leases and segments, however the reads split a request,
\* and whichever write or sync fails, half done or not.
THEOREM AckMeansDurable == Spec => []AckedIsDurable
<1>1. ServicesInv => AckedIsDurable
  <2> SUFFICES ASSUME ServicesInv, NEW a \in acked
               PROVE  /\ Len(segment[a.seg].disk) >= a.pos /\ segment[a.seg].disk[a.pos] = a.rec
                      /\ Len(segment[a.seg].recs) >= a.pos /\ segment[a.seg].recs[a.pos] = a.rec
    BY DEF AckedIsDurable
  <2>1. Kept(a) /\ a.seg \in 1 .. MaxSegments /\ a.pos \in Nat /\ SrvType
    BY DEF ServicesInv, AckedInv, SrvType
  <2>2. Len(segment[a.seg].disk) \in Nat /\ Len(segment[a.seg].recs) \in Nat
    BY <2>1, SegmentFields
  <2> QED
    BY <2>1, <2>2 DEF Kept
<1> QED
  BY <1>1, ServicesInductive, PTL

\* task_echo.rs, echo.rs, file_server.rs: the pool never holds a resource whose
\* buffer was taken out of it, whichever way serve ended.
THEOREM BuffersComeHome == Spec => []BufferHome
<1>1. ServicesInv => BufferHome
  BY DEF ServicesInv, HomeInv
<1> QED
  BY <1>1, ServicesInductive, PTL

-----------------------------------------------------------------------------
(* The echo servers: what is under way on a connection is the request, in  *)
(* order: what the client has, what waits for it, what the server has yet  *)
(* to write, and what it has yet to read.                                  *)

\* q is the request n of thread i from its unit f + 1 on.
Run(q, f, i, n) == \A j \in 1 .. Len(q) : q[j] = Unit(i, n, f + j)

\* Of a request of z units, `put` have been written.
Flow(i, n, z, put, got, rep, out, req, server) ==
  /\ Run(got, 0, i, n) /\ Run(rep, Len(got), i, n)
  /\ Len(got) + Len(rep) <= put /\ put <= z
  /\ server => /\ Run(out, Len(got) + Len(rep), i, n)
               /\ Run(req, Len(got) + Len(rep) + Len(out), i, n)
               /\ Len(got) + Len(rep) + Len(out) + Len(req) = put

Sound(i) ==
  th[i].c # 0 =>
    Flow(i, th[i].sent, Size(th[i].sent), th[i].put, th[i].got, conn[th[i].c].rep,
         srv[th[i].c].out, conn[th[i].c].req, conn[th[i].c].server)

\* A stream has one owner, who is between two requests unless it writes or reads.
OwnerInv ==
  /\ \A i \in Threads : th[i].c # 0 => conn[th[i].c].client
  /\ \A i, j \in Threads : th[i].c = th[j].c /\ th[i].c # 0 => i = j
  /\ \A i \in Threads : th[i].at \notin {"write", "read"} => th[i].put = 0 /\ th[i].got = << >>
  /\ \A i \in Threads : th[i].at = "start" => th[i].c = 0

\* A task has a stream, and something to write only while it writes.
ServeInv ==
  \A s \in Slots :
    /\ srv[s].at # "none" => conn[s].server
    /\ srv[s].at \in {"none", "get", "read", "echo"}
    /\ srv[s].at # "echo" => srv[s].out = << >>

EchoInv ==
  Echo => OwnerInv /\ ServeInv /\ (\A i \in Threads : Sound(i) /\ th[i].why # "mismatch")

LEMMA RunCut ==
  ASSUME NEW q \in Seq(Item), NEW k \in Nat, k <= Len(q), NEW f \in Nat, NEW i, NEW n,
         Run(q, f, i, n)
  PROVE  /\ Run(SubSeq(q, 1, k), f, i, n)
         /\ Run(SubSeq(q, k + 1, Len(q)), f + k, i, n)
<1>1. PICK m \in Nat : m = Len(q)
  BY LenProperties
<1>2. /\ Len(SubSeq(q, 1, k)) = k /\ \A j \in 1 .. k : SubSeq(q, 1, k)[j] = q[j]
      /\ Len(SubSeq(q, k + 1, Len(q))) = m - k
      /\ \A j \in 1 .. m - k : SubSeq(q, k + 1, Len(q))[j] = q[k + j]
  BY <1>1, Cut
<1>3. \A j \in 1 .. m : q[j] = Unit(i, n, f + j)
  BY <1>1 DEF Run
<1>4. ASSUME NEW j \in 1 .. m - k PROVE q[k + j] = Unit(i, n, f + k + j)
  <2>1. k + j \in 1 .. m /\ f + (k + j) = f + k + j
    BY <1>1
  <2> QED
    BY <1>3, <2>1
<1>5. \A j \in 1 .. k : j \in 1 .. m
  BY <1>1
<1>6. Run(SubSeq(q, 1, k), f, i, n)
  BY <1>2, <1>3, <1>5 DEF Run
<1>7. Run(SubSeq(q, k + 1, Len(q)), f + k, i, n)
  BY <1>2, <1>4 DEF Run
<1> QED
  BY <1>6, <1>7

LEMMA RunJoin ==
  ASSUME NEW p \in Seq(Item), NEW q \in Seq(Item), NEW f \in Nat, NEW i, NEW n,
         Run(p, f, i, n), Run(q, f + Len(p), i, n)
  PROVE  Run(p \o q, f, i, n) /\ p \o q \in Seq(Item) /\ Len(p \o q) = Len(p) + Len(q)
<1>1. PICK a \in Nat : a = Len(p)
  BY LenProperties
<1>2. PICK b \in Nat : b = Len(q)
  BY LenProperties
<1>3. /\ p \o q \in Seq(Item) /\ Len(p \o q) = a + b
      /\ \A j \in 1 .. a + b : (p \o q)[j] = IF j <= a THEN p[j] ELSE q[j - a]
  BY <1>1, <1>2, ConcatProperties
<1>4. ASSUME NEW j \in 1 .. a + b PROVE (p \o q)[j] = Unit(i, n, f + j)
  <2>1. CASE j <= a
    <3>1. j \in 1 .. a
      BY <2>1
    <3> QED
      BY <1>1, <1>3, <2>1, <3>1 DEF Run
  <2>2. CASE ~(j <= a)
    <3>1. j - a \in 1 .. b /\ f + a + (j - a) = f + j
      BY <2>2
    <3>2. q[j - a] = Unit(i, n, f + a + (j - a))
      BY <1>1, <1>2, <3>1 DEF Run
    <3> QED
      BY <1>3, <2>2, <3>1, <3>2
  <2> QED
    BY <2>1, <2>2
<1>5. Run(p \o q, f, i, n)
  BY <1>3, <1>4 DEF Run
<1> QED
  BY <1>1, <1>2, <1>3, <1>5

LEMMA RunEmpty == \A f, i, n : Run(<< >>, f, i, n)
  BY DEF Run

\* Nothing is under way between two requests, whichever comes next.
LEMMA FlowFresh ==
  ASSUME NEW i, NEW n, NEW z \in Nat, NEW out, NEW req, NEW server,
         server => out = << >> /\ req = << >>
  PROVE  Flow(i, n, z, 0, << >>, << >>, out, req, server)
  BY RunEmpty DEF Flow

LEMMA EmptyIs ==
  ASSUME NEW q \in Seq(Item), Len(q) = 0
  PROVE  q = << >>
  BY EmptySeq

LEMMA FlowIdle ==
  ASSUME NEW i, NEW n, NEW z \in Nat, NEW rep \in Seq(Item), NEW out \in Seq(Item),
         NEW req \in Seq(Item), NEW server \in BOOLEAN,
         Flow(i, n, z, 0, << >>, rep, out, req, server),
         NEW m, NEW y \in Nat
  PROVE  Flow(i, m, y, 0, << >>, rep, out, req, server)
<1>1. PICK b \in Nat : b = Len(rep)
  BY LenProperties
<1>2. PICK d \in Nat : d = Len(out)
  BY LenProperties
<1>3. PICK e \in Nat : e = Len(req)
  BY LenProperties
<1>4. 0 + b <= 0 /\ (server => 0 + b + d + e = 0)
  BY <1>1, <1>2, <1>3 DEF Flow
<1>5. b = 0 /\ (server => d = 0 /\ e = 0)
  BY <1>4
<1>6. rep = << >> /\ (server => out = << >> /\ req = << >>)
  BY <1>1, <1>2, <1>3, <1>5, EmptyIs
<1> QED
  BY <1>6, RunEmpty DEF Flow

LEMMA FlowTake ==
  ASSUME NEW i \in Threads, NEW n \in Nat, NEW z \in Nat, NEW put \in Nat, NEW got \in Seq(Item),
         NEW rep \in Seq(Item), NEW out, NEW req,
         NEW server \in BOOLEAN, Flow(i, n, z, put, got, rep, out, req, server),
         NEW k \in Nat, k <= Len(rep)
  PROVE  /\ Flow(i, n, z, put, got \o SubSeq(rep, 1, k), SubSeq(rep, k + 1, Len(rep)),
                 out, req, server)
         /\ got \o SubSeq(rep, 1, k) \in Seq(Item)
         /\ Len(got \o SubSeq(rep, 1, k)) = Len(got) + k
<1>1. PICK a \in Nat : a = Len(got)
  BY LenProperties
<1>2. PICK b \in Nat : b = Len(rep)
  BY LenProperties
<1>c. SubSeq(rep, 1, k) \in Seq(Item) /\ Len(SubSeq(rep, 1, k)) = k
  BY Cut
<1>3. PICK p \in Seq(Item) : p = SubSeq(rep, 1, k) /\ Len(p) = k
  BY <1>c
<1>4. PICK q \in Seq(Item) : q = SubSeq(rep, k + 1, Len(rep)) /\ Len(q) = b - k
  BY <1>2, Cut
<1>5. Run(got, 0, i, n) /\ Run(rep, a, i, n)
  BY <1>1 DEF Flow
<1>6. Run(p, a, i, n) /\ Run(q, a + k, i, n)
  BY <1>3, <1>4, <1>5, RunCut
<1>7. PICK h \in Seq(Item) : h = got \o p /\ Run(h, 0, i, n) /\ Len(h) = a + k
  <2>1. Run(p, 0 + Len(got), i, n)
    BY <1>1, <1>6
  <2>2. /\ Run(got \o p, 0, i, n) /\ got \o p \in Seq(Item)
        /\ Len(got \o p) = Len(got) + Len(p)
    BY <1>5, <2>1, RunJoin
  <2> QED
    BY <1>1, <1>3, <2>2
<1>8. (a + k) + (b - k) = a + b
  OBVIOUS
<1>9. Len(h) + Len(q) = Len(got) + Len(rep)
  BY <1>1, <1>2, <1>4, <1>7, <1>8
<1>10. Run(q, Len(h), i, n)
  BY <1>6, <1>7
<1>11. Flow(i, n, z, put, h, q, out, req, server)
  BY <1>7, <1>9, <1>10 DEF Flow
<1> QED
  BY <1>1, <1>3, <1>4, <1>7, <1>11

\* The whole of it is the request.
Whole(i, n, z) == [j \in 1 .. z |-> Unit(i, n, j)]
LEMMA FlowWhole ==
  ASSUME NEW i \in Threads, NEW n \in Nat, NEW put \in Nat, NEW got \in Seq(Item),
         NEW rep \in Seq(Item), NEW out \in Seq(Item), NEW req \in Seq(Item),
         NEW server \in BOOLEAN, Flow(i, n, Len(got), put, got, rep, out, req, server)
  PROVE  /\ got = Whole(i, n, Len(got))
         /\ rep = << >> /\ (server => out = << >> /\ req = << >>)
<1>1. PICK z \in Nat : z = Len(got)
  BY LenProperties
<1>2. PICK b \in Nat : b = Len(rep)
  BY LenProperties
<1>3. PICK d \in Nat : d = Len(out)
  BY LenProperties
<1>4. PICK e \in Nat : e = Len(req)
  BY LenProperties
<1>5. z + b <= put /\ put <= z /\ (server => z + b + d + e = put)
  BY <1>1, <1>2, <1>3, <1>4 DEF Flow
<1>6. b = 0 /\ (server => d = 0 /\ e = 0)
  BY <1>5
<1>7. rep = << >> /\ (server => out = << >> /\ req = << >>)
  BY <1>2, <1>3, <1>4, <1>6, EmptyIs
<1>8. got \in [1 .. z -> Item]
  BY <1>1, LenProperties
<1>9. \A j \in 1 .. z : got[j] = Unit(i, n, j)
  <2>1. \A j \in 1 .. z : got[j] = Unit(i, n, 0 + j)
    BY <1>1 DEF Flow, Run
  <2>2. \A j \in 1 .. z : 0 + j = j
    OBVIOUS
  <2> QED
    BY <2>1, <2>2
<1>10. got = [j \in 1 .. z |-> got[j]]
  BY <1>8
<1>11. got = Whole(i, n, z)
  BY <1>9, <1>10 DEF Whole
<1> QED
  BY <1>1, <1>7, <1>11

LEMMA FlowFetch ==
  ASSUME NEW i, NEW n, NEW z, NEW put \in Nat, NEW got \in Seq(Item),
         NEW rep \in Seq(Item), NEW req \in Seq(Item),
         Flow(i, n, z, put, got, rep, << >>, req, TRUE),
         NEW k \in Nat, k <= Len(req)
  PROVE  Flow(i, n, z, put, got, rep, SubSeq(req, 1, k), SubSeq(req, k + 1, Len(req)), TRUE)
<1>1. PICK f \in Nat : f = Len(got) + Len(rep)
  <2>1. Len(got) \in Nat /\ Len(rep) \in Nat
    BY LenProperties
  <2> QED
    BY <2>1
<1>2. PICK e \in Nat : e = Len(req)
  BY LenProperties
<1>3. Len(SubSeq(req, 1, k)) = k /\ Len(SubSeq(req, k + 1, Len(req))) = e - k
  BY <1>2, Cut
<1>4. Run(req, f, i, n) /\ f + e = put
  <2>1. Run(req, f + 0, i, n) /\ f + 0 + e = put
    BY <1>1, <1>2 DEF Flow
  <2>2. f + 0 = f
    OBVIOUS
  <2> QED
    BY <2>1, <2>2
<1>5. Run(SubSeq(req, 1, k), f, i, n) /\ Run(SubSeq(req, k + 1, Len(req)), f + k, i, n)
  BY <1>4, RunCut
<1>6. f + k + (e - k) = put
  BY <1>4
<1> QED
  BY <1>1, <1>3, <1>5, <1>6 DEF Flow

LEMMA FlowReply ==
  ASSUME NEW i, NEW n, NEW z, NEW put \in Nat, NEW got \in Seq(Item),
         NEW rep \in Seq(Item), NEW out \in Seq(Item), NEW req \in Seq(Item),
         Flow(i, n, z, put, got, rep, out, req, TRUE),
         NEW k \in Nat, k <= Len(out)
  PROVE  Flow(i, n, z, put, got, rep \o SubSeq(out, 1, k), SubSeq(out, k + 1, Len(out)), req, TRUE)
<1>1. PICK a \in Nat : a = Len(got)
  BY LenProperties
<1>2. PICK b \in Nat : b = Len(rep)
  BY LenProperties
<1>3. PICK d \in Nat : d = Len(out)
  BY LenProperties
<1>4. PICK e \in Nat : e = Len(req)
  BY LenProperties
<1>c. SubSeq(out, 1, k) \in Seq(Item) /\ Len(SubSeq(out, 1, k)) = k
  BY Cut
<1>5. PICK p \in Seq(Item) : p = SubSeq(out, 1, k) /\ Len(p) = k
  BY <1>c
<1>6. PICK q \in Seq(Item) : q = SubSeq(out, k + 1, Len(out)) /\ Len(q) = d - k
  BY <1>3, Cut
<1>7. /\ Run(rep, a, i, n) /\ Run(out, a + b, i, n) /\ Run(req, a + b + d, i, n)
      /\ a + b + d + e = put
  BY <1>1, <1>2, <1>3, <1>4 DEF Flow
<1>8. Run(p, a + b, i, n) /\ Run(q, a + b + k, i, n)
  <2>1. a + b \in Nat
    OBVIOUS
  <2> QED
    BY <1>5, <1>6, <1>7, <2>1, RunCut
<1>9. PICK h \in Seq(Item) : h = rep \o p /\ Run(h, a, i, n) /\ Len(h) = b + k
  <2>1. Run(p, a + Len(rep), i, n)
    BY <1>2, <1>8
  <2>2. /\ Run(rep \o p, a, i, n) /\ rep \o p \in Seq(Item)
        /\ Len(rep \o p) = Len(rep) + Len(p)
    BY <1>7, <2>1, RunJoin
  <2> QED
    BY <1>2, <1>5, <2>2
<1>10. /\ a + (b + k) = a + b + k /\ a + (b + k) + (d - k) = a + b + d
       /\ a + (b + k) + (d - k) + e = put
  BY <1>7
<1>11. k <= d
  BY <1>3
<1>12. a + (b + k) <= put
  BY <1>7, <1>11
<1>13. /\ Run(got, 0, i, n) /\ put <= z
  BY DEF Flow
<1>14. /\ Run(q, a + (b + k), i, n) /\ Run(req, a + (b + k) + (d - k), i, n)
  BY <1>7, <1>8, <1>10
<1>15. Flow(i, n, z, put, got, h, q, req, TRUE)
  BY <1>1, <1>4, <1>6, <1>9, <1>10, <1>12, <1>13, <1>14 DEF Flow
<1> QED
  BY <1>5, <1>6, <1>9, <1>15

-----------------------------------------------------------------------------
(* Every step keeps what is under way in order. *)

LEMMA SizePrime ==
  ASSUME gen' = gen, NEW n
  PROVE  Size(n)' = Size(n)
  BY DEF Size

\* A step of thread i, which keeps its stream, leaves it or takes another.
LEMMA ThreadKeeps ==
  ASSUME GenType, EchoInv, Echo, srv' = srv, gen' = gen,
         NEW i \in Threads, NEW t, th' = [th EXCEPT ![i] = t], t.c \in {0} \cup Slots,
         \A s \in Slots : s # th[i].c /\ s # t.c => conn'[s] = conn[s],
         \A s \in Slots : conn[s].server => conn'[s].server,
         t.c # 0 => conn'[t.c].client,
         t.c # 0 /\ t.c # th[i].c => ~conn[t.c].client,
         t.at \notin {"write", "read"} => t.put = 0 /\ t.got = << >>,
         t.at # "start", t.why # "mismatch",
         t.c # 0 => Flow(i, t.sent, Size(t.sent), t.put, t.got, conn'[t.c].rep,
                         srv[t.c].out, conn'[t.c].req, conn'[t.c].server)
  PROVE  EchoInv'
<1>0. OwnerInv /\ ServeInv /\ (\A j \in Threads : Sound(j) /\ th[j].why # "mismatch")
  BY DEF EchoInv
<1>1. \A j \in Threads : th'[j] = IF j = i THEN t ELSE th[j]
  BY DEF GenType
<1>2. ASSUME NEW j \in Threads, j # i, th[j].c # 0
      PROVE  th[j].c # t.c /\ th[j].c \in Slots /\ conn'[th[j].c] = conn[th[j].c]
  <2>1. th[j].c \in Slots /\ conn[th[j].c].client /\ th[j].c # th[i].c
    BY <1>0, <1>2, ThreadFields DEF OwnerInv
  <2>2. th[j].c # t.c
    BY <1>2, <2>1
  <2> QED
    BY <2>1, <2>2
<1>3. OwnerInv'
  <2>1. ASSUME NEW j \in Threads, th'[j].c # 0 PROVE conn'[th'[j].c].client
    BY <1>0, <1>1, <1>2, <2>1 DEF OwnerInv
  <2>2. ASSUME NEW j \in Threads, NEW l \in Threads, th'[j].c = th'[l].c, th'[j].c # 0
        PROVE  j = l
    BY <1>0, <1>1, <1>2, <2>2 DEF OwnerInv
  <2>3. ASSUME NEW j \in Threads, th'[j].at \notin {"write", "read"}
        PROVE  th'[j].put = 0 /\ th'[j].got = << >>
    BY <1>0, <1>1, <2>3 DEF OwnerInv
  <2>4. ASSUME NEW j \in Threads, th'[j].at = "start" PROVE th'[j].c = 0
    BY <1>0, <1>1, <2>4 DEF OwnerInv
  <2> QED
    BY <2>1, <2>2, <2>3, <2>4 DEF OwnerInv
<1>4. ServeInv'
  BY <1>0 DEF ServeInv
<1>5. ASSUME NEW j \in Threads PROVE Sound(j)' /\ th'[j].why # "mismatch"
  <2>1. CASE j = i
    BY <1>1, <2>1, SizePrime DEF Sound
  <2>2. CASE j # i
    <3>1. th'[j] = th[j] /\ Sound(j) /\ th[j].why # "mismatch"
      BY <1>0, <1>1, <2>2
    <3>2. CASE th[j].c = 0
      BY <3>1, <3>2 DEF Sound
    <3>3. CASE th[j].c # 0
      <4>1. conn'[th[j].c] = conn[th[j].c]
        BY <1>2, <2>2, <3>3
      <4> QED
        BY <3>1, <3>3, <4>1, SizePrime DEF Sound
    <3> QED
      BY <3>2, <3>3
  <2> QED
    BY <2>1, <2>2
<1> QED
  BY <1>3, <1>4, <1>5 DEF EchoInv

\* A step of the task of connection s.
LEMMA TaskKeeps ==
  ASSUME EchoInv, Echo, th' = th, gen' = gen, NEW s \in Slots,
         \A t \in Slots : t # s => srv'[t] = srv[t] /\ conn'[t] = conn[t],
         conn[s].client => conn'[s].client,
         srv'[s].at # "none" => conn'[s].server,
         srv'[s].at \in {"none", "get", "read", "echo"},
         srv'[s].at # "echo" => srv'[s].out = << >>,
         GenType,
         \A i \in Threads : th[i].c = s =>
           Flow(i, th[i].sent, Size(th[i].sent), th[i].put, th[i].got, conn'[s].rep,
                srv'[s].out, conn'[s].req, conn'[s].server)
  PROVE  EchoInv'
<1>0. OwnerInv /\ ServeInv /\ (\A j \in Threads : Sound(j) /\ th[j].why # "mismatch")
  BY DEF EchoInv
<1>1. \A j \in Threads : th[j].c \in {0} \cup Slots
  BY ThreadFields
<1>2. OwnerInv'
  BY <1>0, <1>1 DEF OwnerInv
<1>3. ServeInv'
  BY <1>0 DEF ServeInv
<1>4. ASSUME NEW j \in Threads PROVE Sound(j)' /\ th'[j].why # "mismatch"
  <2>1. CASE th[j].c = s
    BY <1>0, <2>1, SizePrime DEF Sound
  <2>2. CASE th[j].c = 0
    BY <1>0, <2>2 DEF Sound
  <2>3. CASE th[j].c # s /\ th[j].c # 0
    <3>1. srv'[th[j].c] = srv[th[j].c] /\ conn'[th[j].c] = conn[th[j].c]
      BY <1>1, <2>3
    <3> QED
      BY <1>0, <2>3, <3>1, SizePrime DEF Sound
  <2> QED
    BY <2>1, <2>2, <2>3
<1> QED
  BY <1>2, <1>3, <1>4 DEF EchoInv

LEMMA DroppedIs ==
  ASSUME GenType, NEW i \in Threads
  PROVE  /\ Dropped(i) \in [Slots -> ConnType]
         /\ \A s \in Slots : s # th[i].c => Dropped(i)[s] = conn[s]
         /\ \A s \in Slots : conn[s].server => Dropped(i)[s].server
<1>1. \A s \in Slots : conn[s] \in ConnType
  BY ConnFields
<1>2. ASSUME NEW s \in Slots, conn[s].server PROVE Dropped(i)[s].server
  <2>1. [conn[s] EXCEPT !.client = FALSE].server = conn[s].server
    BY <1>1 DEF ConnType
  <2> QED
    BY <1>2, <2>1 DEF Dropped
<1> QED
  BY <1>2, DroppedType DEF Dropped

\* It leaves its stream.
LEMMA LeaveKeeps ==
  ASSUME GenType, EchoInv, Echo, srv' = srv, gen' = gen, NEW i \in Threads, NEW at, NEW n, NEW why,
         Between(i, at, 0, n, why), at \notin {"start", "write", "read"}, why # "mismatch",
         conn' = Dropped(i)
  PROVE  EchoInv'
<1> DEFINE t == [at |-> at, c |-> 0, sent |-> n, put |-> 0, got |-> << >>, why |-> why]
<1>1. /\ th' = [th EXCEPT ![i] = t] /\ t.c = 0 /\ t.at = at /\ t.put = 0 /\ t.got = << >>
      /\ t.why = why
  BY DEF Between
<1> HIDE DEF t
<1>2. /\ \A s \in Slots : s # th[i].c /\ s # t.c => conn'[s] = conn[s]
      /\ \A s \in Slots : conn[s].server => conn'[s].server
  BY DroppedIs
<1> QED
  BY <1>1, <1>2, ThreadKeeps

\* It dials, and leaves the stream it had, if any.
LEMMA DialKeeps ==
  ASSUME GenType, SrvType, EchoInv, Echo, srv' = srv, gen' = gen, NEW i \in Threads,
         NEW at \in {"barrier", "write"}, NEW n \in Nat, Dial(i, at, n)
  PROVE  EchoInv'
<1>1. PICK s \in Slots :
        /\ conn[s] = Silent
        /\ Between(i, at, s, n, "none")
        /\ conn' = [Dropped(i) EXCEPT ![s] = [Silent EXCEPT !.client = TRUE, !.server = TRUE]]
  BY DEF Dial
<1> DEFINE t == [at |-> at, c |-> s, sent |-> n, put |-> 0, got |-> << >>, why |-> "none"]
<1>2. /\ th' = [th EXCEPT ![i] = t] /\ t.c = s /\ t.at = at /\ t.put = 0 /\ t.got = << >>
      /\ t.why = "none" /\ t.sent = n
  BY <1>1 DEF Between
<1> HIDE DEF t
<1> DEFINE k == [Silent EXCEPT !.client = TRUE, !.server = TRUE]
<1>3. k.client /\ k.server /\ k.rep = << >> /\ k.req = << >>
  BY DEF Silent
<1>4. conn' = [Dropped(i) EXCEPT ![s] = k]
  BY <1>1
<1> HIDE DEF k
<1>5. ~conn[s].client /\ ~conn[s].server
  BY <1>1 DEF Silent
<1>6. /\ conn'[s] = k
      /\ \A r \in Slots : r # th[i].c /\ r # s => conn'[r] = conn[r]
      /\ \A r \in Slots : conn[r].server => conn'[r].server
  BY <1>3, <1>4, DroppedIs
<1>7. srv[s].out = << >>
  BY <1>5 DEF EchoInv, ServeInv
<1>8. Size(n) \in Nat
  BY SizeType
<1>9. Flow(i, n, Size(n), 0, << >>, << >>, << >>, << >>, k.server)
  BY <1>8, FlowFresh
<1> QED
  BY <1>2, <1>3, <1>5, <1>6, <1>7, <1>9, ThreadKeeps, SlotsNat

\* It goes on between two requests, on the stream it has.
LEMMA StayKeeps ==
  ASSUME GenType, SrvType, EchoInv, Echo, srv' = srv, gen' = gen, NEW i \in Threads,
         NEW at \in {"barrier", "loop", "write"}, NEW n \in Nat,
         Between(i, at, th[i].c, n, "none"), conn' = conn,
         th[i].at \notin {"write", "read"}
  PROVE  EchoInv'
<1> DEFINE t == [at |-> at, c |-> th[i].c, sent |-> n, put |-> 0, got |-> << >>, why |-> "none"]
<1>1. /\ th' = [th EXCEPT ![i] = t] /\ t.c = th[i].c /\ t.at = at /\ t.put = 0 /\ t.got = << >>
      /\ t.why = "none" /\ t.sent = n
  BY DEF Between
<1> HIDE DEF t
<1>2. th[i].c \in {0} \cup Slots /\ th[i].put = 0 /\ th[i].got = << >>
  BY ThreadFields DEF EchoInv, OwnerInv
<1>3. ASSUME th[i].c # 0
      PROVE  Flow(i, n, Size(n), 0, << >>, conn[th[i].c].rep, srv[th[i].c].out,
                  conn[th[i].c].req, conn[th[i].c].server)
  <2>1. PICK c \in Slots : c = th[i].c
    BY <1>2, <1>3
  <2>2. Flow(i, th[i].sent, Size(th[i].sent), 0, << >>, conn[c].rep,
             srv[c].out, conn[c].req, conn[c].server)
    BY <1>2, <1>3, <2>1 DEF EchoInv, Sound
  <2>3. Size(th[i].sent) \in Nat /\ Size(n) \in Nat
    BY SizeType, ThreadFields
  <2>4. /\ conn[c].rep \in Seq(Item) /\ conn[c].req \in Seq(Item) /\ conn[c].server \in BOOLEAN
        /\ srv[c].out \in Seq(Item)
    BY ConnFields, TaskFields
  <2>5. Flow(i, n, Size(n), 0, << >>, conn[c].rep, srv[c].out, conn[c].req, conn[c].server)
    BY <2>2, <2>3, <2>4, FlowIdle
  <2> QED
    BY <2>1, <2>5
<1>4. th[i].c # 0 => conn[th[i].c].client
  BY DEF EchoInv, OwnerInv
<1> QED
  BY <1>1, <1>2, <1>3, <1>4, ThreadKeeps

\* It writes some of its request.
LEMMA PutKeeps ==
  ASSUME GenType, SrvType, EchoInv, Echo, srv' = srv, gen' = gen, NEW i \in Threads,
         th[i].at = "write", Room(i) > 0,
         NEW at \in {"write", "read"}, Put(i, Room(i), at)
  PROVE  EchoInv'
<1>1. PICK c \in Slots : c = th[i].c /\ c # 0
  BY ThreadFields, SlotsNat DEF GenType, StreamHeld
<1>0. th[i] \in ThreadType /\ th[i].sent \in Nat /\ th[i].put \in Nat /\ th[i].got \in Seq(Item)
  BY ThreadFields
<1>2. PICK z \in Nat : z = Size(th[i].sent)
  BY <1>0, SizeType
<1>3. PICK k \in Nat : k = Room(i) /\ th[i].put + k <= z
  <2>1. Len(conn[c].req) \in Nat
    BY ConnFields
  <2>2. PICK x \in Int : x = z - th[i].put
    BY <1>0
  <2>3. Window - Len(conn[c].req) \in Int
    BY <2>1, LoadAssumption
  <2>4. Room(i) = Least(x, Window - Len(conn[c].req))
    BY <1>1, <1>2, <2>2 DEF Room
  <2>5. Room(i) \in Int /\ Room(i) <= x
    BY <2>3, <2>4, LeastIs
  <2>6. th[i].put + Room(i) <= z
    BY <1>0, <2>2, <2>5
  <2> QED
    BY <2>5, <2>6
<1> DEFINE u == [j \in 1 .. k |-> Unit(i, th[i].sent, th[i].put + j)]
<1>4. u \in Seq(Item) /\ Len(u) = k /\ Run(u, th[i].put, i, th[i].sent)
  <2>1. \A j \in 1 .. k : Unit(i, th[i].sent, th[i].put + j) \in Item
    BY <1>0, UnitType
  <2>2. u \in Seq(Item) /\ Len(u) = k
    BY <2>1
  <2> QED
    BY <2>2 DEF Run
<1>5. /\ th' = [th EXCEPT ![i] = [th[i] EXCEPT !.put = th[i].put + k, !.at = at]]
      /\ conn' = [conn EXCEPT ![c] = [conn[c] EXCEPT !.req = conn[c].req \o u]]
  BY <1>1, <1>3 DEF Put
<1> HIDE DEF u
<1> DEFINE t == [th[i] EXCEPT !.put = th[i].put + k, !.at = at]
<1>6. /\ t.c = c /\ t.at = at /\ t.put = th[i].put + k /\ t.got = th[i].got
      /\ t.sent = th[i].sent /\ t.why = th[i].why
  BY <1>0, <1>1 DEF ThreadType
<1>7. th' = [th EXCEPT ![i] = t]
  BY <1>5
<1> HIDE DEF t
<1>8. conn[c] \in ConnType /\ conn \in [Slots -> ConnType]
  BY DEF GenType
<1> DEFINE q == conn[c].req \o u
<1>9. /\ conn'[c].client = conn[c].client /\ conn'[c].server = conn[c].server
      /\ conn'[c].rep = conn[c].rep /\ conn'[c].req = q
      /\ \A s \in Slots : s # c => conn'[s] = conn[s]
  <2> HIDE DEF q
  <2>1. conn' = [conn EXCEPT ![c] = [conn[c] EXCEPT !.req = q]]
    BY <1>5 DEF q
  <2>2. /\ [conn[c] EXCEPT !.req = q].client = conn[c].client
        /\ [conn[c] EXCEPT !.req = q].server = conn[c].server
        /\ [conn[c] EXCEPT !.req = q].rep = conn[c].rep
        /\ [conn[c] EXCEPT !.req = q].req = q
    BY <1>8 DEF ConnType
  <2> QED
    BY <1>8, <2>1, <2>2
<1>10. Flow(i, th[i].sent, z, th[i].put, th[i].got, conn[c].rep,
            srv[c].out, conn[c].req, conn[c].server)
  BY <1>1, <1>2 DEF EchoInv, Sound
<1>11. Flow(i, th[i].sent, z, th[i].put + k, th[i].got, conn[c].rep,
            srv[c].out, q, conn[c].server)
  <2>1. /\ conn[c].rep \in Seq(Item) /\ conn[c].req \in Seq(Item) /\ conn[c].server \in BOOLEAN
        /\ srv[c].out \in Seq(Item)
    BY ConnFields, TaskFields
  <2>2. PICK n \in Nat, p \in Nat, g \in Seq(Item) :
          n = th[i].sent /\ p = th[i].put /\ g = th[i].got
    BY <1>0
  <2>3. PICK a \in Seq(Item), o \in Seq(Item), r \in Seq(Item), v \in BOOLEAN :
          a = conn[c].rep /\ o = srv[c].out /\ r = conn[c].req /\ v = conn[c].server
    BY <2>1
  <2>4. Flow(i, n, z, p, g, a, o, r, v)
    BY <1>10, <2>2, <2>3
  <2>5. PICK w \in Seq(Item) : w = u /\ Len(w) = k /\ Run(w, p, i, n)
    BY <1>4, <2>2
  <2>a. PICK m, x : m = p + k /\ x = r \o w
    OBVIOUS
  <2>b. p + k <= z
    BY <1>3, <2>2
  <2>c. Flow(i, n, z, m, g, a, o, x, v)
    <3>1. PICK la \in Nat : la = Len(g)
      BY LenProperties
    <3>2. PICK lb \in Nat : lb = Len(a)
      BY LenProperties
    <3>3. PICK lo \in Nat : lo = Len(o)
      BY LenProperties
    <3>4. PICK lr \in Nat : lr = Len(r)
      BY LenProperties
    <3>6. CASE v
      <4>1. la + lb + lo + lr = p /\ Run(r, la + lb + lo, i, n)
        BY <2>4, <3>1, <3>2, <3>3, <3>4, <3>6 DEF Flow
      <4>2. la + lb + lo \in Nat
        OBVIOUS
      <4>3. Run(r \o w, la + lb + lo, i, n) /\ Len(r \o w) = lr + k
        BY <2>5, <3>4, <4>1, <4>2, RunJoin
      <4>4. la + lb + lo + (lr + k) = p + k
        BY <4>1
      <4>5. la + lb <= p + k
        BY <4>1
      <4> QED
        BY <2>4, <2>a, <2>b, <3>1, <3>2, <3>3, <3>6, <4>3, <4>4, <4>5 DEF Flow
    <3>7. CASE ~v
      <4>1. la + lb <= p
        BY <2>4, <3>1, <3>2 DEF Flow
      <4>2. la + lb <= p + k
        BY <4>1
      <4> QED
        BY <2>4, <2>a, <2>b, <3>1, <3>2, <3>7, <4>2 DEF Flow
    <3> QED
      BY <3>6, <3>7
  <2>6. Flow(i, n, z, p + k, g, a, o, r \o u, v)
    BY <2>5, <2>a, <2>c
  <2> QED
    BY <2>2, <2>3, <2>6
<1> HIDE DEF q
<1>12. conn[c].client /\ th[i].why # "mismatch"
  BY <1>1 DEF EchoInv, OwnerInv
<1>13. Flow(i, t.sent, Size(t.sent), t.put, t.got, conn'[t.c].rep,
            srv[t.c].out, conn'[t.c].req, conn'[t.c].server)
  BY <1>2, <1>6, <1>9, <1>11
<1>14. /\ t.c \in {0} \cup Slots /\ t.c = th[i].c /\ conn'[t.c].client
       /\ t.at \in {"write", "read"} /\ t.why # "mismatch"
       /\ \A s \in Slots : s # th[i].c /\ s # t.c => conn'[s] = conn[s]
       /\ \A s \in Slots : conn[s].server => conn'[s].server
  BY <1>1, <1>6, <1>9, <1>12
<1> QED
  BY <1>7, <1>13, <1>14, ThreadKeeps

\* It reads some of what has come.
LEMMA LeftIs ==
  ASSUME GenType, NEW i \in Threads, th[i].at = "read"
  PROVE  \E c \in Slots, k \in Nat, q \in Seq(Item) :
           /\ c = th[i].c /\ c # 0 /\ k = Taken(i) /\ k <= Len(conn[c].rep)
           /\ q = SubSeq(conn[c].rep, k + 1, Len(conn[c].rep))
           /\ Has(i) = th[i].got \o SubSeq(conn[c].rep, 1, k)
           /\ Left(i)[c].client = conn[c].client /\ Left(i)[c].server = conn[c].server
           /\ Left(i)[c].req = conn[c].req /\ Left(i)[c].rep = q
           /\ \A s \in Slots : s # c => Left(i)[s] = conn[s]
<1>1. PICK c \in Slots : c = th[i].c /\ c # 0
  BY TakenType, SlotsNat
<1>2. PICK k \in Nat : k = Taken(i) /\ k <= Len(conn[c].rep)
  BY <1>1, TakenType
<1>3. SubSeq(conn[c].rep, k + 1, Len(conn[c].rep)) \in Seq(Item)
  BY <1>2, Cut, ConnFields
<1>4. PICK q \in Seq(Item) : q = SubSeq(conn[c].rep, k + 1, Len(conn[c].rep))
  BY <1>3
<1>5. Has(i) = th[i].got \o SubSeq(conn[c].rep, 1, k)
  BY <1>1, <1>2 DEF Has
<1>6. Left(i) = [conn EXCEPT ![c] = [conn[c] EXCEPT !.rep = q]]
  BY <1>1, <1>2, <1>4 DEF Left
<1>7. conn[c] \in ConnType /\ conn \in [Slots -> ConnType]
  BY DEF GenType
<1>8. /\ [conn[c] EXCEPT !.rep = q].client = conn[c].client
      /\ [conn[c] EXCEPT !.rep = q].server = conn[c].server
      /\ [conn[c] EXCEPT !.rep = q].req = conn[c].req
      /\ [conn[c] EXCEPT !.rep = q].rep = q
  BY <1>7 DEF ConnType
<1>9. /\ Left(i)[c].client = conn[c].client /\ Left(i)[c].server = conn[c].server
      /\ Left(i)[c].req = conn[c].req /\ Left(i)[c].rep = q
      /\ \A s \in Slots : s # c => Left(i)[s] = conn[s]
  BY <1>6, <1>7, <1>8
<1> QED
  BY <1>1, <1>2, <1>4, <1>5, <1>9

LEMMA ReadFlow ==
  ASSUME GenType, SrvType, EchoInv, Echo, NEW i \in Threads, th[i].at = "read"
  PROVE  /\ Has(i) \in Seq(Item) /\ th[i].c \in Slots /\ th[i].c # 0
         /\ Left(i)[th[i].c].client
         /\ Left(i)[th[i].c].server = conn[th[i].c].server
         /\ \A s \in Slots : s # th[i].c => Left(i)[s] = conn[s]
         /\ Left(i)[th[i].c].rep \in Seq(Item) /\ Left(i)[th[i].c].req \in Seq(Item)
         /\ Flow(i, th[i].sent, Size(th[i].sent), th[i].put, Has(i), Left(i)[th[i].c].rep,
                 srv[th[i].c].out, Left(i)[th[i].c].req, Left(i)[th[i].c].server)
<1>1. PICK c \in Slots, k \in Nat, q \in Seq(Item) :
           /\ c = th[i].c /\ c # 0 /\ k = Taken(i) /\ k <= Len(conn[c].rep)
           /\ q = SubSeq(conn[c].rep, k + 1, Len(conn[c].rep))
           /\ Has(i) = th[i].got \o SubSeq(conn[c].rep, 1, k)
           /\ Left(i)[c].client = conn[c].client /\ Left(i)[c].server = conn[c].server
           /\ Left(i)[c].req = conn[c].req /\ Left(i)[c].rep = q
           /\ \A s \in Slots : s # c => Left(i)[s] = conn[s]
  BY LeftIs
<1>2. PICK n \in Nat, p \in Nat, g \in Seq(Item) :
        n = th[i].sent /\ p = th[i].put /\ g = th[i].got
  BY ThreadFields
<1>3. PICK a \in Seq(Item), r \in Seq(Item) :
        a = conn[c].rep /\ r = conn[c].req
  BY ConnFields
<1>v. conn[c].server \in BOOLEAN
  BY ConnFields
<1>4. PICK o \in Seq(Item) : o = srv[c].out
  BY TaskFields
<1>5. PICK z \in Nat : z = Size(n)
  BY SizeType
<1>6. Flow(i, n, z, p, g, a, o, r, conn[c].server)
  BY <1>1, <1>2, <1>3, <1>4, <1>5 DEF EchoInv, Sound
<1>7. /\ Flow(i, n, z, p, g \o SubSeq(a, 1, k), SubSeq(a, k + 1, Len(a)), o, r, conn[c].server)
      /\ g \o SubSeq(a, 1, k) \in Seq(Item)
  <2>1. k <= Len(a)
    BY <1>1, <1>3
  <2> QED
    BY ONLY <1>6, <1>v, <2>1, FlowTake
<1>8. conn[c].client
  BY <1>1 DEF EchoInv, OwnerInv
<1>9. PICK h \in Seq(Item) : h = g \o SubSeq(a, 1, k) /\ h = Has(i)
  BY <1>1, <1>2, <1>3, <1>7
<1>10. Flow(i, n, z, p, h, q, o, r, conn[c].server)
  BY <1>1, <1>3, <1>7, <1>9
<1> QED
  BY <1>1, <1>2, <1>3, <1>4, <1>5, <1>8, <1>9, <1>10

LEMMA ReceiveKeeps ==
  ASSUME GenType, SrvType, EchoInv, Echo, srv' = srv, gen' = gen, NEW i \in Threads,
         ReceiveSome(i)
  PROVE  EchoInv'
<1>1. th' = [th EXCEPT ![i].got = Has(i)] /\ conn' = Left(i) /\ th[i].at = "read"
  BY DEF ReceiveSome
<1>2. th[i] \in ThreadType
  BY ThreadFields
<1> DEFINE t == [th[i] EXCEPT !.got = Has(i)]
<1>3. /\ th' = [th EXCEPT ![i] = t] /\ t.c = th[i].c /\ t.at = "read" /\ t.got = Has(i)
      /\ t.put = th[i].put /\ t.sent = th[i].sent /\ t.why = th[i].why
  BY <1>1, <1>2 DEF ThreadType
<1> HIDE DEF t
<1>4. /\ th[i].c \in Slots /\ th[i].c # 0 /\ conn'[th[i].c].client
      /\ conn'[th[i].c].server = conn[th[i].c].server
      /\ \A s \in Slots : s # th[i].c => conn'[s] = conn[s]
  BY <1>1, ReadFlow
<1>5. Flow(i, th[i].sent, Size(th[i].sent), th[i].put, Has(i), conn'[th[i].c].rep,
           srv[th[i].c].out, conn'[th[i].c].req, conn'[th[i].c].server)
  BY <1>1, ReadFlow
<1>6. Flow(i, t.sent, Size(t.sent), t.put, t.got, conn'[t.c].rep,
           srv[t.c].out, conn'[t.c].req, conn'[t.c].server)
  BY <1>3, <1>5
<1>7. /\ t.c \in {0} \cup Slots /\ t.c = th[i].c /\ conn'[t.c].client
      /\ t.at \in {"write", "read"} /\ t.why # "mismatch"
      /\ \A s \in Slots : s # th[i].c /\ s # t.c => conn'[s] = conn[s]
      /\ \A s \in Slots : conn[s].server => conn'[s].server
  BY <1>3, <1>4 DEF EchoInv
<1> QED
  BY <1>3, <1>6, <1>7, ThreadKeeps

\* It has all of it, and that is what it sent.
LEMMA CompleteIs ==
  ASSUME GenType, SrvType, EchoInv, Echo, NEW i \in Threads, Complete(i)
  PROVE  /\ Has(i) = Request(i, th[i].sent)
         /\ Left(i)[th[i].c].rep = << >>
         /\ conn[th[i].c].server => srv[th[i].c].out = << >> /\ Left(i)[th[i].c].req = << >>
<1>1. th[i].at = "read" /\ Len(Has(i)) = Size(th[i].sent)
  BY DEF Complete, Need, Echo
<1>2. PICK c \in Slots : c = th[i].c
  BY <1>1, ReadFlow
<1>3. PICK n \in Nat, p \in Nat : n = th[i].sent /\ p = th[i].put
  BY ThreadFields
<1>4. PICK z \in Nat : z = Size(n)
  BY SizeType
<1>5. PICK h \in Seq(Item), a \in Seq(Item), r \in Seq(Item) :
        h = Has(i) /\ a = Left(i)[c].rep /\ r = Left(i)[c].req
  BY <1>1, <1>2, ReadFlow
<1>6. PICK o \in Seq(Item) : o = srv[c].out
  BY TaskFields
<1>7. conn[c].server \in BOOLEAN
  BY ConnFields
<1>8. Flow(i, n, z, p, h, a, o, r, conn[c].server)
  BY <1>1, <1>2, <1>3, <1>4, <1>5, <1>6, <1>7, ReadFlow
<1>9. Len(h) = z
  BY <1>1, <1>3, <1>4, <1>5
<1>10. /\ h = Whole(i, n, z)
       /\ a = << >> /\ (conn[c].server => o = << >> /\ r = << >>)
  <2>1. Flow(i, n, Len(h), p, h, a, o, r, conn[c].server)
    BY <1>8, <1>9
  <2>2. h = Whole(i, n, Len(h)) /\ a = << >> /\ (conn[c].server => o = << >> /\ r = << >>)
    BY ONLY <1>7, <2>1, FlowWhole
  <2> QED
    BY <1>9, <2>2
<1>11. Request(i, n) = Whole(i, n, z)
  BY <1>4 DEF Request, Whole
<1> QED
  BY <1>2, <1>3, <1>5, <1>6, <1>7, <1>10, <1>11

LEMMA CountedKeeps ==
  ASSUME GenType, SrvType, EchoInv, Echo, srv' = srv, gen' = gen, NEW i \in Threads,
         Complete(i), Counted(i)
  PROVE  EchoInv'
<1>1. Between(i, "loop", th[i].c, th[i].sent, "none") /\ conn' = Left(i) /\ th[i].at = "read"
  BY DEF Counted, Complete
<1> DEFINE t == [at |-> "loop", c |-> th[i].c, sent |-> th[i].sent, put |-> 0, got |-> << >>,
                 why |-> "none"]
<1>2. /\ th' = [th EXCEPT ![i] = t] /\ t.c = th[i].c /\ t.at = "loop" /\ t.put = 0
      /\ t.got = << >> /\ t.why = "none" /\ t.sent = th[i].sent
  BY <1>1 DEF Between
<1> HIDE DEF t
<1>3. /\ th[i].c \in Slots /\ th[i].c # 0 /\ conn'[th[i].c].client
      /\ conn'[th[i].c].server = conn[th[i].c].server
      /\ \A s \in Slots : s # th[i].c => conn'[s] = conn[s]
  BY <1>1, ReadFlow
<1>4. /\ conn'[th[i].c].rep = << >>
      /\ conn[th[i].c].server => srv[th[i].c].out = << >> /\ conn'[th[i].c].req = << >>
  BY <1>1, CompleteIs
<1>5. PICK z \in Nat : z = Size(th[i].sent)
  BY SizeType, ThreadFields
<1>a. PICK o, r, v : o = srv[th[i].c].out /\ r = conn'[th[i].c].req /\ v = conn'[th[i].c].server
  OBVIOUS
<1>b. v => o = << >> /\ r = << >>
  BY <1>3, <1>4, <1>a
<1>c. Flow(i, th[i].sent, z, 0, << >>, << >>, o, r, v)
  BY <1>b, FlowFresh
<1>6. Flow(i, t.sent, Size(t.sent), t.put, t.got, conn'[t.c].rep,
           srv[t.c].out, conn'[t.c].req, conn'[t.c].server)
  BY <1>2, <1>4, <1>5, <1>a, <1>c
<1>7. /\ t.c \in {0} \cup Slots /\ t.c = th[i].c /\ conn'[t.c].client
      /\ t.at = "loop" /\ t.why # "mismatch"
      /\ \A s \in Slots : s # th[i].c /\ s # t.c => conn'[s] = conn[s]
      /\ \A s \in Slots : conn[s].server => conn'[s].server
  BY <1>2, <1>3
<1> QED
  BY <1>2, <1>6, <1>7, ThreadKeeps

LEMMA ThreadStepKeeps ==
  ASSUME GenType, SrvType, EchoInv, Echo, srv' = srv, NEW i \in Threads, ThreadStep(i)
  PROVE  EchoInv'
<1>0. gen' = gen
  BY ThreadStepType
<1>a. th[i].sent \in Nat /\ th[i].sent + 1 \in Nat /\ 0 \in Nat
  <2>1. th[i].sent \in Nat
    BY ThreadFields
  <2> QED
    BY <2>1
<1>b. ASSUME NEW why \in {"refused", "hung up"}, Fail(i, why) PROVE EchoInv'
  BY <1>0, <1>b, LeaveKeeps DEF Fail
<1>c. ASSUME NEW at \in {"barrier", "write"}, NEW n \in Nat, Dial(i, at, n) PROVE EchoInv'
  BY <1>0, <1>c, DialKeeps
<1>1. CASE Open(i)
  BY <1>1, <1>a, <1>b, <1>c DEF Open
<1>d. ASSUME th[i].at \notin {"write", "read"}, NEW at \in {"barrier", "loop", "write"},
             NEW n \in Nat, Between(i, at, th[i].c, n, "none"), conn' = conn
      PROVE  EchoInv'
  BY <1>0, <1>d, StayKeeps
<1>2. CASE ChurnArrives(i)
  <2>1. Between(i, "barrier", 0, 0, "none") /\ conn' = conn /\ th[i].at = "start"
    BY <1>2 DEF ChurnArrives
  <2>2. th[i].c = 0
    BY <2>1 DEF EchoInv, OwnerInv
  <2> QED
    BY <1>a, <1>d, <2>1, <2>2
<1>3. CASE PassBarrier(i)
  BY <1>3, <1>a, <1>d DEF PassBarrier
<1>4. CASE Finish(i)
  <2>1. Between(i, "ok", 0, th[i].sent, "none") /\ conn' = Dropped(i)
    BY <1>4 DEF Finish
  <2> QED
    BY <1>0, <2>1, LeaveKeeps
<1>5. CASE Send(i)
  BY <1>5, <1>a, <1>d DEF Send, Again
<1>6. CASE Reconnect(i) \/ ChurnSends(i)
  BY <1>6, <1>a, <1>b, <1>c DEF Reconnect, ChurnSends
<1>7. CASE Write(i)
  <2>1. ASSUME Room(i) > 0, NEW at \in {"write", "read"}, Put(i, Room(i), at) PROVE EchoInv'
    BY <1>0, <1>7, <2>1, PutKeeps DEF Write
  <2> QED
    BY <1>7, <1>b, <2>1 DEF Write
<1>8. CASE ReceiveSome(i)
  BY <1>0, <1>8, ReceiveKeeps
<1>9. CASE Echoed(i)
  BY <1>0, <1>9, CompleteIs, CountedKeeps DEF Echoed
<1>10. CASE ChurnEchoed(i)
  <2>1. Between(i, "loop", 0, th[i].sent, "none") /\ conn' = Dropped(i)
    BY <1>10, CompleteIs DEF ChurnEchoed
  <2> QED
    BY <1>0, <2>1, LeaveKeeps
<1>11. CASE Acked(i) \/ FileReceived(i) \/ RoundOver(i)
  BY <1>11 DEF Acked, FileReceived, RoundOver, Echo
<1>12. CASE Eof(i)
  BY <1>12, <1>b DEF Eof
<1> QED
  BY <1>1, <1>2, <1>3, <1>4, <1>5, <1>6, <1>7, <1>8, <1>9, <1>10, <1>11, <1>12 DEF ThreadStep

\* Every thread is stopped where it is.
LEMMA InterruptKeeps ==
  ASSUME GenType, EchoInv, Echo, srv' = srv, Interrupt
  PROVE  EchoInv'
<1>0. OwnerInv /\ ServeInv /\ (\A j \in Threads : Sound(j) /\ th[j].why # "mismatch")
  BY DEF EchoInv
<1> DEFINE t(i) == [at |-> "err", c |-> 0, sent |-> th[i].sent, put |-> 0,
                    got |-> << >>, why |-> th[i].why]
<1>1. /\ th' = [i \in Threads |-> t(i)]
      /\ conn' = [s \in Slots |->
                    IF conn[s].server THEN [conn[s] EXCEPT !.client = FALSE] ELSE Silent]
  BY DEF Interrupt
<1>2. \A i \in Threads : /\ t(i).at = "err" /\ t(i).c = 0 /\ t(i).put = 0 /\ t(i).got = << >>
                         /\ t(i).why = th[i].why
  OBVIOUS
<1> HIDE DEF t
<1>3. \A i \in Threads : /\ th'[i].at = "err" /\ th'[i].c = 0 /\ th'[i].put = 0
                         /\ th'[i].got = << >> /\ th'[i].why = th[i].why
  BY <1>1, <1>2
<1>4. ASSUME NEW s \in Slots, conn[s].server PROVE conn'[s].server
  <2>1. [conn[s] EXCEPT !.client = FALSE].server = conn[s].server
    BY ConnFields DEF ConnType
  <2> QED
    BY <1>1, <1>4, <2>1
<1>5. OwnerInv'
  BY <1>3 DEF OwnerInv
<1>6. ServeInv'
  BY <1>0, <1>4 DEF ServeInv
<1>7. \A i \in Threads : Sound(i)' /\ th'[i].why # "mismatch"
  BY <1>0, <1>3 DEF Sound
<1> QED
  BY <1>5, <1>6, <1>7 DEF EchoInv

\* Nothing of it moves.
LEMMA QuietKeeps ==
  ASSUME EchoInv, UNCHANGED <<gen, th, conn, srv>>
  PROVE  EchoInv'
<1>1. Echo' = Echo /\ OwnerInv' = OwnerInv /\ ServeInv' = ServeInv
  BY DEF Echo, OwnerInv, ServeInv
<1>2. \A i \in Threads : Sound(i)' = Sound(i) /\ th'[i] = th[i]
  BY SizePrime DEF Sound
<1> QED
  BY <1>1, <1>2 DEF EchoInv

LEMMA GenNextKeeps ==
  ASSUME GenType, SrvType, EchoInv, GenNext, srv' = srv
  PROVE  EchoInv'
<1>0. gen' = gen
  BY GenNextType
<1>1. CASE ~Echo
  BY <1>0, <1>1 DEF EchoInv, Echo
<1>2. CASE Echo
  <2>1. CASE Deadline \/ Join
    BY <2>1, QuietKeeps DEF Deadline, Join
  <2>2. CASE Interrupt
    BY <1>2, <2>2, InterruptKeeps
  <2>3. ASSUME NEW i \in Threads, ThreadStep(i) PROVE EchoInv'
    BY <1>2, <2>3, ThreadStepKeeps
  <2> QED
    BY <2>1, <2>2, <2>3 DEF GenNext
<1> QED
  BY <1>1, <1>2

\* serve returns: the client keeps what was on its way to it.
LEMMA ReturnKeeps ==
  ASSUME GenType, SrvType, EchoInv, Echo, UNCHANGED genVars, NEW s \in Slots, Return(s, TRUE)
  PROVE  EchoInv'
<1>0. th' = th /\ gen' = gen
  BY DEF genVars
<1>1. /\ \A t \in Slots : t # s => srv'[t] = srv[t] /\ conn'[t] = conn[t]
      /\ srv'[s] = Gone /\ conn'[s] = IF conn[s].client THEN [conn[s] EXCEPT !.server = FALSE] ELSE Silent
  BY DEF Return, GenType, SrvType
<1>2. srv'[s].at = "none" /\ srv'[s].out = << >>
  BY <1>1 DEF Gone
<1>3. CASE conn[s].client
  <2>1. conn'[s].client /\ conn'[s].server = FALSE /\ conn'[s].rep = conn[s].rep
    BY <1>1, <1>3, ConnFields DEF ConnType
  <2>2. ASSUME NEW i \in Threads, th[i].c = s
        PROVE  Flow(i, th[i].sent, Size(th[i].sent), th[i].put, th[i].got, conn'[s].rep,
                    srv'[s].out, conn'[s].req, conn'[s].server)
    <3>1. Flow(i, th[i].sent, Size(th[i].sent), th[i].put, th[i].got, conn[s].rep,
               srv[s].out, conn[s].req, conn[s].server)
      BY <2>2, SlotsNat DEF EchoInv, Sound
    <3> QED
      BY <2>1, <3>1 DEF Flow
  <2> QED
    BY <1>0, <1>1, <1>2, <2>1, <2>2, TaskKeeps
<1>4. CASE ~conn[s].client
  <2>1. \A i \in Threads : th[i].c # s
    BY <1>4, SlotsNat DEF EchoInv, OwnerInv
  <2> QED
    BY <1>0, <1>1, <1>2, <1>4, <2>1, TaskKeeps
<1> QED
  BY <1>3, <1>4

\* The task moves on, with its streams as they are.
LEMMA TurnKeeps ==
  ASSUME GenType, EchoInv, Echo, UNCHANGED <<genVars, conn>>, NEW s \in Slots,
         \A t \in Slots : t # s => srv'[t] = srv[t],
         srv'[s].at \in {"get", "read"}, conn[s].server,
         srv[s].at # "echo", srv'[s].out = srv[s].out
  PROVE  EchoInv'
<1>0. th' = th /\ gen' = gen /\ conn' = conn
  BY DEF genVars
<1>1. srv'[s].out = << >>
  BY DEF EchoInv, ServeInv
<1>2. ASSUME NEW i \in Threads, th[i].c = s
      PROVE  Flow(i, th[i].sent, Size(th[i].sent), th[i].put, th[i].got, conn'[s].rep,
                  srv'[s].out, conn'[s].req, conn'[s].server)
  BY <1>0, <1>2, SlotsNat DEF EchoInv, Sound
<1> QED
  BY <1>0, <1>1, <1>2, TaskKeeps

LEMMA ReadKeeps ==
  ASSUME GenType, SrvType, EchoInv, Echo, NEW s \in Slots, Read(s)
  PROVE  EchoInv'
<1>0. th' = th /\ gen' = gen /\ srv[s].at = "read"
  BY DEF genVars, Read
<1>1. PICK k \in Nat \ {0}, buf \in Seq(Item) :
           /\ k <= Len(conn[s].req) /\ buf = SubSeq(conn[s].req, 1, k) /\ Len(buf) = k
           /\ srv' = [srv EXCEPT ![s] =
                        [srv[s] EXCEPT !.at = AfterRead, !.cur = buf,
                                       !.out = IF AfterRead = "echo" THEN buf ELSE << >>]]
           /\ conn' = [conn EXCEPT ![s] =
                         [conn[s] EXCEPT !.req = SubSeq(conn[s].req, k + 1, Len(conn[s].req))]]
  BY ReadIs
<1>2. AfterRead = "echo"
  BY DEF AfterRead, Echo
<1>3. PICK q \in Seq(Item) : q = SubSeq(conn[s].req, k + 1, Len(conn[s].req))
  <2>1. SubSeq(conn[s].req, k + 1, Len(conn[s].req)) \in Seq(Item)
    BY <1>1, Cut, ConnFields
  <2> QED
    BY <2>1
<1>4. /\ \A t \in Slots : t # s => srv'[t] = srv[t] /\ conn'[t] = conn[t]
      /\ srv'[s].at = "echo" /\ srv'[s].out = buf
  BY <1>1, <1>2 DEF SrvType, GenType, TaskType
<1>5. /\ conn'[s].client = conn[s].client /\ conn'[s].server = conn[s].server
      /\ conn'[s].rep = conn[s].rep /\ conn'[s].req = q
  <2>1. conn' = [conn EXCEPT ![s] = [conn[s] EXCEPT !.req = q]]
    BY <1>1, <1>3
  <2>2. conn[s] \in ConnType /\ conn \in [Slots -> ConnType]
    BY DEF GenType
  <2> QED
    BY <2>1, <2>2 DEF ConnType
<1>6. conn[s].server /\ srv[s].out = << >>
  BY <1>0 DEF EchoInv, ServeInv
<1>7. ASSUME NEW i \in Threads, th[i].c = s
      PROVE  Flow(i, th[i].sent, Size(th[i].sent), th[i].put, th[i].got, conn'[s].rep,
                  srv'[s].out, conn'[s].req, conn'[s].server)
  <2>0. PICK n \in Nat, p \in Nat, g \in Seq(Item) :
          n = th[i].sent /\ p = th[i].put /\ g = th[i].got
    BY ThreadFields
  <2>1. PICK z \in Nat : z = Size(n)
    BY SizeType
  <2>2. PICK a \in Seq(Item), r \in Seq(Item) : a = conn[s].rep /\ r = conn[s].req
    BY ConnFields
  <2>3. Flow(i, n, z, p, g, a, << >>, r, TRUE)
    <3>1. Flow(i, n, z, p, g, a, << >>, r, conn[s].server)
      BY <1>6, <1>7, <2>0, <2>1, <2>2, SlotsNat DEF EchoInv, Sound
    <3> QED
      BY <1>6, <3>1 DEF Flow
  <2>4. k \in Nat /\ k <= Len(r)
    BY <1>1, <2>2
  <2>5. Flow(i, n, z, p, g, a, SubSeq(r, 1, k), SubSeq(r, k + 1, Len(r)), TRUE)
    BY ONLY <2>3, <2>4, FlowFetch
  <2>6. Flow(i, n, z, p, g, a, buf, q, TRUE)
    BY <1>1, <1>3, <2>2, <2>5
  <2>7. Flow(i, n, z, p, g, a, buf, q, conn[s].server)
    BY <2>6 DEF Flow
  <2> QED
    BY <1>4, <1>5, <2>0, <2>1, <2>2, <2>7
<1> QED
  BY <1>0, <1>4, <1>5, <1>6, <1>7, TaskKeeps

LEMMA WriteKeeps ==
  ASSUME GenType, SrvType, EchoInv, Echo, NEW s \in Slots, WriteAll(s)
  PROVE  EchoInv'
<1>0. th' = th /\ gen' = gen /\ srv[s].at \in Writing
  BY DEF genVars, WriteAll
<1>a. conn[s].server /\ srv[s].at = "echo"
  BY <1>0 DEF EchoInv, ServeInv, Writing
<1>1. PICK k \in Nat \ {0}, w \in Seq(Item), x \in Seq(Item) :
           /\ k <= Len(srv[s].out)
           /\ w = SubSeq(srv[s].out, 1, k) /\ x = SubSeq(srv[s].out, k + 1, Len(srv[s].out))
           /\ Len(w) = k /\ Len(x) = Len(srv[s].out) - k
           /\ srv' = [srv EXCEPT ![s] =
                        [srv[s] EXCEPT !.out = x,
                                       !.at = IF k = Len(srv[s].out) THEN AfterWrite(s) ELSE @]]
           /\ conn' = [conn EXCEPT ![s] = [conn[s] EXCEPT !.rep = conn[s].rep \o w]]
  BY WriteIs
<1>2. AfterWrite(s) = "read"
  BY <1>a, AfterWriteIs
<1>3. /\ \A t \in Slots : t # s => srv'[t] = srv[t] /\ conn'[t] = conn[t]
      /\ srv'[s].at = (IF k = Len(srv[s].out) THEN "read" ELSE "echo") /\ srv'[s].out = x
  <2>1. srv[s] \in TaskType /\ srv \in [Slots -> TaskType] /\ conn \in [Slots -> ConnType]
    BY DEF SrvType, GenType
  <2>2. PICK at : at = IF k = Len(srv[s].out) THEN "read" ELSE "echo"
    OBVIOUS
  <2>3. srv' = [srv EXCEPT ![s] = [srv[s] EXCEPT !.out = x, !.at = at]]
    BY <1>a, <1>1, <1>2, <2>2
  <2> DEFINE t == [srv[s] EXCEPT !.out = x, !.at = at]
  <2>4. t.at = at /\ t.out = x
    BY <2>1 DEF TaskType
  <2>5. srv' = [srv EXCEPT ![s] = t]
    BY <2>3
  <2> HIDE DEF t
  <2>6. srv'[s] = t /\ \A r \in Slots : r # s => srv'[r] = srv[r]
    BY <2>1, <2>5
  <2>7. \A r \in Slots : r # s => conn'[r] = conn[r]
    BY <1>1, <2>1
  <2> QED
    BY <2>2, <2>4, <2>6, <2>7
<1>4. PICK q : q = conn[s].rep \o w
  OBVIOUS
<1>5. /\ conn'[s].client = conn[s].client /\ conn'[s].server = conn[s].server
      /\ conn'[s].rep = q /\ conn'[s].req = conn[s].req
  <2>1. conn' = [conn EXCEPT ![s] = [conn[s] EXCEPT !.rep = q]]
    BY <1>1, <1>4
  <2>2. conn[s] \in ConnType /\ conn \in [Slots -> ConnType]
    BY DEF GenType
  <2> QED
    BY <2>1, <2>2 DEF ConnType
<1>6. srv'[s].at # "echo" => srv'[s].out = << >>
  <2>1. PICK d \in Nat : d = Len(srv[s].out)
    BY TaskLens
  <2>2. ASSUME srv'[s].at # "echo" PROVE x = << >>
    <3>1. Len(x) = 0
      BY <1>1, <1>3, <2>1, <2>2
    <3> QED
      BY <3>1, EmptyIs
  <2> QED
    BY <1>3, <2>2
<1>7. ASSUME NEW i \in Threads, th[i].c = s
      PROVE  Flow(i, th[i].sent, Size(th[i].sent), th[i].put, th[i].got, conn'[s].rep,
                  srv'[s].out, conn'[s].req, conn'[s].server)
  <2>0. PICK n \in Nat, p \in Nat, g \in Seq(Item) :
          n = th[i].sent /\ p = th[i].put /\ g = th[i].got
    BY ThreadFields
  <2>1. PICK z \in Nat : z = Size(n)
    BY SizeType
  <2>2. PICK a \in Seq(Item), r \in Seq(Item) : a = conn[s].rep /\ r = conn[s].req
    BY ConnFields
  <2>a. PICK o \in Seq(Item) : o = srv[s].out
    BY TaskFields
  <2>3. Flow(i, n, z, p, g, a, o, r, TRUE)
    <3>1. Flow(i, n, z, p, g, a, o, r, conn[s].server)
      BY <1>7, <2>0, <2>1, <2>2, <2>a, SlotsNat DEF EchoInv, Sound
    <3> QED
      BY <1>a, <3>1 DEF Flow
  <2>4. k \in Nat /\ k <= Len(o)
    BY <1>1, <2>a
  <2>5. Flow(i, n, z, p, g, a \o SubSeq(o, 1, k), SubSeq(o, k + 1, Len(o)), r, TRUE)
    BY ONLY <2>3, <2>4, FlowReply
  <2>6. Flow(i, n, z, p, g, q, x, r, TRUE)
    BY <1>1, <1>4, <2>2, <2>a, <2>5
  <2>7. Flow(i, n, z, p, g, q, x, r, conn[s].server)
    BY <2>6 DEF Flow
  <2> QED
    BY <1>3, <1>5, <2>0, <2>1, <2>2, <2>7
<1> QED
  BY <1>0, <1>a, <1>3, <1>5, <1>6, <1>7, TaskKeeps

LEMMA ServeKeeps ==
  ASSUME GenType, SrvType, EchoInv, NEW s \in Slots, ServeStep(s), gen' = gen
  PROVE  EchoInv'
<1>0. CASE ~Echo
  BY <1>0 DEF EchoInv, Echo
<1>a. CASE Echo
  <2>0. srv[s].at \in {"none", "get", "read", "echo"} /\ srv[s] \in TaskType
    BY <1>a, TaskFields DEF EchoInv, ServeInv
  <2>1. CASE Accept(s) \/ Get(s)
    <3>1. /\ UNCHANGED <<genVars, conn>> /\ conn[s].server /\ srv[s].at # "echo"
      BY <1>a, <2>1 DEF Accept, Get, EchoInv, ServeInv
    <3>2. /\ \A t \in Slots : t # s => srv'[t] = srv[t]
          /\ srv'[s].at \in {"get", "read"} /\ srv'[s].out = srv[s].out
      <4>0. srv \in [Slots -> TaskType] /\ gen # "load_file" /\ gen # "kvload"
        BY <1>a DEF SrvType, Echo
      <4>1. CASE Accept(s)
        <5> DEFINE t == [srv[s] EXCEPT !.at = "get"]
        <5>1. srv' = [srv EXCEPT ![s] = t]
          BY <4>0, <4>1 DEF Accept
        <5>2. t.at = "get" /\ t.out = srv[s].out
          BY <2>0 DEF TaskType
        <5> HIDE DEF t
        <5> QED
          BY <4>0, <5>1, <5>2
      <4>2. CASE Get(s)
        <5>1. PICK k \in Resources :
                srv' = [srv EXCEPT ![s] = [srv[s] EXCEPT !.k = k, !.cur = res[k].data,
                                                         !.at = "read"]]
          BY <4>0, <4>2 DEF Get
        <5> DEFINE t == [srv[s] EXCEPT !.k = k, !.cur = res[k].data, !.at = "read"]
        <5>2. t.at = "read" /\ t.out = srv[s].out
          BY <2>0 DEF TaskType
        <5>3. srv' = [srv EXCEPT ![s] = t]
          BY <5>1
        <5> HIDE DEF t
        <5> QED
          BY <4>0, <5>2, <5>3
      <4> QED
        BY <2>1, <4>1, <4>2
    <3> QED
      BY <1>a, <3>1, <3>2, TurnKeeps
  <2>2. CASE GetFails(s) \/ ReadEof(s) \/ WriteFails(s) \/ KvHangsUp(s)
    BY <1>a, <2>2, ReturnKeeps DEF GetFails, ReadEof, WriteFails, KvHangsUp
  <2>3. CASE Read(s)
    BY <1>a, <2>3, ReadKeeps
  <2>4. CASE WriteAll(s)
    BY <1>a, <2>4, WriteKeeps
  <2>5. CASE AppendRecord(s) \/ SyncData(s) \/ OpenFile(s) \/ CopyChunk(s)
    BY <2>0, <2>5 DEF AppendRecord, SyncData, OpenFile, CopyChunk
  <2> QED
    BY <2>1, <2>2, <2>3, <2>4, <2>5 DEF ServeStep
<1> QED
  BY <1>0, <1>a

LEMMA EchoInit == Init => EchoInv
<1> SUFFICES ASSUME Init PROVE EchoInv
  OBVIOUS
<1> DEFINE t == [at |-> "start", c |-> 0, sent |-> 0, put |-> 0, got |-> << >>, why |-> "none"]
<1>1. th = [i \in Threads |-> t] /\ srv = [s \in Slots |-> Gone]
  BY DEF Init, GenInit
<1>2. t.c = 0 /\ t.put = 0 /\ t.got = << >> /\ t.why = "none"
  OBVIOUS
<1> HIDE DEF t
<1>3. \A i \in Threads : /\ th[i].c = 0 /\ th[i].put = 0 /\ th[i].got = << >>
                         /\ th[i].why = "none"
  BY <1>1, <1>2
<1>4. \A s \in Slots : srv[s].at = "none" /\ srv[s].out = << >>
  BY <1>1 DEF Gone
<1> QED
  BY <1>3, <1>4 DEF EchoInv, OwnerInv, ServeInv, Sound

LEMMA EchoStep == ServicesInv /\ EchoInv /\ [Next]_vars => EchoInv'
<1> SUFFICES ASSUME ServicesInv, EchoInv, [Next]_vars PROVE EchoInv'
  OBVIOUS
<1>0. GenType /\ SrvType /\ LeaseInv /\ SegmentInv /\ RecordInv
  BY DEF ServicesInv
<1>1. CASE GenNext /\ UNCHANGED srvVars
  BY <1>0, <1>1, GenNextKeeps DEF srvVars
<1>2. CASE Touch
  BY <1>2, QuietKeeps DEF Touch, genVars
<1>3. CASE UNCHANGED vars
  BY <1>3, QuietKeeps DEF vars, genVars, srvVars
<1>4. ASSUME NEW s \in Slots, ServeStep(s) PROVE EchoInv'
  BY <1>0, <1>4, ServeDone, ServeKeeps DEF Done
<1>5. ASSUME NEW k \in Resources, Expire(k) PROVE EchoInv'
  BY <1>5, QuietKeeps DEF Expire, genVars
<1> QED
  BY <1>1, <1>2, <1>3, <1>4, <1>5 DEF Next

\* load.rs, load_churn.rs against task_echo.rs, echo.rs: a client reads its own
\* bytes back in the order it sent them, for any payload, buffer and window, any
\* split of the reads and writes, any number of connections that share the pool's
\* buffers, and whoever hangs up.
THEOREM OwnBytesBack == Spec => []EchoMatches
<1>1. EchoInv => EchoMatches
  BY DEF EchoInv, EchoMatches
<1> QED
  BY <1>1, EchoInit, EchoStep, ServicesInductive, PTL DEF Spec
=============================================================================
