------------------------------ MODULE LoadGen ------------------------------
(***************************************************************************)
(* The load generators: plain threads, one per connection, that meet at a  *)
(* std Barrier, send requests until the deadline, and are joined in order. *)
(* load.rs and load_churn.rs drive the echo servers, load_wal.rs the log,  *)
(* load_file.rs the file server, kvload.rs a key-value server that is not  *)
(* in this repository.  What the servers do is in Services.                *)
(*                                                                         *)
(* A stream carries units, each a tuple that begins with its kind: what a  *)
(* client sends is <<"data", thread, request, position>>.  (The code sends *)
(* the same payload every time; the request's number makes the comparison  *)
(* of what comes back the stronger.)  Each direction of a connection holds *)
(* at most Window units, and a write_all goes on as room is made.          *)
(***************************************************************************)
EXTENDS Integers, Sequences, FiniteSets

CONSTANTS
  Generators,  \* the generators checked
  Threads,     \* opts.conns, as 1 .. n
  Bytes,       \* --bytes, in units
  FileSize,    \* load_file's --bytes: the size it expects of the file
  Pipeline,    \* kvload's --pipeline
  Window,      \* what one direction of a connection buffers, in units
  MaxSent      \* bound: requests of all threads together

ASSUME LoadAssumption ==
  /\ IsFiniteSet(Threads) /\ 0 \notin Threads
  /\ Bytes \in Nat \ {0} /\ FileSize \in Nat /\ Pipeline \in Nat \ {0}
  /\ Window \in Nat /\ MaxSent \in Nat

VARIABLES
  gen,      \* which generator runs
  th,       \* thread -> where it is, its connection, request, and progress in it
  arrived,  \* how many have called barrier.wait()
  joined,   \* how many handles main has joined
  late,     \* the deadline has passed
  conn      \* connection -> its two streams and who still holds an end

genVars == <<gen, th, arrived, joined, late>>

Slots == 1 .. Cardinality(Threads) + 1   \* a new connection may overlap the old one's end
Silent == [client |-> FALSE, server |-> FALSE, req |-> << >>, rep |-> << >>]
Ended == {"ok", "err"}
Least(m, n) == IF m < n THEN m ELSE n

\* What thread i sends as its n-th request: a payload, a file's name and its
\* newline, or kvload's batch of lines (one line while it warms up).
Size(n) ==
  CASE gen = "load_churn" -> 1
    [] gen = "load_file" -> 2
    [] gen = "kvload" -> IF n = 0 THEN 1 ELSE Pipeline
    [] OTHER -> Bytes
Unit(i, n, j) == <<"data", i, n, j>>
Request(i, n) == [j \in 1 .. Size(n) |-> Unit(i, n, j)]

GenInit ==
  /\ gen \in Generators
  /\ th = [i \in Threads |-> [at |-> "start", c |-> 0, sent |-> 0, put |-> 0,
                              got |-> << >>, why |-> "none"]]
  /\ arrived = 0
  /\ joined = 0
  /\ late = FALSE
  /\ conn = [s \in Slots |-> Silent]

-----------------------------------------------------------------------------
(* Steps of a thread.  A `?` that fails ends it, and drops its stream. *)

\* The connections once thread i has dropped its stream.
Dropped(i) ==
  [s \in Slots |->
     IF s # th[i].c THEN conn[s]
     ELSE IF conn[s].server THEN [conn[s] EXCEPT !.client = FALSE] ELSE Silent]

\* Thread i goes on at `at`, with nothing written or read of a request.
Between(i, at, c, n, why) ==
  th' = [th EXCEPT ![i] = [at |-> at, c |-> c, sent |-> n, put |-> 0, got |-> << >>, why |-> why]]

Fail(i, why) == Between(i, "err", 0, th[i].sent, why) /\ conn' = Dropped(i)

\* TcpStream::connect, in a slot nobody uses, and the stream it replaces dropped.
Dial(i, next, n) ==
  \E s \in Slots :
    /\ conn[s] = Silent
    /\ Between(i, next, s, n, "none")
    /\ conn' = [Dropped(i) EXCEPT ![s] = [Silent EXCEPT !.client = TRUE, !.server = TRUE]]

\* load, load_wal, load_file, kvload: connect, then wait for everyone; kvload
\* may warm its keys first, depending on the workload.
Open(i) ==
  /\ gen # "load_churn" /\ th[i].at = "start"
  /\ \/ Fail(i, "refused") /\ UNCHANGED arrived
     \/ gen = "kvload" /\ Dial(i, "write", 0) /\ UNCHANGED arrived
     \/ Dial(i, "barrier", 0) /\ arrived' = arrived + 1
  /\ UNCHANGED <<gen, joined, late>>

\* load_churn waits before it dials anything.
ChurnArrives(i) ==
  /\ gen = "load_churn" /\ th[i].at = "start"
  /\ Between(i, "barrier", 0, 0, "none")
  /\ arrived' = arrived + 1
  /\ UNCHANGED <<gen, joined, late, conn>>

\* Barrier::wait returns once all have called it.
PassBarrier(i) ==
  /\ th[i].at = "barrier" /\ arrived = Cardinality(Threads)
  /\ Between(i, "loop", th[i].c, 0, "none")
  /\ UNCHANGED <<gen, arrived, joined, late, conn>>

Deadline ==
  /\ ~late
  /\ late' = TRUE
  /\ UNCHANGED <<gen, th, arrived, joined, conn>>

Finish(i) ==
  /\ th[i].at = "loop" /\ late
  /\ Between(i, "ok", 0, th[i].sent, "none")
  /\ conn' = Dropped(i)
  /\ UNCHANGED <<gen, arrived, joined, late>>

\* The loop goes round: on the same stream, on a new one (load --reconnect), or
\* always on a new one (load_churn).
SentSoFar == {p \in Threads \X (1 .. MaxSent) : p[2] <= th[p[1]].sent}
Again(i) == th[i].at = "loop" /\ ~late /\ Cardinality(SentSoFar) < MaxSent

Send(i) ==
  /\ gen # "load_churn" /\ Again(i)
  /\ Between(i, "write", th[i].c, th[i].sent + 1, "none")
  /\ UNCHANGED <<gen, arrived, joined, late, conn>>

Reconnect(i) ==
  /\ gen = "load" /\ Again(i)
  /\ Fail(i, "refused") \/ Dial(i, "write", th[i].sent + 1)
  /\ UNCHANGED <<gen, arrived, joined, late>>

ChurnSends(i) ==
  /\ gen = "load_churn" /\ Again(i)
  /\ Fail(i, "refused") \/ Dial(i, "write", th[i].sent + 1)
  /\ UNCHANGED <<gen, arrived, joined, late>>

\* How much of the rest of the request there is room for, and its way into the
\* stream.
Room(i) == Least(Size(th[i].sent) - th[i].put, Window - Len(conn[th[i].c].req))
Put(i, k, at) ==
  /\ th' = [th EXCEPT ![i].put = @ + k, ![i].at = at]
  /\ conn' = [conn EXCEPT ![th[i].c].req =
                @ \o [j \in 1 .. k |-> Unit(i, th[i].sent, th[i].put + j)]]

WriteOnce(i) ==
  /\ th[i].at = "write"
  /\ \/ Room(i) > 0 /\ Put(i, Room(i), "read")
     \/ ~conn[th[i].c].server /\ Fail(i, "hung up")
  /\ UNCHANGED <<gen, arrived, joined, late>>

\* write_all: what there is room for, until nothing is left; it fails once the
\* peer is gone, and may also still succeed.
Write(i) ==
  /\ th[i].at = "write"
  /\ \/ /\ Room(i) > 0
        /\ Put(i, Room(i), IF th[i].put + Room(i) = Size(th[i].sent) THEN "read" ELSE "write")
     \/ ~conn[th[i].c].server /\ Fail(i, "hung up")
  /\ UNCHANGED <<gen, arrived, joined, late>>

-----------------------------------------------------------------------------
(* The reply: read_exact, or lines, as they come. *)

Need(i) ==
  CASE gen = "load_wal" -> 1
    [] gen = "load_file" -> 1 + FileSize
    [] OTHER -> Size(th[i].sent)

\* What the thread has once it has read what is there, up to what it needs.
Taken(i) == Least(Len(conn[th[i].c].rep), Need(i) - Len(th[i].got))
Has(i) == th[i].got \o SubSeq(conn[th[i].c].rep, 1, Taken(i))
Left(i) == [conn EXCEPT ![th[i].c].rep = SubSeq(@, Taken(i) + 1, Len(@))]
Complete(i) == th[i].at = "read" /\ Len(Has(i)) = Need(i)

\* load_file: the first line is not the size it asked for.
BadHeader(i) == gen = "load_file" /\ Has(i) # << >> /\ Has(i)[1] # <<"size", FileSize>>

\* Some of it, and the read goes on.
ReceiveSome(i) ==
  /\ th[i].at = "read" /\ Taken(i) > 0 /\ ~Complete(i) /\ ~BadHeader(i)
  /\ th' = [th EXCEPT ![i].got = Has(i)]
  /\ conn' = Left(i)
  /\ UNCHANGED <<gen, arrived, joined, late>>

\* The request is done, and the thread is back at the top of its loop.
Counted(i) == Between(i, "loop", th[i].c, th[i].sent, "none") /\ conn' = Left(i)

Echoed(i) ==
  /\ gen = "load" /\ Complete(i)
  /\ IF Has(i) = Request(i, th[i].sent) THEN Counted(i) ELSE Fail(i, "mismatch")
  /\ UNCHANGED <<gen, arrived, joined, late>>

ChurnEchoed(i) ==
  /\ gen = "load_churn" /\ Complete(i)
  /\ IF Has(i) = Request(i, th[i].sent)
     THEN Between(i, "loop", 0, th[i].sent, "none") /\ conn' = Dropped(i)
     ELSE Fail(i, "mismatch")
  /\ UNCHANGED <<gen, arrived, joined, late>>

\* load_wal: "OK\n".
Acked(i) ==
  /\ gen = "load_wal" /\ Complete(i)
  /\ IF Has(i) = <<<<"ack">>>> THEN Counted(i) ELSE Fail(i, "mismatch")
  /\ UNCHANGED <<gen, arrived, joined, late>>

\* load_file: a header that is the right size, then that many bytes of body.
FileReceived(i) ==
  /\ gen = "load_file" /\ th[i].at = "read"
  /\ \/ BadHeader(i) /\ Fail(i, IF Has(i)[1] = <<"ERR">> THEN "refused" ELSE "mismatch")
     \/ ~BadHeader(i) /\ Complete(i) /\ Counted(i)
  /\ UNCHANGED <<gen, arrived, joined, late>>

\* kvload's round: as many lines as requests; after the warm-up (one key, as the
\* others repeat the step) comes the barrier.
RoundOver(i) ==
  /\ gen = "kvload" /\ Complete(i)
  /\ IF th[i].sent > 0 THEN Counted(i) /\ UNCHANGED arrived
     ELSE /\ Between(i, "barrier", th[i].c, 0, "none") /\ conn' = Left(i)
          /\ arrived' = arrived + 1
  /\ UNCHANGED <<gen, joined, late>>

\* The server hung up before the reply was read; a reset may lose what had come.
Eof(i) ==
  /\ th[i].at = "read" /\ ~conn[th[i].c].server
  /\ Fail(i, "hung up")
  /\ UNCHANGED <<gen, arrived, joined, late>>

-----------------------------------------------------------------------------

\* main joins the handles in order, whatever each returned.
Join ==
  /\ joined < Cardinality(Threads) /\ th[joined + 1].at \in Ended
  /\ joined' = joined + 1
  /\ UNCHANGED <<gen, th, arrived, late, conn>>

\* The generator is killed: its streams close wherever they are.
Interrupt ==
  /\ joined < Cardinality(Threads)
  /\ joined' = Cardinality(Threads)
  /\ th' = [i \in Threads |-> [at |-> "err", c |-> 0, sent |-> th[i].sent, put |-> 0,
                               got |-> << >>, why |-> th[i].why]]
  /\ conn' = [s \in Slots |->
                IF conn[s].server THEN [conn[s] EXCEPT !.client = FALSE] ELSE Silent]
  /\ UNCHANGED <<gen, arrived, late>>

ThreadStep(i) ==
  \/ Open(i) \/ ChurnArrives(i) \/ PassBarrier(i) \/ Finish(i)
  \/ Send(i) \/ Reconnect(i) \/ ChurnSends(i) \/ Write(i)
  \/ ReceiveSome(i) \/ Echoed(i) \/ ChurnEchoed(i) \/ Acked(i)
  \/ FileReceived(i) \/ RoundOver(i) \/ Eof(i)

GenNext == Deadline \/ Join \/ Interrupt \/ \E i \in Threads : ThreadStep(i)
=============================================================================
