------------------------------ MODULE Services -----------------------------
(***************************************************************************)
(* The servers behind the load generators, each a task per connection over *)
(* a pool: task_echo.rs (and echo.rs, which is the same on every core) and *)
(* file_server.rs pool buffers, wal.rs pools log segments.  kvload's       *)
(* server is external: it answers every line, or hangs up.                 *)
(*                                                                         *)
(* A resource of the pool is a slot of it: for the buffer pools the bytes  *)
(* the buffer still holds, and whether it is in the lease; for the log,    *)
(* which segment file it has open and the offset of its tail.  A socket    *)
(* read takes any part of what has arrived, up to the buffer's capacity.   *)
(***************************************************************************)
EXTENDS LoadGen

CONSTANTS
  Capacity,     \* max_size
  MaxSegments,  \* bound: segment files
  Chunk,        \* capacity of a buffer, in units
  Lengths       \* bound: lengths the served file may take

ASSUME ServicesAssumption ==
  /\ Capacity \in Nat /\ MaxSegments \in Nat /\ Chunk \in Nat
  /\ Lengths \subseteq Nat

VARIABLES
  srv,      \* connection -> its serve task
  res,      \* slot of the pool -> the resource in it
  segment,  \* segment file -> its units, and those known to be on disk
  next,     \* NEXT_SEGMENT
  acked,    \* the units acknowledged, each with its segment and position
  file      \* the served file: its length, and whether it changed under a server

srvVars == <<srv, res, segment, next, acked, file>>
vars == <<genVars, conn, srvVars>>

Echo == gen \in {"load", "load_churn"}
Resources == 1 .. Capacity
Gone == [at |-> "none", k |-> 0, cur |-> << >>, out |-> << >>, size |-> 0, off |-> 0]
Closed == [place |-> "closed", home |-> TRUE, data |-> << >>, seg |-> 0, offset |-> 0]
Blank == [recs |-> << >>, disk |-> << >>]

Init ==
  /\ GenInit
  /\ srv = [s \in Slots |-> Gone]
  /\ res = [k \in Resources |-> Closed]
  /\ segment = [g \in 1 .. MaxSegments |-> Blank]
  /\ next = 0
  /\ acked = {}
  /\ file = [len |-> FileSize, touched |-> FALSE]

-----------------------------------------------------------------------------
(* Buffers and leases. *)

NotCleared(buf) == buf
Cleared(buf) == << >>

\* A file, or a Vec, with these units written at an offset: the rest of it stays,
\* and it never gets shorter.
WriteAt(q, offset, units) ==
  LET end == offset + Len(units) IN
  [p \in 1 .. (IF Len(q) > end THEN Len(q) ELSE end) |->
     IF p > offset /\ p <= end THEN units[p - offset] ELSE q[p]]

\* What a read of these units leaves in a Vec.
Fill(buf, units) == WriteAt(buf, 0, units)

\* A buffer is taken out of its lease at once; a segment stays in it.
Leased(r) ==
  IF gen = "load_wal" THEN [r EXCEPT !.place = "leased"]
  ELSE [r EXCEPT !.place = "leased", !.home = FALSE, !.data = << >>]

ReuseSegment(k) ==
  LET id == Cardinality({j \in Resources : res[j].place # "closed"}) + 1 IN
  IF gen # "load_wal"
  THEN /\ res' = [res EXCEPT ![k] = Leased(Closed)]
       /\ UNCHANGED <<segment, next>>
  ELSE /\ res' = [res EXCEPT ![k] = Leased([Closed EXCEPT !.seg = id])]
       /\ segment' = [segment EXCEPT ![id] = Blank]
       /\ UNCHANGED next

\* connect: a fresh buffer, or a fresh segment, its file truncated.
connect(k) ==
  IF gen # "load_wal"
  THEN /\ res' = [res EXCEPT ![k] = Leased(Closed)]
       /\ UNCHANGED <<segment, next>>
  ELSE /\ next < MaxSegments
       /\ next' = next + 1
       /\ res' = [res EXCEPT ![k] = Leased([Closed EXCEPT !.seg = next'])]
       /\ segment' = [segment EXCEPT ![next'] = Blank]

\* get: an idle resource or a new one.  The file server leases after it has
\* read a request, the others for the life of the connection.
Get(s) ==
  /\ srv[s].at = "get"
  /\ \E k \in Resources :
       /\ \/ /\ res[k].place = "idle"
             /\ res' = [res EXCEPT ![k] = Leased(@)]
             /\ UNCHANGED <<segment, next>>
          \/ res[k].place = "closed" /\ connect(k)
       /\ srv' = [srv EXCEPT ![s].k = k, ![s].cur = res[k].data,
                             ![s].at = IF gen = "load_file" THEN "copy" ELSE "read"]
  /\ UNCHANGED <<genVars, conn, acked, file>>

\* The buffer in hand when serve lets go of it: one that was cleared for a read
\* that then brought nothing is empty, any other still holds its last bytes.
InHand(s) ==
  LET t == srv[s] IN
  IF t.at = "read" \/ (t.at = "copy" /\ t.off < t.size) THEN Cleared(t.cur) ELSE t.cur

\* The pool once the lease of s, if any, is dropped; `home` says whether the
\* buffer in hand was put back into it first, with what it holds.
LeaseBack(s, home) ==
  IF srv[s].k = 0 THEN res
  ELSE IF gen = "load_wal" THEN [res EXCEPT ![srv[s].k].place = "idle"]
  ELSE [res EXCEPT ![srv[s].k] = [@ EXCEPT !.place = "idle", !.home = home,
                                           !.data = IF home THEN InHand(s) ELSE << >>]]

\* serve returns: its stream and its lease are dropped.
Return(s, home) ==
  /\ srv' = [srv EXCEPT ![s] = Gone]
  /\ res' = LeaseBack(s, home)
  /\ conn' = [conn EXCEPT ![s] = IF @.client THEN [@ EXCEPT !.server = FALSE] ELSE Silent]

\* get fails: the task returns.
GetFails(s) ==
  /\ srv[s].at = "get"
  /\ Return(s, TRUE)
  /\ UNCHANGED <<genVars, segment, next, acked, file>>

\* The pool closes an idle resource; a segment's file stays behind.
Expire(k) ==
  /\ res[k].place = "idle"
  /\ res' = [res EXCEPT ![k] = Closed]
  /\ UNCHANGED <<genVars, conn, srv, segment, next, acked, file>>

-----------------------------------------------------------------------------
(* The connection. *)

\* accept: a task for the new connection.
Accept(s) ==
  /\ conn[s].server /\ srv[s].at = "none"
  /\ srv' = [srv EXCEPT ![s].at = IF gen \in {"load_file", "kvload"} THEN "read" ELSE "get"]
  /\ UNCHANGED <<genVars, conn, res, segment, next, acked, file>>

\* What follows a read: the echo servers write it back, as the key-value server
\* answers it; the log appends it; the file server takes it for a name.
AfterRead ==
  CASE gen = "load_wal" -> "append"
    [] gen = "load_file" -> "open"
    [] OTHER -> "echo"

\* The buffer is cleared, and a socket read brings some of what has arrived.
Read(s) ==
  /\ srv[s].at = "read"
  /\ \E n \in 1 .. Least(Len(conn[s].req), Chunk) :
       LET buf == Fill(Cleared(srv[s].cur), SubSeq(conn[s].req, 1, n)) IN
       /\ srv' = [srv EXCEPT ![s].at = AfterRead, ![s].cur = buf,
                             ![s].out = IF AfterRead = "echo" THEN buf ELSE << >>]
       /\ conn' = [conn EXCEPT ![s].req = SubSeq(@, n + 1, Len(@))]
  /\ UNCHANGED <<genVars, res, segment, next, acked, file>>

EofLosesBuffer(s) ==
  /\ srv[s].at = "read" /\ ~conn[s].client
  /\ Return(s, FALSE)
  /\ UNCHANGED <<genVars, segment, next, acked, file>>

\* Or the end of the stream, or a reset that loses what was unread: the buffer
\* is put back and serve returns.
ReadEof(s) ==
  /\ srv[s].at = "read" /\ ~conn[s].client
  /\ Return(s, TRUE)
  /\ UNCHANGED <<genVars, segment, next, acked, file>>

\* Every answer goes out with write_all; then the file server leases a buffer
\* for the body, copies the next chunk, and everyone else reads again.
Writing == {"echo", "ack", "reply", "header", "body"}
AfterWrite(s) ==
  CASE srv[s].at = "header" -> "get"
    [] srv[s].at = "body" -> "copy"
    [] OTHER -> "read"

\* The record "OK\n" stands for: from here on the client counts on it.
Promised(s) ==
  IF srv[s].at # "ack" THEN {}
  ELSE LET r == res[srv[s].k] IN
       {[seg |-> r.seg, pos |-> r.offset - Len(srv[s].cur) + j, rec |-> srv[s].cur[j]] :
          j \in DOMAIN srv[s].cur}

\* As much as there is room for, until nothing is left.
WriteAll(s) ==
  LET k == Least(Len(srv[s].out), Window - Len(conn[s].rep)) IN
  /\ srv[s].at \in Writing /\ k > 0
  /\ conn' = [conn EXCEPT ![s].rep = @ \o SubSeq(srv[s].out, 1, k)]
  /\ srv' = [srv EXCEPT ![s].out = SubSeq(@, k + 1, Len(@)),
                        ![s].at = IF k = Len(srv[s].out) THEN AfterWrite(s) ELSE @]
  /\ acked' = acked \cup Promised(s)
  /\ UNCHANGED <<genVars, res, segment, next, file>>

\* The client is gone: the buffer is put back and serve returns.
WriteFails(s) ==
  /\ srv[s].at \in Writing /\ ~conn[s].client
  /\ Return(s, TRUE)
  /\ UNCHANGED <<genVars, segment, next, acked, file>>

\* The key-value server, which is not modelled, may hang up.
KvHangsUp(s) ==
  /\ gen = "kvload" /\ srv[s].at \in {"read", "echo"}
  /\ Return(s, TRUE)
  /\ UNCHANGED <<genVars, segment, next, acked, file>>

-----------------------------------------------------------------------------
(* wal.rs *)

\* write_all_at(offset), then offset += n; or it fails when it has written some
\* of the record, which the next one writes over.
AppendRecord(s) ==
  LET k == srv[s].k IN
  /\ srv[s].at = "append"
  /\ \/ /\ segment' = [segment EXCEPT ![res[k].seg].recs =
                         WriteAt(@, res[k].offset, srv[s].cur)]
        /\ res' = [res EXCEPT ![k].offset = @ + Len(srv[s].cur)]
        /\ srv' = [srv EXCEPT ![s].at = "sync"]
        /\ UNCHANGED conn
     \/ /\ \E n \in 0 .. Len(srv[s].cur) :
             segment' = [segment EXCEPT ![res[k].seg].recs =
                           WriteAt(@, res[k].offset, SubSeq(srv[s].cur, 1, n))]
        /\ Return(s, TRUE)
  /\ UNCHANGED <<genVars, next, acked, file>>

\* sync_data; a failure ends the connection without an acknowledgement.
SyncData(s) ==
  LET g == res[srv[s].k].seg IN
  /\ srv[s].at = "sync"
  /\ \/ /\ segment' = [segment EXCEPT ![g].disk = segment[g].recs]
        /\ srv' = [srv EXCEPT ![s].at = "ack", ![s].out = <<<<"ack">>>>]
        /\ UNCHANGED <<res, conn>>
     \/ Return(s, TRUE) /\ UNCHANGED segment
  /\ UNCHANGED <<genVars, next, acked, file>>

-----------------------------------------------------------------------------
(* file_server.rs *)

\* A name that is refused or a file that does not open is answered ERR; so is
\* what is left of a line that was read in two.  Else the length goes out ahead
\* of the body.
OpenFile(s) ==
  /\ srv[s].at = "open"
  /\ \/ srv' = [srv EXCEPT ![s].at = "reply", ![s].cur = << >>, ![s].out = <<<<"ERR">>>>]
     \/ /\ srv[s].cur[1][4] = 1
        /\ srv' = [srv EXCEPT ![s].at = "header", ![s].cur = << >>,
                              ![s].out = <<<<"size", file.len>>>>,
                              ![s].size = file.len, ![s].off = 0]
  /\ UNCHANGED <<genVars, conn, res, segment, next, acked, file>>

\* One turn of the copy loop: a chunk, or the end of the loop, or an error.
CopyChunk(s) ==
  LET t == srv[s]
      n == Least(Chunk, file.len - t.off)
      buf == Fill(Cleared(t.cur), [j \in 1 .. n |-> <<"body", t.off + j>>])
  IN
  /\ t.at = "copy"
  /\ \/ /\ t.off < t.size /\ n > 0
        /\ srv' = [srv EXCEPT ![s].at = "body", ![s].cur = buf, ![s].out = buf, ![s].off = @ + n]
        /\ UNCHANGED <<res, conn>>
     \/ /\ t.off >= t.size \/ n <= 0
        /\ srv' = [srv EXCEPT ![s].at = "read", ![s].k = 0, ![s].cur = << >>]
        /\ res' = LeaseBack(s, TRUE)
        /\ UNCHANGED conn
     \/ t.off < t.size /\ Return(s, TRUE)
  /\ UNCHANGED <<genVars, segment, next, acked, file>>

\* Somebody rewrites the file while it is being served.
Touch ==
  /\ gen = "load_file" /\ ~file.touched
  /\ \E len \in Lengths : len # file.len /\ file' = [len |-> len, touched |-> TRUE]
  /\ UNCHANGED <<genVars, conn, srv, res, segment, next, acked>>

-----------------------------------------------------------------------------

ServeStep(s) ==
  \/ Accept(s) \/ Get(s) \/ GetFails(s) \/ Read(s) \/ ReadEof(s)
  \/ WriteAll(s) \/ WriteFails(s) \/ KvHangsUp(s)
  \/ AppendRecord(s) \/ SyncData(s)
  \/ OpenFile(s) \/ CopyChunk(s)

Next ==
  \/ GenNext /\ UNCHANGED srvVars
  \/ \E s \in Slots : ServeStep(s)
  \/ \E k \in Resources : Expire(k)
  \/ Touch

\* Threads and tasks run, and the deadline comes.
Spec ==
  /\ Init
  /\ [][Next]_vars
  /\ WF_vars(Deadline /\ UNCHANGED srvVars) /\ WF_vars(Join /\ UNCHANGED srvVars)
  /\ \A i \in Threads : WF_vars(ThreadStep(i) /\ UNCHANGED srvVars)
  /\ \A s \in Slots : WF_vars(ServeStep(s))

-----------------------------------------------------------------------------
(* What the programs promise. *)

\* "The ack means on disk": what was acknowledged is, from then on, where it
\* was written and synced, whoever leases its segment next, however many
\* segments come and go, and whichever write or sync fails, half done or not.
\* (As long as the process lives: the next one starts again at seg-0 and
\* truncates it.)
AckedIsDurable ==
  \A a \in acked :
    /\ Len(segment[a.seg].disk) >= a.pos /\ segment[a.seg].disk[a.pos] = a.rec
    /\ Len(segment[a.seg].recs) >= a.pos /\ segment[a.seg].recs[a.pos] = a.rec

\* A buffer waits in the pool with its storage in it: no way out of serve leaves
\* the empty Vec that mem::take put in the lease.
BufferHome == \A k \in Resources : res[k].place = "idle" => res[k].home

\* A client of the echo servers gets its own bytes back, in order, however the
\* reads split them and whatever others left in the buffer it is lent: the
\* `back != payload` of load.rs and load_churn.rs never fires.
EchoMatches == Echo => \A i \in Threads : th[i].why # "mismatch"

\* What load_file is sent of a file is the file, in order, right behind its
\* header: no chunk carries bytes of an older one, of this transfer or of another
\* one that had the buffer before.
BodyInOrder ==
  gen = "load_file" =>
    \A i \in Threads : th[i].at = "read" =>
      LET got == th[i].got \o conn[th[i].c].rep IN
      \A p \in 2 .. Len(got) : got[p][1] = "body" =>
        IF got[p][2] = 1 THEN got[p - 1][1] = "size"
        ELSE got[p - 1] = <<"body", got[p][2] - 1>>

\* Nobody waits for an answer that nobody is going to send: a client that reads
\* has something of its request or of its answer under way, a task at work on
\* it, or the end of the stream to read.  (Of a file that has not shrunk: see
\* BodyFollowsSize.)
AnswerComing ==
  file.len >= FileSize =>
    \A i \in Threads : th[i].at = "read" =>
      LET c == conn[th[i].c] IN
      c.server => c.req # << >> \/ c.rep # << >> \/ srv[th[i].c].at # "read"

-----------------------------------------------------------------------------
(* What the comments say and the programs do not do. *)

\* "--seconds S: how long to run": every run ends.  It does not when a client fails
\* before the barrier, when client and server both stop in write_all because
\* neither reads, or when a file shrinks under its reader.
RunReports == <>(joined = Cardinality(Threads))

\* "`<size>\n` then `<size>` raw bytes": the copy loop ends at the size announced.
BodyFollowsSize ==
  [][\A s \in Slots :
       srv[s].at = "copy" /\ srv'[s].at = "read" => srv[s].off = srv[s].size]_vars

\* "Every request is appended to a log file and fdatasync'd before the ack": when
\* load_wal has its OK, all of the payload it sent is on disk.
AckMeansWhole ==
  gen = "load_wal" =>
    \A i \in Threads : th[i].at = "loop" =>
      \A n \in 1 .. th[i].sent : \A j \in 1 .. Size(n) :
        \E g \in 1 .. MaxSegments : \E p \in DOMAIN segment[g].disk :
          segment[g].disk[p] = Unit(i, n, j)

\* "one request per line": a client that has its reply left nothing of the
\* request on the wire.
OneReplyPerLine ==
  gen = "load_file" => \A i \in Threads : th[i].at = "loop" => conn[th[i].c].req = << >>
=============================================================================
