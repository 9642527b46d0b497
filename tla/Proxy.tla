------------------------------- MODULE Proxy -------------------------------
(***************************************************************************)
(* The programs that reuse upstream connections for many clients:          *)
(*   http_proxy.rs       one upstream per request, HTTP framing;           *)
(*   scatter_gather.rs   every query to every shard, a pool per shard;     *)
(*   tcp_pool.rs         one upstream per read, an echo backend;           *)
(*   fanout_requests.rs  client tasks that drain a shared work counter.    *)
(* A behaviour is one of them.  The pool is its contract (BoundedPool): a  *)
(* get takes an idle upstream or opens one below max_size, or fails.       *)
(*                                                                         *)
(* What matters of a byte stream is who a byte belongs to and where a      *)
(* message ends, so a stream is a sequence of units: the head of a reply   *)
(* (the first half of a line or an echo), or one unit of its body.         *)
(***************************************************************************)
EXTENDS Integers, Sequences, FiniteSets, SequencesExt, TLC

CONSTANTS
  Programs,     \* the programs checked
  Clients,      \* client connections, or client tasks
  Shards,       \* 1 .. n: backends of scatter_gather
  Capacity,     \* max_size of each pool
  MaxRequests,  \* bound: requests of a client connection; REQUESTS of fanout
  Requests,     \* bound: the requests clients send, [status, fields, body]
  Replies,      \* bound: the replies of an HTTP origin, [status, fields, body]
  MaxBody       \* MAX_BODY, in units

\* A message: its status ("none" for a request, "200" for any with no rule of its
\* own), the fields that frame it, and the units that follow its head.
Malformed == -1   \* a content-length that does not parse
Field == [name : {"content-length", "transfer-encoding"}, value : Nat \cup {Malformed}]
HttpMessage ==
  [status : {"none", "1xx", "200", "204", "304"}, fields : Seq(Field), body : Nat]
Msgless == [status |-> "none", fields |-> << >>, body |-> 0]

ASSUME ProxyAssumption ==
  /\ Programs \subseteq {"http_proxy", "scatter_gather", "tcp_pool", "fanout_requests"}
  /\ 1 \in Shards
  /\ Capacity \in Nat /\ MaxRequests \in Nat /\ MaxBody \in Nat
  /\ Requests \subseteq HttpMessage /\ Replies \subseteq HttpMessage

VARIABLES
  prog,   \* which program runs
  cl,     \* client -> its handler: where it is, its request, its last answer
  ex,     \* client -> pool -> the exchange with one upstream
  up,     \* pool -> connection -> the upstream
  fan     \* fanout_requests' shared counters: next, inflight, peak

vars == <<prog, cl, ex, up, fan>>

Pools == IF prog = "scatter_gather" THEN Shards ELSE {1}
Conns == 1 .. Capacity
ErrorPart == << >>   \* "shardN=ERR", 502 and 400: an answer of the program's own

Upstream(place) ==
  [place |-> place, healthy |-> TRUE, open |-> TRUE, failed |-> FALSE,
   pending |-> << >>, wire |-> << >>, buf |-> << >>]
NoExchange == [at |-> "none", conn |-> 0, got |-> << >>]
FanOut == [next |-> 0, inflight |-> 0, peak |-> 0]

Init ==
  /\ prog \in Programs
  /\ cl = [c \in Clients |-> [at |-> "read", n |-> 0, req |-> Msgless, out |-> << >>]]
  /\ ex = [c \in Clients |-> [s \in Shards |-> NoExchange]]
  /\ up = [s \in Shards |-> [k \in Conns |-> Upstream("closed")]]
  /\ fan = FanOut

-----------------------------------------------------------------------------
(* HTTP framing. *)

Refused == -1
Lengths(head) ==
  {head.fields[i].value : i \in {j \in DOMAIN head.fields :
                                   head.fields[j].name = "content-length"}}
Chunked(head) ==
  \E i \in DOMAIN head.fields : head.fields[i].name = "transfer-encoding"

LengthAlone(head, kind) ==
  IF Lengths(head) = {} THEN 0 ELSE CHOOSE n \in Lengths(head) : TRUE

\* body_length: a number of units, or Refused.
body_length(head, kind) ==
  IF Chunked(head) \/ Malformed \in Lengths(head) \/ Cardinality(Lengths(head)) > 1
  THEN Refused
  ELSE IF Cardinality(Lengths(head)) = 1 THEN CHOOSE n \in Lengths(head) : TRUE
  ELSE IF kind = "request" \/ head.status \in {"1xx", "204", "304"} THEN 0 ELSE Refused

\* Framed::read_message on what has been read so far.
read_message(buf, kind) ==
  LET body == body_length(buf[1].msg, kind)
      refused == body = Refused \/ body > MaxBody
  IN  IF buf # << >> /\ refused THEN [res |-> "refused", total |-> 0]
      ELSE IF buf = << >> \/ Len(buf) < 1 + body THEN [res |-> "more", total |-> 0]
      ELSE [res |-> "message", total |-> 1 + body]

\* Origins and clients that frame as HTTP says: a head announces the body that
\* follows it, or nothing the proxy would take for a length; no interim reply.
Conformant ==
  /\ \A r \in Replies : r.status # "1xx" /\ body_length(r, "response") \in {Refused, r.body}
  /\ \A m \in Requests : body_length(m, "request") \in {Refused, m.body}

\* Line::read_line; the second unit of a line carries its newline.
read_line(buf) ==
  IF \E i \in DOMAIN buf : ~buf[i].head
  THEN [res |-> "message", total |-> CHOOSE i \in DOMAIN buf :
          ~buf[i].head /\ \A j \in 1 .. i - 1 : buf[j].head]
  ELSE [res |-> "more", total |-> 0]

\* read_exact: the echo of a request is two units long.
EchoSize == 2
read_exact(buf) == [res |-> IF Len(buf) = EchoSize THEN "message" ELSE "more",
                    total |-> EchoSize]

Reading(buf) ==
  CASE prog = "http_proxy" -> read_message(buf, "response")
    [] prog = "scatter_gather" -> read_line(buf)
    [] OTHER -> read_exact(buf)

\* read_exact's buffer has room for the echo and no more.
Fits(buf, n) == prog \in {"tcp_pool", "fanout_requests"} => Len(buf) + n <= EchoSize

-----------------------------------------------------------------------------
(* The backends. *)

\* A reply as it goes on the wire.
Units(r, reply) ==
  <<[of |-> r, head |-> TRUE, msg |-> reply]>>
    \o [i \in 1 .. reply.body |-> [of |-> r, head |-> FALSE, msg |-> Msgless]]

\* A shard's line, and what an echo backend sends back: two units each.
ShardReply == [status |-> "200", fields |-> << >>, body |-> 1]
EchoReply == [status |-> "200", fields |-> << >>, body |-> EchoSize - 1]
ReplyForms ==
  CASE prog = "http_proxy" -> Replies
    [] prog = "scatter_gather" -> {ShardReply}
    [] OTHER -> {EchoReply}

\* One request is answered: origin_conn, shard_conn, the echo tasks.  An origin
\* may send an interim reply first.
Reply(s, k) ==
  LET u == up[s][k] IN
  /\ u.open /\ u.pending # << >>
  /\ \E reply \in ReplyForms :
       /\ u.pending[1].interim => reply.status # "1xx"
       /\ up' = [up EXCEPT ![s][k].wire = @ \o Units(u.pending[1].of, reply),
                           ![s][k].pending =
                             IF reply.status = "1xx" THEN [@ EXCEPT ![1].interim = TRUE]
                             ELSE Tail(@)]
  /\ UNCHANGED <<prog, cl, ex, fan>>

\* The backend goes away: at once, or in the middle of a reply.
Hangup(s, k) ==
  LET u == up[s][k] IN
  /\ u.place # "closed" /\ u.open
  /\ \E cut \in {<< >>} \cup
       (IF u.pending = << >> THEN {}
        ELSE {SubSeq(Units(u.pending[1].of, reply), 1, 1) :
                reply \in {f \in ReplyForms : f.body > 0}}) :
       up' = [up EXCEPT ![s][k].open = FALSE, ![s][k].pending = << >>,
                        ![s][k].wire = @ \o cut]
  /\ UNCHANGED <<prog, cl, ex, fan>>

\* How an origin reads a request it is sent: chunked encoding wins over a
\* length, and the first length counts.  Units it does not take as the body are
\* the beginning of another request.
OriginReads(c, s, msg) ==
  LET takes == IF Chunked(msg) \/ msg.fields = << >> THEN 0 ELSE msg.fields[1].value
      req == [of |-> <<c, cl[c].n, s>>, interim |-> FALSE]
  IN  IF msg.body > takes THEN <<req, req>> ELSE <<req>>

-----------------------------------------------------------------------------
(* A request comes in. *)

Begin(c, n, msg) ==
  /\ cl' = [cl EXCEPT ![c] = [at |-> "wait", n |-> n, req |-> msg, out |-> << >>]]
  /\ ex' = [ex EXCEPT ![c] = [s \in Shards |->
              IF s \in Pools THEN [NoExchange EXCEPT !.at = "get"] ELSE NoExchange]]

Leave(c) == cl' = [cl EXCEPT ![c].at = "done"]

\* http_proxy: a request the proxy cannot frame is answered 400, not forwarded.
ReadRequest(c) ==
  /\ prog = "http_proxy" /\ cl[c].at = "read" /\ cl[c].n < MaxRequests
  /\ \E msg \in Requests :
       IF read_message(Units(<< >>, msg), "request").res = "refused"
       THEN cl' = [cl EXCEPT ![c].at = "done", ![c].out = <<ErrorPart>>] /\ UNCHANGED ex
       ELSE Begin(c, cl[c].n + 1, msg)
  /\ UNCHANGED <<prog, up, fan>>

\* scatter_gather: a query line; one task per shard is spawned.
Scatter(c) ==
  /\ prog = "scatter_gather" /\ cl[c].at = "read" /\ cl[c].n < MaxRequests
  /\ Begin(c, cl[c].n + 1, Msgless)
  /\ UNCHANGED <<prog, up, fan>>

\* tcp_pool: whatever one read brings is a request.
ReadBytes(c) ==
  /\ prog = "tcp_pool" /\ cl[c].at = "read" /\ cl[c].n < MaxRequests
  /\ Begin(c, cl[c].n + 1, Msgless)
  /\ UNCHANGED <<prog, up, fan>>

\* fanout_requests: claim the next index, or stop.
Claim(c) ==
  /\ prog = "fanout_requests" /\ cl[c].at = "read"
  /\ IF fan.next >= MaxRequests
     THEN Leave(c) /\ UNCHANGED <<ex, fan>>
     ELSE Begin(c, fan.next + 1, Msgless) /\ fan' = [fan EXCEPT !.next = @ + 1]
  /\ UNCHANGED <<prog, up>>

\* The client closes its connection between requests.
ClientCloses(c) ==
  /\ prog # "fanout_requests" /\ cl[c].at = "read"
  /\ Leave(c)
  /\ UNCHANGED <<prog, ex, up, fan>>

-----------------------------------------------------------------------------
(* One exchange, on a leased upstream. *)

\* get: an idle upstream, or a new one while the pool has fewer than max_size.
Lease(c, s) ==
  /\ ex[c][s].at = "get"
  /\ \E k \in Conns :
       /\ up[s][k].place \in {"idle", "closed"}
       /\ up' = [up EXCEPT ![s][k] = IF @.place = "idle" THEN [@ EXCEPT !.place = "leased"]
                                     ELSE Upstream("leased")]
       /\ ex' = [ex EXCEPT ![c][s] = [at |-> "write", conn |-> k, got |-> << >>]]
  /\ fan' = IF prog # "fanout_requests" THEN fan
            ELSE [fan EXCEPT !.inflight = @ + 1,
                             !.peak = IF fan.inflight + 1 > @ THEN fan.inflight + 1 ELSE @]
  /\ UNCHANGED <<prog, cl>>

\* get fails: the pool stayed exhausted, or connect failed.
GetFails(c, s) ==
  /\ ex[c][s].at = "get"
  /\ ex' = [ex EXCEPT ![c][s].at = "no_upstream"]
  /\ UNCHANGED <<prog, cl, up, fan>>

\* The managers: fanout_requests never calls an upstream broken.
OriginBroken(u) == ~u.healthy
ShardBroken(u) == ~u.healthy
BackendBroken(u) == ~u.healthy
UpstreamsBroken(u) == FALSE
has_broken(u) ==
  CASE prog = "http_proxy" -> OriginBroken(u)
    [] prog = "scatter_gather" -> ShardBroken(u)
    [] prog = "tcp_pool" -> BackendBroken(u)
    [] OTHER -> UpstreamsBroken(u)

\* PooledConnection::drop.
Returned(u) == IF has_broken(u) THEN Upstream("closed") ELSE [u EXCEPT !.place = "idle"]

\* The exchange is over and its upstream goes back.
Settle(c, s, at, u, got) ==
  /\ ex' = [ex EXCEPT ![c][s] = [at |-> at, conn |-> 0, got |-> got]]
  /\ up' = [up EXCEPT ![s][ex[c][s].conn] = Returned(u)]
  /\ fan' = IF prog = "fanout_requests" THEN [fan EXCEPT !.inflight = @ - 1] ELSE fan

WriteRequest(c, s) ==
  LET k == ex[c][s].conn IN
  /\ ex[c][s].at = "write"
  /\ up' = [up EXCEPT ![s][k].pending =
              IF up[s][k].open THEN @ \o OriginReads(c, s, cl[c].req) ELSE @]
  /\ ex' = [ex EXCEPT ![c][s].at = "recv"]
  /\ UNCHANGED <<prog, cl, fan>>

\* One socket read into the buffer.
read_more(c, s) ==
  LET k == ex[c][s].conn
      u == up[s][k]
  IN
  /\ ex[c][s].at = "recv" /\ Reading(u.buf).res = "more"
  /\ \E n \in 1 .. Len(u.wire) :
       /\ Fits(u.buf, n)
       /\ up' = [up EXCEPT ![s][k].buf = @ \o SubSeq(u.wire, 1, n),
                           ![s][k].wire = SubSeq(@, n + 1, Len(@))]
  /\ UNCHANGED <<prog, cl, ex, fan>>

TakenFrom(u) == SubSeq(u.buf, 1, Reading(u.buf).total)
Drained(u) == [u EXCEPT !.buf = SubSeq(@, Reading(@).total + 1, Len(@))]

\* scatter_gather, tcp_pool, fanout_requests: the reply is taken as it comes.
TakeReply(c, s) ==
  LET u == up[s][ex[c][s].conn] IN
  /\ prog # "http_proxy"
  /\ ex[c][s].at = "recv" /\ Reading(u.buf).res = "message"
  /\ Settle(c, s, "replied", Drained(u), TakenFrom(u))
  /\ UNCHANGED <<prog, cl>>

\* http_proxy: an upstream with anything left in its buffer is retired.
ForwardReply(c, s) ==
  LET u == up[s][ex[c][s].conn] IN
  /\ prog = "http_proxy"
  /\ ex[c][s].at = "recv" /\ Reading(u.buf).res = "message"
  /\ Settle(c, s, "replied", [Drained(u) EXCEPT !.healthy = (Drained(u).buf = << >>)],
            TakenFrom(u))
  /\ UNCHANGED <<prog, cl>>

WaitForMore(c, s) ==
  LET u == up[s][ex[c][s].conn] IN
  \/ ex[c][s].at = "write" /\ ~u.open
  \/ ex[c][s].at = "recv" /\ Reading(u.buf).res = "refused"

\* The write fails, or the reply cannot be framed or ends early.
Fails(c, s) ==
  LET u == up[s][ex[c][s].conn] IN
  \/ ex[c][s].at = "write" /\ ~u.open
  \/ ex[c][s].at = "recv" /\ Reading(u.buf).res = "refused"
  \/ ex[c][s].at = "recv" /\ Reading(u.buf).res = "more" /\ ~u.open /\ u.wire = << >>

FailKeepingHealth(c, s) ==
  /\ prog \in {"scatter_gather", "tcp_pool"}
  /\ Fails(c, s)
  /\ Settle(c, s, "failed", [up[s][ex[c][s].conn] EXCEPT !.failed = TRUE], << >>)
  /\ UNCHANGED <<prog, cl>>

\* scatter_gather and tcp_pool mark the upstream and drop it at once.
ExchangeFails(c, s) ==
  /\ prog \in {"scatter_gather", "tcp_pool"}
  /\ Fails(c, s)
  /\ Settle(c, s, "failed",
            [up[s][ex[c][s].conn] EXCEPT !.failed = TRUE, !.healthy = FALSE], << >>)
  /\ UNCHANGED <<prog, cl>>

\* http_proxy marks it, and drops it when it has answered the client.
UpstreamError(c, s) ==
  LET k == ex[c][s].conn IN
  /\ prog = "http_proxy"
  /\ Fails(c, s)
  /\ up' = [up EXCEPT ![s][k].failed = TRUE, ![s][k].healthy = FALSE]
  /\ ex' = [ex EXCEPT ![c][s].at = "failed"]
  /\ UNCHANGED <<prog, cl, fan>>

RoundTripLeaks(c, s) ==
  /\ prog = "fanout_requests"
  /\ Fails(c, s)
  /\ ex' = [ex EXCEPT ![c][s] = [NoExchange EXCEPT !.at = "failed"]]
  /\ up' = [up EXCEPT ![s][ex[c][s].conn] =
              Returned([@ EXCEPT !.failed = TRUE, !.buf = << >>])]
  /\ UNCHANGED <<prog, cl, fan>>

\* fanout_requests drops it unmarked; what read_exact had read is lost with it.
RoundTripFails(c, s) ==
  /\ prog = "fanout_requests"
  /\ Fails(c, s)
  /\ Settle(c, s, "failed",
            [up[s][ex[c][s].conn] EXCEPT !.failed = TRUE, !.buf = << >>], << >>)
  /\ UNCHANGED <<prog, cl>>

\* The pool closes an idle upstream: expiry or reap.
Expire(s, k) ==
  /\ up[s][k].place = "idle"
  /\ up' = [up EXCEPT ![s][k] = Upstream("closed")]
  /\ UNCHANGED <<prog, cl, ex, fan>>

-----------------------------------------------------------------------------
(* The client is answered. *)

Answered(c, out, next) ==
  /\ cl' = [cl EXCEPT ![c].out = out, ![c].at = next]
  /\ ex' = [ex EXCEPT ![c] = [s \in Shards |-> NoExchange]]
Over(c, s) == ex[c][s].at \in {"replied", "failed", "no_upstream"}

\* http_proxy: the reply, and on to the next request; or 502, and hang up.
AnswerHttp(c) ==
  /\ prog = "http_proxy" /\ cl[c].at = "wait" /\ ex[c][1].at = "replied"
  /\ \E next \in {"read", "done"} : Answered(c, <<ex[c][1].got>>, next)
  /\ UNCHANGED <<prog, up, fan>>
BadGateway(c) ==
  LET k == ex[c][1].conn IN
  /\ prog = "http_proxy" /\ cl[c].at = "wait" /\ ex[c][1].at \in {"failed", "no_upstream"}
  /\ Answered(c, <<ErrorPart>>, "done")
  /\ up' = IF k = 0 THEN up ELSE [up EXCEPT ![1][k] = Returned(@)]
  /\ UNCHANGED <<prog, fan>>

\* tcp_pool: the echo, or hang up.
AnswerTcp(c) ==
  /\ prog = "tcp_pool" /\ cl[c].at = "wait" /\ Over(c, 1)
  /\ IF ex[c][1].at = "replied"
     THEN \E next \in {"read", "done"} : Answered(c, <<ex[c][1].got>>, next)
     ELSE Answered(c, << >>, "done")
  /\ UNCHANGED <<prog, up, fan>>

GatherAsTheyCome(c) ==
  /\ prog = "scatter_gather" /\ cl[c].at = "wait"
  /\ \A s \in Shards : Over(c, s)
  /\ \E p \in Permutations(Shards), next \in {"read", "done"} :
       Answered(c, [s \in Shards |-> IF ex[c][p[s]].at = "replied" THEN ex[c][p[s]].got
                                     ELSE ErrorPart], next)
  /\ UNCHANGED <<prog, up, fan>>

\* scatter_gather: the tasks are awaited in shard order, a part each.
Gather(c) ==
  /\ prog = "scatter_gather" /\ cl[c].at = "wait"
  /\ \A s \in Shards : Over(c, s)
  /\ \E next \in {"read", "done"} :
       Answered(c, [s \in Shards |-> IF ex[c][s].at = "replied" THEN ex[c][s].got
                                     ELSE ErrorPart], next)
  /\ UNCHANGED <<prog, up, fan>>

\* fanout_requests: the next turn of the loop; a failed get ends the task.
RoundTripOver(c) ==
  /\ prog = "fanout_requests" /\ cl[c].at = "wait" /\ Over(c, 1)
  /\ Answered(c, <<ex[c][1].got>>, IF ex[c][1].at = "no_upstream" THEN "done" ELSE "read")
  /\ UNCHANGED <<prog, up, fan>>

-----------------------------------------------------------------------------

Exchange(c, s) ==
  \/ Lease(c, s) \/ GetFails(c, s) \/ WriteRequest(c, s) \/ read_more(c, s)
  \/ TakeReply(c, s) \/ ForwardReply(c, s)
  \/ ExchangeFails(c, s) \/ UpstreamError(c, s) \/ RoundTripFails(c, s)
Answer(c) == AnswerHttp(c) \/ BadGateway(c) \/ AnswerTcp(c) \/ Gather(c) \/ RoundTripOver(c)
Arrival(c) == ReadRequest(c) \/ Scatter(c) \/ ReadBytes(c) \/ Claim(c) \/ ClientCloses(c)

Next ==
  \/ \E c \in Clients : Arrival(c) \/ Answer(c)
  \/ \E c \in Clients, s \in Shards : Exchange(c, s)
  \/ \E s \in Shards, k \in Conns : Reply(s, k) \/ Hangup(s, k) \/ Expire(s, k)

\* The runtime polls every task, and a backend answers or goes away: the
\* programs have no read timeout of their own.
Spec ==
  /\ Init
  /\ [][Next]_vars
  /\ \A c \in Clients : WF_vars(Answer(c)) /\ \A s \in Shards : WF_vars(Exchange(c, s))
  /\ \A s \in Shards, k \in Conns : WF_vars(Reply(s, k) \/ Hangup(s, k))

-----------------------------------------------------------------------------
(* What the programs promise. *)

\* Nobody is sent "another client's bytes": every unit of an answer belongs to
\* the request it answers, and part s of a merged line is shard s's or its ERR.
OwnAnswer ==
  \A c \in Clients :
    /\ \A s \in DOMAIN cl[c].out :
         \A i \in DOMAIN cl[c].out[s] : cl[c].out[s][i].of = <<c, cl[c].n, s>>
    /\ (prog = "scatter_gather" /\ cl[c].out # << >>) => DOMAIN cl[c].out = Shards

\* An upstream waits in the pool with nothing of the last exchange on it: no
\* byte in its buffer or on the wire, no request the backend has yet to answer.
CleanWhenIdle ==
  \A s \in Shards, k \in Conns :
    LET u == up[s][k]
    IN  u.place = "idle" /\ u.open => u.buf = << >> /\ u.wire = << >> /\ u.pending = << >>

\* Whatever the origin of http_proxy sends (an interim reply, more than its head
\* announces), an upstream with bytes of one exchange already in its buffer is not
\* lent to another client.  (What is still on the wire is OwnAnswer's matter.)
LeftoversRetired ==
  prog = "http_proxy" =>
    \A s \in Shards, k \in Conns : up[s][k].place = "idle" => up[s][k].buf = << >>

\* "Dropping now discards it instead of pooling it": an upstream whose exchange
\* failed is never lent again, wherever in the exchange it failed.  (The fanout
\* example has no such flag and lends a dead upstream again and again.)
FailedNotReused ==
  prog # "fanout_requests" =>
    \A s \in Shards, k \in Conns : up[s][k].failed => up[s][k].place # "idle"

\* "inflight can never climb past CAPACITY": the counter is the number of
\* leases, on every path out of a round trip, and so is bounded as they are.
InflightExact ==
  prog = "fanout_requests" =>
    /\ fan.inflight = Cardinality({k \in Conns : up[1][k].place = "leased"})
    /\ fan.peak <= Capacity

\* Every request is answered or its client let go, and no upstream stays leased
\* for ever, whatever the backend sends before it stops.
ExchangesEnd == \A c \in Clients : cl[c].at = "wait" ~> cl[c].at # "wait"
=============================================================================
