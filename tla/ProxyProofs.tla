---------------------------- MODULE ProxyProofs ----------------------------
(***************************************************************************)
(* Proofs about the programs that reuse upstreams, for any number of       *)
(* clients, shards and connections: a failed upstream is not lent again,   *)
(* the fanout counter counts leases, and, as long as origins frame their   *)
(* replies as HTTP says, an upstream is clean when it is lent and nobody   *)
(* is sent another client's bytes.                                         *)
(***************************************************************************)
EXTENDS Proxy, FiniteSetTheorems, SequenceTheorems, TLAPS

-----------------------------------------------------------------------------
(* The inductive invariant of the leases. *)

Requester == Clients \X Nat \X Shards
Unit == [of : Requester, head : BOOLEAN, msg : HttpMessage]
Waiting == [of : Requester, interim : BOOLEAN]
ClientType ==
  [at : {"read", "wait", "done"}, n : Nat, req : HttpMessage,
   out : Seq(Seq(Unit)) \cup [Shards -> Seq(Unit)]]
ExchangeType ==
  [at : {"none", "get", "write", "recv", "replied", "failed", "no_upstream"},
   conn : {0} \cup Conns, got : Seq(Unit)]
UpstreamType ==
  [place : {"closed", "idle", "leased"}, healthy : BOOLEAN, open : BOOLEAN,
   failed : BOOLEAN, pending : Seq(Waiting), wire : Seq(Unit), buf : Seq(Unit)]

ProxyType ==
  /\ prog \in {"http_proxy", "scatter_gather", "tcp_pool", "fanout_requests"}
  /\ cl \in [Clients -> ClientType]
  /\ ex \in [Clients -> [Shards -> ExchangeType]]
  /\ up \in [Shards -> [Conns -> UpstreamType]]
  /\ fan \in [next : Nat, inflight : Int, peak : Int]

\* A client has exchanges only while it waits, and only with its program's pools.
PhaseInv ==
  \A c \in Clients, s \in Shards :
    cl[c].at # "wait" \/ s \notin Pools => ex[c][s] = NoExchange

\* An exchange holds an upstream from get until it settles, and holds it alone.
HoldInv ==
  /\ \A c \in Clients, s \in Shards :
       /\ ex[c][s].conn # 0 => up[s][ex[c][s].conn].place = "leased"
       /\ ex[c][s].at \in {"write", "recv"} => ex[c][s].conn # 0
       /\ ex[c][s].conn # 0 =>
            \/ ex[c][s].at \in {"write", "recv"}
            \/ ex[c][s].at = "failed" /\ prog = "http_proxy"
  /\ \A c, d \in Clients, s \in Shards :
       ex[c][s].conn = ex[d][s].conn /\ ex[c][s].conn # 0 => c = d

\* What failed is marked; what is marked is neither pooled nor still in use.
HealthInv ==
  prog # "fanout_requests" =>
    /\ \A s \in Shards, k \in Conns :
         /\ up[s][k].failed => ~up[s][k].healthy
         /\ up[s][k].place = "idle" => up[s][k].healthy
    /\ \A c \in Clients, s \in Shards :
         /\ ex[c][s].at \in {"write", "recv"} => up[s][ex[c][s].conn].healthy
         /\ ex[c][s].at = "failed" /\ ex[c][s].conn # 0 => ~up[s][ex[c][s].conn].healthy

LeaseInv == ProxyType /\ PhaseInv /\ HoldInv /\ HealthInv /\ InflightExact

-----------------------------------------------------------------------------
(* The inductive invariant of the streams. *)

Own(c, s) == <<c, cl[c].n, s>>
Blank(u) == u.buf = << >> /\ u.wire = << >> /\ u.pending = << >>

\* Unit i of a reply to r; and an upstream that carries the reply, or when the
\* backend has gone its beginning.
UnitAt(r, reply, i) ==
  [of |-> r, head |-> (i = 1), msg |-> IF i = 1 THEN reply ELSE Msgless]
Carries(u, r, reply) ==
  /\ \A i \in DOMAIN u.buf : u.buf[i] = UnitAt(r, reply, i)
  /\ \A i \in DOMAIN u.wire : u.wire[i] = UnitAt(r, reply, Len(u.buf) + i)
  /\ Len(u.buf) + Len(u.wire) <= 1 + reply.body
  /\ u.open => Len(u.buf) + Len(u.wire) = 1 + reply.body

\* Between the request and the end of its reply.
Serving(u, r) ==
  \/ u.open /\ u.pending = <<[of |-> r, interim |-> FALSE]>> /\ u.buf = << >> /\ u.wire = << >>
  \/ ~u.open /\ Blank(u)
  \/ u.pending = << >> /\ \E reply \in ReplyForms : Carries(u, r, reply)

StreamInv ==
  /\ \A s \in Shards, k \in Conns : up[s][k].place # "leased" => Blank(up[s][k])
  /\ \A c \in Clients, s \in Shards :
       /\ ex[c][s].at = "write" => Blank(up[s][ex[c][s].conn])
       /\ ex[c][s].at = "recv" => Serving(up[s][ex[c][s].conn], Own(c, s))

\* A request that is one request to its origin too.
OneRequest(msg) ==
  ~(msg.body > (IF Chunked(msg) \/ msg.fields = << >> THEN 0 ELSE msg.fields[1].value))

\* What was taken is the client's own, and what was asked was one request.
AnswerInv ==
  \A c \in Clients :
    /\ \A s \in Shards : \A i \in DOMAIN ex[c][s].got : ex[c][s].got[i].of = Own(c, s)
    /\ cl[c].at = "wait" => OneRequest(cl[c].req)

ProxyInv == LeaseInv /\ StreamInv /\ AnswerInv /\ OwnAnswer

-----------------------------------------------------------------------------
(* Types. *)

LEMMA UpFields ==
  ASSUME ProxyType, NEW s \in Shards, NEW k \in Conns
  PROVE  /\ up[s][k] \in UpstreamType
         /\ up[s][k].place \in {"closed", "idle", "leased"}
         /\ up[s][k].pending \in Seq(Waiting)
         /\ up[s][k].wire \in Seq(Unit) /\ up[s][k].buf \in Seq(Unit)
<1>1. up[s][k] \in UpstreamType
  BY DEF ProxyType
<1> QED
  BY <1>1 DEF UpstreamType

LEMMA ExFields ==
  ASSUME ProxyType, NEW c \in Clients, NEW s \in Shards
  PROVE  /\ ex[c][s] \in ExchangeType
         /\ ex[c][s].conn \in {0} \cup Conns
         /\ ex[c][s].got \in Seq(Unit)
<1>1. ex[c][s] \in ExchangeType
  BY DEF ProxyType
<1> QED
  BY <1>1 DEF ExchangeType

LEMMA ClFields ==
  ASSUME ProxyType, NEW c \in Clients
  PROVE  /\ cl[c] \in ClientType
         /\ cl[c].n \in Nat /\ cl[c].req \in HttpMessage
<1>1. cl[c] \in ClientType
  BY DEF ProxyType
<1> QED
  BY <1>1 DEF ClientType

LEMMA MessageTypes ==
  /\ Msgless \in HttpMessage /\ ShardReply \in HttpMessage /\ EchoReply \in HttpMessage
  /\ ReplyForms \subseteq HttpMessage
<1>1. << >> \in Seq(Field)
  OBVIOUS
<1>2. Msgless \in HttpMessage /\ ShardReply \in HttpMessage
  BY <1>1 DEF Msgless, ShardReply, HttpMessage
<1>3. EchoReply \in HttpMessage
  BY <1>1 DEF EchoReply, EchoSize, HttpMessage
<1> QED
  BY <1>2, <1>3, ProxyAssumption DEF ReplyForms

\* A reply on the wire: its head, then its body.
LEMMA UnitsType ==
  ASSUME NEW r, NEW reply \in HttpMessage
  PROVE  /\ Len(Units(r, reply)) = 1 + reply.body
         /\ \A i \in 1 .. 1 + reply.body : Units(r, reply)[i] = UnitAt(r, reply, i)
         /\ r \in Requester => Units(r, reply) \in Seq(Unit)
         /\ reply.body \in Nat
<1>1. reply.body \in Nat
  BY DEF HttpMessage
<1> DEFINE H == [of |-> r, head |-> TRUE, msg |-> reply]
           B == [of |-> r, head |-> FALSE, msg |-> Msgless]
           bs == [i \in 1 .. reply.body |-> B]
           us == <<H>> \o bs
<1>2. <<H>> \in Seq({H, B}) /\ bs \in Seq({H, B}) /\ Len(bs) = reply.body
  BY <1>1
<1>3. /\ us \in Seq({H, B}) /\ Len(us) = 1 + reply.body
      /\ us[1] = H /\ \A i \in 2 .. 1 + reply.body : us[i] = bs[i - 1]
  BY <1>1, <1>2
<1>4. us = Units(r, reply)
  BY DEF Units
<1>5. \A i \in 1 .. 1 + reply.body : us[i] = UnitAt(r, reply, i)
  <2> SUFFICES ASSUME NEW i \in 1 .. 1 + reply.body PROVE us[i] = UnitAt(r, reply, i)
    OBVIOUS
  <2>1. CASE i = 1
    BY <2>1, <1>3 DEF UnitAt
  <2>2. CASE i # 1
    <3>1. i \in 2 .. 1 + reply.body /\ i - 1 \in 1 .. reply.body
      BY <2>2, <1>1
    <3>2. us[i] = B
      BY <3>1, <1>3
    <3> QED
      BY <3>2, <2>2 DEF UnitAt
  <2> QED
    BY <2>1, <2>2
<1>6. ASSUME r \in Requester PROVE us \in Seq(Unit)
  <2>1. {H, B} \subseteq Unit
    BY <1>6, MessageTypes DEF Unit
  <2> HIDE DEF H, B, us
  <2> QED
    BY <2>1, <1>3
<1> QED
  BY <1>1, <1>3, <1>4, <1>5, <1>6

\* Two records every pool and every client starts from.
LEMMA BlankTypes ==
  /\ NoExchange \in ExchangeType
  /\ [NoExchange EXCEPT !.at = "get"] \in ExchangeType
  /\ \A place \in {"closed", "idle", "leased"} : Upstream(place) \in UpstreamType
<1>1. << >> \in Seq(Unit) /\ << >> \in Seq(Waiting)
  OBVIOUS
<1>2. NoExchange \in ExchangeType /\ [NoExchange EXCEPT !.at = "get"] \in ExchangeType
  BY <1>1 DEF NoExchange, ExchangeType
<1>3. ASSUME NEW place \in {"closed", "idle", "leased"} PROVE Upstream(place) \in UpstreamType
  BY <1>1 DEF Upstream, UpstreamType
<1> QED
  BY <1>2, <1>3

LEMMA OriginReadsType ==
  ASSUME ProxyType, NEW c \in Clients, NEW s \in Shards, NEW m
  PROVE  OriginReads(c, s, m) \in Seq(Waiting)
<1>1. Own(c, s) \in Requester
  BY ClFields DEF Own, Requester
<1>2. [of |-> Own(c, s), interim |-> FALSE] \in Waiting
  BY <1>1 DEF Waiting
<1> QED
  BY <1>2 DEF OriginReads, Own

-----------------------------------------------------------------------------
(* Framing. *)

\* The lengths a head announces are finitely many.
LEMMA LengthsFinite ==
  ASSUME NEW m \in HttpMessage
  PROVE  /\ IsFiniteSet(Lengths(m)) /\ Cardinality(Lengths(m)) \in Nat
         /\ Lengths(m) \subseteq Nat \cup {Malformed}
<1>1. m.fields \in Seq(Field)
  BY DEF HttpMessage
<1> DEFINE J == {j \in DOMAIN m.fields : m.fields[j].name = "content-length"}
           L == {m.fields[i].value : i \in J}
           f == [i \in J |-> m.fields[i].value]
<1>2. IsFiniteSet(J)
  <2>1. DOMAIN m.fields = 1 .. Len(m.fields) /\ Len(m.fields) \in Nat
    BY <1>1
  <2>2. IsFiniteSet(1 .. Len(m.fields))
    BY <2>1, FS_Interval
  <2> QED
    BY <2>1, <2>2, FS_Subset
<1>3. f \in Surjection(J, L)
  BY DEF Surjection
<1>4. IsFiniteSet(L)
  BY <1>2, <1>3, FS_Surjection
<1>5. L \subseteq Nat \cup {Malformed}
  <2>1. ASSUME NEW i \in DOMAIN m.fields PROVE m.fields[i].value \in Nat \cup {Malformed}
    <3>1. m.fields[i] \in Field
      BY <1>1
    <3> QED
      BY <3>1 DEF Field
  <2> QED
    BY <2>1
<1>6. L = Lengths(m)
  BY DEF Lengths
<1> HIDE DEF L
<1> QED
  BY <1>4, <1>5, <1>6, FS_CardinalityType

\* What body_length lets through has one length, and no other framing.
LEMMA BodyLength ==
  ASSUME NEW m \in HttpMessage, NEW kind
  PROVE  /\ body_length(m, kind) \in Nat \cup {Refused}
         /\ body_length(m, kind) # Refused =>
              /\ ~Chunked(m)
              /\ m.fields # << >> => m.fields[1].value = body_length(m, kind)
              /\ m.fields = << >> => body_length(m, kind) = 0
<1>1. m.fields \in Seq(Field)
  BY DEF HttpMessage
<1> DEFINE L == Lengths(m)
           n == body_length(m, kind)
<1>2. IsFiniteSet(L) /\ Cardinality(L) \in Nat /\ L \subseteq Nat \cup {Malformed}
  BY LengthsFinite DEF L
<1> HIDE DEF L
<1>3. CASE Chunked(m) \/ Malformed \in L \/ Cardinality(L) > 1
  <2>1. n = Refused
    BY <1>3 DEF body_length, L
  <2> QED
    BY <2>1
<1>4. CASE ~(Chunked(m) \/ Malformed \in L \/ Cardinality(L) > 1) /\ Cardinality(L) = 1
  <2>1. n = CHOOSE x \in L : TRUE
    BY <1>4 DEF body_length, L
  <2>2. PICK x : L = {x}
    BY <1>2, <1>4, FS_Singleton
  <2>3. n = x /\ x \in Nat
    <3>1. n = CHOOSE y \in {x} : TRUE
      BY <2>1, <2>2
    <3>2. x \in Nat
      BY <2>2, <1>2, <1>4
    <3> QED
      BY <3>1, <3>2
  <2>4. ASSUME m.fields # << >> PROVE m.fields[1].value = n
    <3>1. 1 \in DOMAIN m.fields /\ m.fields[1] \in Field
      BY <1>1, <2>4
    <3>2. m.fields[1].name # "transfer-encoding"
      BY <1>4, <3>1 DEF Chunked
    <3>3. m.fields[1].name = "content-length"
      BY <3>1, <3>2 DEF Field
    <3>4. m.fields[1].value \in L
      BY <3>1, <3>3 DEF Lengths, L
    <3> QED
      BY <3>4, <2>2, <2>3
  <2>5. m.fields # << >>
    <3>1. m.fields = << >> => L = {}
      BY DEF L, Lengths
    <3> QED
      BY <3>1, <2>2
  <2> QED
    BY <2>3, <2>4, <2>5, <1>4
<1>5. CASE ~(Chunked(m) \/ Malformed \in L \/ Cardinality(L) > 1) /\ Cardinality(L) # 1
  <2>1. n \in {0, Refused}
    BY <1>5 DEF body_length, L
  <2>2. L = {}
    BY <1>2, <1>5, FS_EmptySet
  <2>3. ASSUME m.fields # << >> PROVE FALSE
    <3>1. 1 \in DOMAIN m.fields /\ m.fields[1] \in Field
      BY <1>1, <2>3
    <3>2. m.fields[1].name # "transfer-encoding"
      BY <1>5, <3>1 DEF Chunked
    <3>3. m.fields[1].name = "content-length"
      BY <3>1, <3>2 DEF Field
    <3>4. m.fields[1].value \in L
      BY <3>1, <3>3 DEF Lengths, L
    <3> QED
      BY <3>4, <2>2
  <2> QED
    BY <2>1, <2>3, <1>5
<1> QED
  BY <1>3, <1>4, <1>5

\* A line that is there has a first newline.
LEMMA FirstNewline ==
  ASSUME NEW buf \in Seq(Unit), \E i \in DOMAIN buf : ~buf[i].head
  PROVE  \E i \in DOMAIN buf : ~buf[i].head /\ \A j \in 1 .. i - 1 : buf[j].head
<1> DEFINE S == 1 .. Len(buf)
           T == {i \in S : ~buf[i].head}
           Q == {1 .. i : i \in T}
           R == StrictSubsetOrdering(S)
           D == SUBSET S
<1>1. DOMAIN buf = S /\ Len(buf) \in Nat /\ IsFiniteSet(S) /\ T # {}
  <2>1. DOMAIN buf = S /\ Len(buf) \in Nat
    OBVIOUS
  <2>2. IsFiniteSet(S)
    BY <2>1, FS_Interval
  <2> QED
    BY <2>1, <2>2
<1>2. IsWellFoundedOn(R, D)
  BY <1>1, FS_StrictSubsetOrderingWellFounded, FS_FiniteSubsetsOfFinite
<1>3. Q \subseteq D /\ Q # {}
  BY <1>1
<1>4. PICK q \in Q : \A p \in Q : ~(<<p, q>> \in R)
  <2> HIDE DEF Q, R, D
  <2> QED
    BY <1>2, <1>3, WFMin
<1>5. PICK i \in T : q = 1 .. i
  BY <1>4
<1>6. ASSUME NEW j \in 1 .. i - 1, ~buf[j].head PROVE FALSE
  <2>1. j \in T /\ j < i
    BY <1>1, <1>5, <1>6
  <2>2. 1 .. j \in Q /\ 1 .. j \subseteq 1 .. i /\ 1 .. j # 1 .. i
    BY <1>1, <1>5, <2>1
  <2>3. <<1 .. j, 1 .. i>> \in R
    BY <2>2, <1>3, <1>4, <1>5 DEF StrictSubsetOrdering
  <2> QED
    BY <2>2, <2>3, <1>4, <1>5
<1> QED
  BY <1>1, <1>5, <1>6

\* What is taken as a message is there to take.
LEMMA ReadingType ==
  ASSUME NEW buf \in Seq(Unit), Reading(buf).res = "message"
  PROVE  Reading(buf).total \in Nat /\ Reading(buf).total <= Len(buf)
<1>1. CASE prog = "http_proxy"
  <2> DEFINE body == body_length(buf[1].msg, "response")
  <2>1. Reading(buf) = read_message(buf, "response")
    BY <1>1 DEF Reading
  <2>2. /\ buf # << >> /\ body # Refused /\ ~(body > MaxBody)
        /\ ~(Len(buf) < 1 + body) /\ Reading(buf).total = 1 + body
    BY <2>1 DEF read_message
  <2>3. buf[1].msg \in HttpMessage
    <3>1. buf[1] \in Unit
      BY <2>2
    <3> QED
      BY <3>1 DEF Unit
  <2>4. body \in Nat
    BY <2>2, <2>3, BodyLength
  <2> QED
    BY <2>2, <2>4
<1>2. CASE prog = "scatter_gather"
  <2>1. Reading(buf) = read_line(buf)
    BY <1>2 DEF Reading
  <2>2. /\ \E i \in DOMAIN buf : ~buf[i].head
        /\ Reading(buf).total = CHOOSE i \in DOMAIN buf :
             ~buf[i].head /\ \A j \in 1 .. i - 1 : buf[j].head
    BY <2>1 DEF read_line
  <2>3. Reading(buf).total \in DOMAIN buf
    BY <2>2, FirstNewline
  <2> QED
    BY <2>3
<1>3. CASE prog \notin {"http_proxy", "scatter_gather"}
  BY <1>3 DEF Reading, read_exact, EchoSize
<1> QED
  BY <1>1, <1>2, <1>3

-----------------------------------------------------------------------------
(* What a step does to one exchange and to one upstream. *)

SetEx(c, s, e) == [ex EXCEPT ![c] = [ex[c] EXCEPT ![s] = e]]
SetUp(s, k, u) == [up EXCEPT ![s] = [up[s] EXCEPT ![k] = u]]
Busy(c, s) == ex[c][s].at \in {"write", "recv"}
Lent(c, s) == up[s][ex[c][s].conn]

\* get succeeds with upstream k, or fails.
Fresh(u) == IF u.place = "idle" THEN [u EXCEPT !.place = "leased"] ELSE Upstream("leased")
Took(c, s, k) ==
  /\ ex[c][s].at = "get" /\ up[s][k].place \in {"idle", "closed"}
  /\ ex' = SetEx(c, s, [at |-> "write", conn |-> k, got |-> << >>])
  /\ up' = SetUp(s, k, Fresh(up[s][k]))
  /\ fan' = IF prog # "fanout_requests" THEN fan
            ELSE [fan EXCEPT !.inflight = @ + 1,
                             !.peak = IF fan.inflight + 1 > @ THEN fan.inflight + 1 ELSE @]
  /\ UNCHANGED <<prog, cl>>
Denied(c, s) ==
  /\ ex[c][s].at = "get"
  /\ ex' = SetEx(c, s, [ex[c][s] EXCEPT !.at = "no_upstream"])
  /\ UNCHANGED <<prog, cl, up, fan>>

\* The exchange goes on with its upstream, or fails and keeps it for now.
Used(c, s, at, u) ==
  /\ Busy(c, s) /\ u \in UpstreamType /\ u.place = "leased"
  /\ \/ at = "recv" /\ u.healthy = Lent(c, s).healthy /\ u.failed = Lent(c, s).failed
     \/ at = "failed" /\ ~u.healthy /\ prog = "http_proxy"
  /\ ex' = SetEx(c, s, [ex[c][s] EXCEPT !.at = at])
  /\ up' = SetUp(s, ex[c][s].conn, u)
  /\ UNCHANGED <<prog, cl, fan>>

\* It is over, and the upstream goes back.
Settled(c, s, at, u, got) ==
  /\ Busy(c, s) /\ at \in {"replied", "failed"}
  /\ u \in UpstreamType /\ u.place = "leased" /\ got \in Seq(Unit)
  /\ prog # "fanout_requests" => (u.failed => ~u.healthy)
  /\ ex' = SetEx(c, s, [at |-> at, conn |-> 0, got |-> got])
  /\ up' = SetUp(s, ex[c][s].conn, Returned(u))
  /\ fan' = IF prog = "fanout_requests" THEN [fan EXCEPT !.inflight = @ - 1] ELSE fan
  /\ UNCHANGED <<prog, cl>>

\* The backend, or the pool's own expiry.
Touched(s, k, u) ==
  /\ u \in UpstreamType
  /\ u.place = up[s][k].place /\ u.healthy = up[s][k].healthy /\ u.failed = up[s][k].failed
  /\ up' = SetUp(s, k, u)
  /\ UNCHANGED <<prog, cl, ex, fan>>
Expired(s, k) ==
  /\ up[s][k].place = "idle"
  /\ up' = SetUp(s, k, Upstream("closed"))
  /\ UNCHANGED <<prog, cl, ex, fan>>

LEMMA SetExFacts ==
  ASSUME ProxyType, NEW c \in Clients, NEW s \in Shards, NEW e, ex' = SetEx(c, s, e)
  PROVE  /\ ex'[c][s] = e
         /\ \A d \in Clients, t \in Shards : d # c \/ t # s => ex'[d][t] = ex[d][t]
         /\ e \in ExchangeType => ex' \in [Clients -> [Shards -> ExchangeType]]
<1>1. ex \in [Clients -> [Shards -> ExchangeType]]
  BY DEF ProxyType
<1>2. ex[c] \in [Shards -> ExchangeType]
  BY <1>1
<1> QED
  BY <1>1, <1>2 DEF SetEx

LEMMA SetUpFacts ==
  ASSUME ProxyType, NEW s \in Shards, NEW k \in Conns, NEW u, up' = SetUp(s, k, u)
  PROVE  /\ up'[s][k] = u
         /\ \A t \in Shards, j \in Conns : t # s \/ j # k => up'[t][j] = up[t][j]
         /\ u \in UpstreamType => up' \in [Shards -> [Conns -> UpstreamType]]
<1>1. up \in [Shards -> [Conns -> UpstreamType]]
  BY DEF ProxyType
<1>2. up[s] \in [Conns -> UpstreamType]
  BY <1>1
<1> QED
  BY <1>1, <1>2 DEF SetUp

LEMMA FreshFacts ==
  ASSUME NEW u \in UpstreamType
  PROVE  /\ Fresh(u) \in UpstreamType /\ Fresh(u).place = "leased"
         /\ u.place = "idle" => /\ Fresh(u).healthy = u.healthy /\ Fresh(u).failed = u.failed
                                /\ Fresh(u).buf = u.buf /\ Fresh(u).wire = u.wire
                                /\ Fresh(u).pending = u.pending
         /\ u.place # "idle" => Fresh(u) = Upstream("leased")
<1>1. Upstream("leased") \in UpstreamType /\ Upstream("leased").place = "leased"
  BY BlankTypes DEF Upstream
<1>2. u.place = "idle" => [u EXCEPT !.place = "leased"] \in UpstreamType
  BY DEF UpstreamType
<1> QED
  BY <1>1, <1>2 DEF Fresh, UpstreamType

\* What goes back: a marked upstream is closed, any other waits as it is.
LEMMA ReturnedFacts ==
  ASSUME NEW u \in UpstreamType, ProxyType
  PROVE  /\ Returned(u) \in UpstreamType /\ Returned(u).place \in {"idle", "closed"}
         /\ has_broken(u) => Returned(u) = Upstream("closed")
         /\ ~has_broken(u) => /\ Returned(u).place = "idle"
                              /\ Returned(u).healthy = u.healthy /\ Returned(u).failed = u.failed
                              /\ Returned(u).buf = u.buf /\ Returned(u).wire = u.wire
                              /\ Returned(u).pending = u.pending
         /\ has_broken(u) <=> prog # "fanout_requests" /\ ~u.healthy
<1>1. Upstream("closed") \in UpstreamType /\ Upstream("closed").place = "closed"
  BY BlankTypes DEF Upstream
<1>2. [u EXCEPT !.place = "idle"] \in UpstreamType
  BY DEF UpstreamType
<1>3. has_broken(u) <=> prog # "fanout_requests" /\ ~u.healthy
  BY DEF has_broken, OriginBroken, ShardBroken, BackendBroken, UpstreamsBroken, ProxyType
<1> HIDE DEF has_broken
<1> QED
  BY <1>1, <1>2, <1>3 DEF Returned, UpstreamType

-----------------------------------------------------------------------------
(* Every handler is one of these moves. *)

LEMMA BusyFacts ==
  ASSUME ProxyType, HoldInv, NEW c \in Clients, NEW s \in Shards, Busy(c, s)
  PROVE  /\ ex[c][s].conn \in Conns /\ ex[c][s].conn # 0
         /\ Lent(c, s) \in UpstreamType /\ Lent(c, s).place = "leased"
<1>1. ex[c][s].conn # 0 /\ Lent(c, s).place = "leased"
  BY DEF Busy, HoldInv, Lent
<1>2. ex[c][s].conn \in Conns
  BY <1>1, ExFields
<1> QED
  BY <1>1, <1>2, UpFields DEF Lent

LEMMA LeaseMoves ==
  ASSUME ProxyType, NEW c \in Clients, NEW s \in Shards, Lease(c, s)
  PROVE  \E k \in Conns : Took(c, s, k)
<1>1. PICK k \in Conns :
        /\ up[s][k].place \in {"idle", "closed"}
        /\ up' = [up EXCEPT ![s][k] = IF @.place = "idle" THEN [@ EXCEPT !.place = "leased"]
                                      ELSE Upstream("leased")]
        /\ ex' = [ex EXCEPT ![c][s] = [at |-> "write", conn |-> k, got |-> << >>]]
  BY DEF Lease
<1>2. up' = SetUp(s, k, Fresh(up[s][k]))
  BY <1>1 DEF SetUp, Fresh
<1>3. ex' = SetEx(c, s, [at |-> "write", conn |-> k, got |-> << >>])
  BY <1>1 DEF SetEx
<1> QED
  BY <1>1, <1>2, <1>3 DEF Lease, Took

LEMMA GetFailsMoves ==
  ASSUME ProxyType, NEW c \in Clients, NEW s \in Shards, GetFails(c, s)
  PROVE  Denied(c, s)
  BY DEF GetFails, Denied, SetEx

\* WriteRequest, read_more and UpstreamError leave their upstream like this.
Asked(c, s) ==
  [Lent(c, s) EXCEPT !.pending =
     IF Lent(c, s).open THEN @ \o OriginReads(c, s, cl[c].req) ELSE @]
Marked(u) == [u EXCEPT !.failed = TRUE, !.healthy = FALSE]
Filled(u, n) ==
  [u EXCEPT !.buf = u.buf \o SubSeq(u.wire, 1, n),
            !.wire = SubSeq(u.wire, n + 1, Len(u.wire))]

LEMMA WriteMoves ==
  ASSUME ProxyType, HoldInv, NEW c \in Clients, NEW s \in Shards, WriteRequest(c, s)
  PROVE  Used(c, s, "recv", Asked(c, s)) /\ ex[c][s].at = "write"
<1> DEFINE u == Lent(c, s)
<1>0. /\ Busy(c, s) /\ ex[c][s].conn \in Conns /\ u \in UpstreamType /\ u.place = "leased"
  BY BusyFacts DEF WriteRequest, Busy
<1>1. up' = SetUp(s, ex[c][s].conn, Asked(c, s))
  BY <1>0 DEF WriteRequest, SetUp, Asked, Lent
<1>2. ex' = SetEx(c, s, [ex[c][s] EXCEPT !.at = "recv"])
  BY DEF WriteRequest, SetEx
<1>3. /\ Asked(c, s) \in UpstreamType /\ Asked(c, s).place = "leased"
      /\ Asked(c, s).healthy = u.healthy /\ Asked(c, s).failed = u.failed
  <2>1. u.pending \in Seq(Waiting) /\ OriginReads(c, s, cl[c].req) \in Seq(Waiting)
    BY <1>0, OriginReadsType DEF UpstreamType
  <2>2. u.pending \o OriginReads(c, s, cl[c].req) \in Seq(Waiting)
    BY <2>1
  <2> HIDE DEF u
  <2> QED
    BY <2>1, <2>2, <1>0 DEF Asked, UpstreamType, u
<1> QED
  BY <1>0, <1>1, <1>2, <1>3 DEF Used, WriteRequest

LEMMA ReadMoves ==
  ASSUME ProxyType, HoldInv, NEW c \in Clients, NEW s \in Shards, read_more(c, s)
  PROVE  /\ ex[c][s].at = "recv" /\ Reading(Lent(c, s).buf).res = "more"
         /\ \E n \in 1 .. Len(Lent(c, s).wire) : Used(c, s, "recv", Filled(Lent(c, s), n))
<1> DEFINE u == Lent(c, s)
<1>0. /\ Busy(c, s) /\ ex[c][s].conn \in Conns /\ u \in UpstreamType /\ u.place = "leased"
  BY BusyFacts DEF read_more, Busy
<1>1. PICK n \in 1 .. Len(u.wire) :
        up' = [up EXCEPT ![s][ex[c][s].conn].buf = @ \o SubSeq(u.wire, 1, n),
                         ![s][ex[c][s].conn].wire = SubSeq(@, n + 1, Len(@))]
  BY DEF read_more, Lent
<1>2. up' = SetUp(s, ex[c][s].conn, Filled(u, n))
  BY <1>0, <1>1 DEF SetUp, Filled, Lent, ProxyType
<1>3. ex' = SetEx(c, s, [ex[c][s] EXCEPT !.at = "recv"])
  <2>1. ex[c][s].at = "recv" /\ ex' = ex
    BY DEF read_more
  <2>2. ex[c][s] = [ex[c][s] EXCEPT !.at = "recv"]
    BY <2>1, ExFields DEF ExchangeType
  <2> QED
    BY <2>1, <2>2 DEF SetEx, ProxyType
<1>4. /\ Filled(u, n) \in UpstreamType /\ Filled(u, n).place = "leased"
      /\ Filled(u, n).healthy = u.healthy /\ Filled(u, n).failed = u.failed
  <2>1. u.wire \in Seq(Unit) /\ u.buf \in Seq(Unit)
    BY <1>0 DEF UpstreamType
  <2>2. SubSeq(u.wire, 1, n) \in Seq(Unit) /\ SubSeq(u.wire, n + 1, Len(u.wire)) \in Seq(Unit)
    BY <2>1
  <2>3. u.buf \o SubSeq(u.wire, 1, n) \in Seq(Unit)
    BY <2>1, <2>2
  <2> HIDE DEF u
  <2> QED
    BY <2>2, <2>3, <1>0 DEF Filled, UpstreamType
<1> QED
  BY <1>0, <1>1, <1>2, <1>3, <1>4 DEF Used, read_more, Lent

LEMMA ErrorMoves ==
  ASSUME ProxyType, HoldInv, NEW c \in Clients, NEW s \in Shards, UpstreamError(c, s)
  PROVE  Used(c, s, "failed", Marked(Lent(c, s)))
<1> DEFINE u == Lent(c, s)
           v == Marked(u)
<1>0. /\ Busy(c, s) /\ ex[c][s].conn \in Conns /\ u \in UpstreamType /\ u.place = "leased"
  BY BusyFacts DEF UpstreamError, Fails, Busy
<1>1. up' = SetUp(s, ex[c][s].conn, v)
  BY <1>0 DEF UpstreamError, SetUp, Lent, ProxyType, Marked
<1>2. ex' = SetEx(c, s, [ex[c][s] EXCEPT !.at = "failed"])
  BY DEF UpstreamError, SetEx
<1>3. v \in UpstreamType /\ v.place = "leased" /\ ~v.healthy
  BY <1>0 DEF UpstreamType, Marked
<1> QED
  BY <1>0, <1>1, <1>2, <1>3 DEF Used, UpstreamError

LEMMA DrainedFacts ==
  ASSUME NEW u \in UpstreamType, Reading(u.buf).res = "message"
  PROVE  /\ Drained(u) \in UpstreamType /\ TakenFrom(u) \in Seq(Unit)
         /\ Drained(u).place = u.place /\ Drained(u).healthy = u.healthy
         /\ Drained(u).failed = u.failed
         /\ Drained(u).wire = u.wire /\ Drained(u).pending = u.pending
         /\ Drained(u).buf = SubSeq(u.buf, Reading(u.buf).total + 1, Len(u.buf))
<1> DEFINE n == Reading(u.buf).total
           b == SubSeq(u.buf, n + 1, Len(u.buf))
<1>1. u.buf \in Seq(Unit)
  BY DEF UpstreamType
<1>2. n \in Nat /\ n <= Len(u.buf) /\ Len(u.buf) \in Nat
  BY <1>1, ReadingType
<1> HIDE DEF n
<1>3. b \in Seq(Unit) /\ SubSeq(u.buf, 1, n) \in Seq(Unit)
  BY <1>1, <1>2
<1>4. Drained(u) = [u EXCEPT !.buf = b] /\ TakenFrom(u) = SubSeq(u.buf, 1, n)
  BY DEF Drained, TakenFrom, n
<1> HIDE DEF b
<1>5. Drained(u) \in UpstreamType
  BY <1>3, <1>4 DEF UpstreamType
<1> QED
  BY <1>3, <1>4, <1>5 DEF UpstreamType, b, n

\* The four ways an exchange settles, and the upstream each gives back.
Kept(u) == [Drained(u) EXCEPT !.healthy = (Drained(u).buf = << >>)]
Unmarked(u) == [u EXCEPT !.failed = TRUE, !.buf = << >>]

LEMMA SettleMoves ==
  ASSUME ProxyType, NEW c \in Clients, NEW s \in Shards, NEW at \in {"replied", "failed"},
         NEW u \in UpstreamType, NEW got \in Seq(Unit), Busy(c, s), u.place = "leased",
         prog # "fanout_requests" => (u.failed => ~u.healthy),
         Settle(c, s, at, u, got), UNCHANGED <<prog, cl>>
  PROVE  Settled(c, s, at, u, got)
<1>1. ex' = SetEx(c, s, [at |-> at, conn |-> 0, got |-> got])
  BY DEF Settle, SetEx
<1>2. up' = SetUp(s, ex[c][s].conn, Returned(u))
  BY DEF Settle, SetUp
<1> QED
  BY <1>1, <1>2 DEF Settled, Settle

LEMMA TakeMoves ==
  ASSUME LeaseInv, NEW c \in Clients, NEW s \in Shards, TakeReply(c, s)
  PROVE  /\ prog # "http_proxy" /\ ex[c][s].at = "recv"
         /\ Reading(Lent(c, s).buf).res = "message"
         /\ Settled(c, s, "replied", Drained(Lent(c, s)), TakenFrom(Lent(c, s)))
<1> DEFINE u == Lent(c, s)
<1>0. ProxyType /\ HoldInv /\ HealthInv
  BY DEF LeaseInv
<1>1. /\ prog # "http_proxy" /\ ex[c][s].at = "recv" /\ Reading(u.buf).res = "message"
      /\ Settle(c, s, "replied", Drained(u), TakenFrom(u)) /\ UNCHANGED <<prog, cl>>
  BY DEF TakeReply, Lent
<1>2. Busy(c, s)
  BY <1>1 DEF Busy
<1>3. ex[c][s].conn \in Conns /\ u \in UpstreamType /\ u.place = "leased"
  BY <1>0, <1>2, BusyFacts
<1>4. prog # "fanout_requests" => (u.failed => ~u.healthy)
  BY <1>0, <1>3 DEF HealthInv, Lent
<1> HIDE DEF u
<1>5. /\ Drained(u) \in UpstreamType /\ Drained(u).place = "leased" /\ TakenFrom(u) \in Seq(Unit)
      /\ prog # "fanout_requests" => (Drained(u).failed => ~Drained(u).healthy)
  BY <1>1, <1>3, <1>4, DrainedFacts
<1> QED
  BY <1>0, <1>1, <1>2, <1>5, SettleMoves DEF u

LEMMA ForwardMoves ==
  ASSUME LeaseInv, NEW c \in Clients, NEW s \in Shards, ForwardReply(c, s)
  PROVE  /\ prog = "http_proxy" /\ ex[c][s].at = "recv"
         /\ Reading(Lent(c, s).buf).res = "message"
         /\ Settled(c, s, "replied", Kept(Lent(c, s)), TakenFrom(Lent(c, s)))
<1> DEFINE u == Lent(c, s)
<1>0. ProxyType /\ HoldInv /\ HealthInv
  BY DEF LeaseInv
<1>1. /\ prog = "http_proxy" /\ ex[c][s].at = "recv" /\ Reading(u.buf).res = "message"
      /\ Settle(c, s, "replied", Kept(u), TakenFrom(u)) /\ UNCHANGED <<prog, cl>>
  BY DEF ForwardReply, Lent, Kept
<1>2. Busy(c, s)
  BY <1>1 DEF Busy
<1>3. ex[c][s].conn \in Conns /\ u \in UpstreamType /\ u.place = "leased"
  BY <1>0, <1>2, BusyFacts
<1>4. u.healthy /\ ~u.failed
  <2>1. u.healthy /\ (u.failed => ~u.healthy)
    BY <1>0, <1>1, <1>3 DEF HealthInv, Lent
  <2> QED
    BY <2>1
<1> HIDE DEF u
<1>5. /\ Drained(u) \in UpstreamType /\ Drained(u).place = "leased" /\ TakenFrom(u) \in Seq(Unit)
      /\ ~Drained(u).failed
  BY <1>1, <1>3, <1>4, DrainedFacts
<1>6. Kept(u) \in UpstreamType /\ Kept(u).place = "leased" /\ ~Kept(u).failed
  <2>1. (Drained(u).buf = << >>) \in BOOLEAN
    OBVIOUS
  <2> HIDE DEF Drained
  <2> QED
    BY <1>5, <2>1 DEF Kept, UpstreamType
<1> QED
  BY <1>0, <1>1, <1>2, <1>5, <1>6, SettleMoves DEF u

LEMMA FailMoves ==
  ASSUME LeaseInv, NEW c \in Clients, NEW s \in Shards,
         ExchangeFails(c, s) \/ RoundTripFails(c, s)
  PROVE  /\ Fails(c, s)
         /\ \/ prog # "fanout_requests" /\ Settled(c, s, "failed", Marked(Lent(c, s)), << >>)
            \/ prog = "fanout_requests" /\ Settled(c, s, "failed", Unmarked(Lent(c, s)), << >>)
<1> DEFINE u == Lent(c, s)
<1>0. ProxyType /\ HoldInv
  BY DEF LeaseInv
<1>1. Fails(c, s) /\ UNCHANGED <<prog, cl>>
  BY DEF ExchangeFails, RoundTripFails
<1>2. Busy(c, s)
  BY <1>1 DEF Busy, Fails
<1>3. ex[c][s].conn \in Conns /\ u \in UpstreamType /\ u.place = "leased"
  BY <1>0, <1>2, BusyFacts
<1>4. << >> \in Seq(Unit)
  OBVIOUS
<1>5. /\ Marked(u) \in UpstreamType /\ Marked(u).place = "leased" /\ ~Marked(u).healthy
      /\ Unmarked(u) \in UpstreamType /\ Unmarked(u).place = "leased"
  BY <1>3, <1>4 DEF Marked, Unmarked, UpstreamType
<1>6. CASE ExchangeFails(c, s)
  <2>1. prog # "fanout_requests" /\ Settle(c, s, "failed", Marked(u), << >>)
    BY <1>6 DEF ExchangeFails, Marked, Lent
  <2> QED
    BY <2>1, <1>0, <1>1, <1>2, <1>4, <1>5, SettleMoves
<1>7. CASE RoundTripFails(c, s)
  <2>1. prog = "fanout_requests" /\ Settle(c, s, "failed", Unmarked(u), << >>)
    BY <1>7 DEF RoundTripFails, Unmarked, Lent
  <2> QED
    BY <2>1, <1>0, <1>1, <1>2, <1>4, <1>5, SettleMoves
<1> QED
  BY <1>6, <1>7

-----------------------------------------------------------------------------
(* The backend's moves. *)

Answering(u, reply) ==
  [u EXCEPT !.wire = u.wire \o Units(u.pending[1].of, reply),
            !.pending = IF reply.status = "1xx" THEN [u.pending EXCEPT ![1].interim = TRUE]
                        ELSE Tail(u.pending)]
Gone(u, cut) == [u EXCEPT !.open = FALSE, !.pending = << >>, !.wire = u.wire \o cut]

LEMMA ReplyMoves ==
  ASSUME ProxyType, NEW s \in Shards, NEW k \in Conns, Reply(s, k)
  PROVE  /\ up[s][k].open /\ up[s][k].pending # << >>
         /\ \E reply \in ReplyForms : Touched(s, k, Answering(up[s][k], reply))
<1> DEFINE u == up[s][k]
<1>0. u \in UpstreamType /\ u.pending \in Seq(Waiting) /\ u.wire \in Seq(Unit)
  BY UpFields
<1>1. PICK reply \in ReplyForms :
        up' = [up EXCEPT ![s][k].wire = @ \o Units(u.pending[1].of, reply),
                         ![s][k].pending =
                           IF reply.status = "1xx" THEN [@ EXCEPT ![1].interim = TRUE]
                           ELSE Tail(@)]
  BY DEF Reply
<1>2. up' = SetUp(s, k, Answering(u, reply))
  BY <1>0, <1>1 DEF SetUp, Answering, ProxyType
<1>3. u.open /\ u.pending # << >> /\ UNCHANGED <<prog, cl, ex, fan>>
  BY DEF Reply
<1> HIDE DEF u
<1>4. u.pending[1] \in Waiting /\ u.pending[1].of \in Requester
  <2>1. u.pending[1] \in Waiting
    BY <1>0, <1>3
  <2> QED
    BY <2>1 DEF Waiting
<1>5. u.wire \o Units(u.pending[1].of, reply) \in Seq(Unit)
  <2>1. Units(u.pending[1].of, reply) \in Seq(Unit)
    BY <1>4, UnitsType, MessageTypes
  <2> QED
    BY <1>0, <2>1
<1>6. /\ [u.pending EXCEPT ![1].interim = TRUE] \in Seq(Waiting)
      /\ Tail(u.pending) \in Seq(Waiting)
  <2>1. [u.pending[1] EXCEPT !.interim = TRUE] \in Waiting
    BY <1>4 DEF Waiting
  <2>2. 1 \in 1 .. Len(u.pending)
    BY <1>0, <1>3
  <2>3. [u.pending EXCEPT ![1] = [u.pending[1] EXCEPT !.interim = TRUE]] \in Seq(Waiting)
    BY <1>0, <2>1, <2>2
  <2>4. Tail(u.pending) \in Seq(Waiting)
    BY <1>0, <1>3
  <2> QED
    BY <2>3, <2>4
<1>7. /\ Answering(u, reply) \in UpstreamType
      /\ Answering(u, reply).place = u.place /\ Answering(u, reply).healthy = u.healthy
      /\ Answering(u, reply).failed = u.failed
  BY <1>0, <1>5, <1>6 DEF Answering, UpstreamType
<1> QED
  BY <1>1, <1>2, <1>3, <1>7 DEF Touched, u

LEMMA HangupMoves ==
  ASSUME ProxyType, NEW s \in Shards, NEW k \in Conns, Hangup(s, k)
  PROVE  /\ up[s][k].open
         /\ \/ Touched(s, k, Gone(up[s][k], << >>))
            \/ /\ up[s][k].pending # << >>
               /\ \E reply \in ReplyForms :
                    /\ reply.body > 0
                    /\ Touched(s, k, Gone(up[s][k],
                          SubSeq(Units(up[s][k].pending[1].of, reply), 1, 1)))
<1> DEFINE u == up[s][k]
           Cut(reply) == SubSeq(Units(u.pending[1].of, reply), 1, 1)
<1>0. u \in UpstreamType /\ u.pending \in Seq(Waiting) /\ u.wire \in Seq(Unit)
  BY UpFields
<1>1. PICK cut \in {<< >>} \cup
             (IF u.pending = << >> THEN {}
              ELSE {Cut(reply) : reply \in {f \in ReplyForms : f.body > 0}}) :
        up' = [up EXCEPT ![s][k].open = FALSE, ![s][k].pending = << >>,
                         ![s][k].wire = @ \o cut]
  BY DEF Hangup
<1>2. up' = SetUp(s, k, Gone(u, cut))
  BY <1>0, <1>1 DEF SetUp, Gone, ProxyType
<1>3. u.open /\ UNCHANGED <<prog, cl, ex, fan>>
  BY DEF Hangup
<1>4. ASSUME cut \in Seq(Unit) PROVE Touched(s, k, Gone(u, cut))
  <2>1. u.wire \o cut \in Seq(Unit) /\ << >> \in Seq(Waiting)
    BY <1>0, <1>4
  <2>2. /\ Gone(u, cut) \in UpstreamType
        /\ Gone(u, cut).place = u.place /\ Gone(u, cut).healthy = u.healthy
        /\ Gone(u, cut).failed = u.failed
    <3> HIDE DEF u
    <3> QED
      BY <1>0, <2>1 DEF Gone, UpstreamType
  <2> QED
    BY <1>2, <1>3, <2>2 DEF Touched
<1>5. CASE cut = << >>
  <2>1. << >> \in Seq(Unit)
    OBVIOUS
  <2> QED
    BY <1>3, <1>4, <1>5, <2>1
<1>6. CASE cut # << >>
  <2>1. u.pending # << >>
    BY <1>1, <1>6
  <2>2. PICK reply \in ReplyForms : reply.body > 0 /\ cut = Cut(reply)
    BY <1>1, <1>6
  <2>3. u.pending[1] \in Waiting
    BY <1>0, <2>1
  <2>4. u.pending[1].of \in Requester
    BY <2>3 DEF Waiting
  <2>5. /\ Units(u.pending[1].of, reply) \in Seq(Unit)
        /\ Len(Units(u.pending[1].of, reply)) = 1 + reply.body /\ reply.body \in Nat
    BY <2>4, UnitsType, MessageTypes
  <2>6. cut \in Seq(Unit)
    BY <2>2, <2>5
  <2> QED
    BY <1>3, <1>4, <2>1, <2>2, <2>6
<1> QED
  BY <1>5, <1>6

LEMMA ExpireMoves ==
  ASSUME ProxyType, NEW s \in Shards, NEW k \in Conns, Expire(s, k)
  PROVE  Expired(s, k)
  BY DEF Expire, Expired, SetUp

-----------------------------------------------------------------------------
(* The lease invariant: the moves of an exchange. *)

Leased == {k \in Conns : up[1][k].place = "leased"}

LEMMA LeasedFinite == IsFiniteSet(Leased) /\ Cardinality(Leased) \in Nat /\ Cardinality(Leased) <= Capacity
<1>1. IsFiniteSet(Conns) /\ Cardinality(Conns) = Capacity
  BY FS_Interval, ProxyAssumption DEF Conns
<1>2. Leased \in SUBSET Conns
  BY DEF Leased
<1> QED
  BY <1>1, <1>2, FS_Subset, FS_CardinalityType

\* A step that lends and takes back nothing.
LEMMA InflightSame ==
  ASSUME InflightExact, prog' = prog,
         fan'.inflight = fan.inflight, fan'.peak = fan.peak,
         \A k \in Conns : up'[1][k].place = "leased" <=> up[1][k].place = "leased"
  PROVE  InflightExact'
<1>1. Leased' = Leased
  BY DEF Leased
<1> QED
  BY <1>1 DEF InflightExact, Leased

LEMMA PoolOne ==
  ASSUME ProxyType, PhaseInv, NEW c \in Clients, NEW s \in Shards, ex[c][s].at # "none"
  PROVE  cl[c].at = "wait" /\ s \in Pools /\ (prog # "scatter_gather" => s = 1)
<1>1. cl[c].at = "wait" /\ s \in Pools
  BY DEF PhaseInv, NoExchange
<1> QED
  BY <1>1 DEF Pools

LEMMA TookLeaseInv ==
  ASSUME LeaseInv, NEW c \in Clients, NEW s \in Shards, NEW k \in Conns, Took(c, s, k)
  PROVE  LeaseInv'
<1>0. ProxyType /\ PhaseInv /\ HoldInv /\ HealthInv /\ InflightExact
  BY DEF LeaseInv
<1> DEFINE e == [at |-> "write", conn |-> k, got |-> << >>]
           u == Fresh(up[s][k])
<1>1. /\ ex' = SetEx(c, s, e) /\ up' = SetUp(s, k, u)
      /\ ex[c][s].at = "get" /\ up[s][k].place \in {"idle", "closed"}
      /\ prog' = prog /\ cl' = cl
  BY DEF Took
<1>2. e \in ExchangeType /\ k # 0 /\ e.at = "write" /\ e.conn = k
  <2>1. << >> \in Seq(Unit)
    OBVIOUS
  <2> QED
    BY <2>1, ProxyAssumption DEF ExchangeType, Conns
<1>3. /\ u \in UpstreamType /\ u.place = "leased"
      /\ prog # "fanout_requests" => u.healthy /\ ~u.failed
  <2>1. up[s][k] \in UpstreamType
    BY <1>0, UpFields
  <2>2. u \in UpstreamType /\ u.place = "leased"
    BY <2>1, FreshFacts
  <2>3. CASE up[s][k].place = "idle"
    BY <1>0, <2>1, <2>2, <2>3, FreshFacts DEF HealthInv
  <2>4. CASE up[s][k].place # "idle"
    <3>1. u = Upstream("leased")
      BY <2>1, <2>4, FreshFacts
    <3> QED
      BY <1>0, <2>2, <3>1 DEF Upstream
  <2> QED
    BY <2>3, <2>4
<1> HIDE DEF e, u
<1>4. /\ ex'[c][s] = e
      /\ \A d \in Clients, t \in Shards : d # c \/ t # s => ex'[d][t] = ex[d][t]
      /\ ex' \in [Clients -> [Shards -> ExchangeType]]
  BY <1>0, <1>1, <1>2, SetExFacts
<1>5. /\ up'[s][k] = u
      /\ \A t \in Shards, j \in Conns : t # s \/ j # k => up'[t][j] = up[t][j]
      /\ up' \in [Shards -> [Conns -> UpstreamType]]
  BY <1>0, <1>1, <1>3, SetUpFacts
<1>6. ProxyType'
  <2>1. fan' \in [next : Nat, inflight : Int, peak : Int]
    <3> DEFINE i == fan.inflight + 1
               m == IF i > fan.peak THEN i ELSE fan.peak
    <3>1. fan \in [next : Nat, inflight : Int, peak : Int]
      BY <1>0 DEF ProxyType
    <3>2. i \in Int /\ m \in Int
      BY <3>1
    <3>3. fan' = fan \/ fan' = [fan EXCEPT !.inflight = i, !.peak = m]
      BY DEF Took
    <3> HIDE DEF i, m
    <3> QED
      BY <3>1, <3>2, <3>3
  <2> QED
    BY <1>0, <1>1, <1>4, <1>5, <2>1 DEF ProxyType
<1>7. PhaseInv'
  <2>1. cl[c].at = "wait" /\ s \in Pools
    BY <1>0, <1>1, PoolOne
  <2>2. Pools' = Pools
    BY <1>1 DEF Pools
  <2> QED
    BY <1>0, <1>1, <1>4, <2>1, <2>2 DEF PhaseInv
<1>8. ASSUME NEW d \in Clients, NEW t \in Shards, ex[d][t].conn # 0
      PROVE  t # s \/ ex[d][t].conn # k
  <2>1. up[t][ex[d][t].conn].place = "leased"
    BY <1>0, <1>8 DEF HoldInv
  <2> QED
    BY <2>1, <1>1
<1>9. HoldInv'
  <2>1. ASSUME NEW d \in Clients, NEW t \in Shards
        PROVE  /\ ex'[d][t].conn # 0 => up'[t][ex'[d][t].conn].place = "leased"
               /\ ex'[d][t].at \in {"write", "recv"} => ex'[d][t].conn # 0
               /\ ex'[d][t].conn # 0 =>
                    \/ ex'[d][t].at \in {"write", "recv"}
                    \/ ex'[d][t].at = "failed" /\ prog' = "http_proxy"
    <3>1. CASE d = c /\ t = s
      BY <3>1, <1>2, <1>3, <1>4, <1>5
    <3>2. CASE d # c \/ t # s
      <4>1. ex'[d][t] = ex[d][t] /\ ex[d][t].conn \in {0} \cup Conns
        BY <3>2, <1>0, <1>4, ExFields
      <4> QED
        BY <4>1, <1>0, <1>1, <1>5, <1>8 DEF HoldInv
    <3> QED
      BY <3>1, <3>2
  <2>2. ASSUME NEW d1 \in Clients, NEW d2 \in Clients, NEW t \in Shards,
               ex'[d1][t].conn = ex'[d2][t].conn, ex'[d1][t].conn # 0
        PROVE  d1 = d2
    BY <2>2, <1>0, <1>2, <1>4, <1>8 DEF HoldInv
  <2> QED
    BY <2>1, <2>2 DEF HoldInv
<1>10. HealthInv'
  <2> SUFFICES ASSUME prog # "fanout_requests"
               PROVE  /\ \A t \in Shards, j \in Conns :
                           /\ up'[t][j].failed => ~up'[t][j].healthy
                           /\ up'[t][j].place = "idle" => up'[t][j].healthy
                      /\ \A d \in Clients, t \in Shards :
                           /\ ex'[d][t].at \in {"write", "recv"} =>
                                up'[t][ex'[d][t].conn].healthy
                           /\ ex'[d][t].at = "failed" /\ ex'[d][t].conn # 0 =>
                                ~up'[t][ex'[d][t].conn].healthy
    BY <1>1 DEF HealthInv
  <2>1. ASSUME NEW t \in Shards, NEW j \in Conns
        PROVE  /\ up'[t][j].failed => ~up'[t][j].healthy
               /\ up'[t][j].place = "idle" => up'[t][j].healthy
    BY <1>0, <1>3, <1>5 DEF HealthInv
  <2>2. ASSUME NEW d \in Clients, NEW t \in Shards
        PROVE  /\ ex'[d][t].at \in {"write", "recv"} => up'[t][ex'[d][t].conn].healthy
               /\ ex'[d][t].at = "failed" /\ ex'[d][t].conn # 0 =>
                    ~up'[t][ex'[d][t].conn].healthy
    <3>1. CASE d = c /\ t = s
      BY <3>1, <1>2, <1>3, <1>4, <1>5
    <3>2. CASE d # c \/ t # s
      <4>1. ex'[d][t] = ex[d][t] /\ ex[d][t].conn \in {0} \cup Conns
        BY <3>2, <1>0, <1>4, ExFields
      <4>2. ex[d][t].at \in {"write", "recv"} => ex[d][t].conn # 0
        BY <1>0 DEF HoldInv
      <4> QED
        BY <4>1, <4>2, <1>0, <1>5, <1>8 DEF HealthInv
    <3> QED
      BY <3>1, <3>2
  <2> QED
    BY <2>1, <2>2
<1>11. InflightExact'
  <2>1. CASE prog # "fanout_requests"
    BY <2>1, <1>1 DEF InflightExact
  <2>2. CASE prog = "fanout_requests"
    <3>1. s = 1
      BY <2>2, <1>0, <1>1, PoolOne
    <3>2. Leased' = Leased \cup {k} /\ k \notin Leased
      BY <3>1, <1>1, <1>3, <1>5, ProxyAssumption DEF Leased
    <3>3. Cardinality(Leased') = Cardinality(Leased) + 1
      BY <3>2, LeasedFinite, FS_AddElement
    <3>4. Cardinality(Leased') <= Capacity
      <4>1. IsFiniteSet(Conns) /\ Cardinality(Conns) = Capacity
        BY FS_Interval, ProxyAssumption DEF Conns
      <4>2. Leased' \in SUBSET Conns
        BY DEF Leased
      <4> QED
        BY <4>1, <4>2, FS_Subset
    <3>5. fan.inflight = Cardinality(Leased) /\ fan.peak <= Capacity
      BY <2>2, <1>0 DEF InflightExact, Leased
    <3>6. /\ fan'.inflight = fan.inflight + 1
          /\ fan'.peak = IF fan.inflight + 1 > fan.peak THEN fan.inflight + 1 ELSE fan.peak
      BY <2>2, <1>0 DEF Took, ProxyType
    <3>7. fan'.inflight = Cardinality(Leased') /\ fan'.peak <= Capacity
      BY <3>3, <3>4, <3>5, <3>6
    <3> QED
      BY <3>7 DEF InflightExact, Leased
  <2> QED
    BY <2>1, <2>2
<1> QED
  BY <1>6, <1>7, <1>9, <1>10, <1>11 DEF LeaseInv

\* An exchange with an upstream changes it, and keeps it or gives it back.
LEMMA HeldMove ==
  ASSUME ProxyType, PhaseInv, HoldInv, HealthInv,
         NEW c \in Clients, NEW s \in Shards, Busy(c, s),
         NEW e \in ExchangeType, NEW v \in UpstreamType,
         ex' = SetEx(c, s, e), up' = SetUp(s, ex[c][s].conn, v), UNCHANGED <<prog, cl>>,
         fan' \in [next : Nat, inflight : Int, peak : Int],
         e.conn \in {0, ex[c][s].conn}, e.conn # 0 => v.place = "leased",
         e.at \in {"write", "recv"} => e.conn # 0,
         e.conn # 0 => e.at \in {"write", "recv"} \/ (e.at = "failed" /\ prog = "http_proxy"),
         prog # "fanout_requests" =>
           /\ v.failed => ~v.healthy
           /\ v.place = "idle" => v.healthy
           /\ e.at \in {"write", "recv"} => v.healthy
           /\ e.at = "failed" /\ e.conn # 0 => ~v.healthy
  PROVE  ProxyType' /\ PhaseInv' /\ HoldInv' /\ HealthInv'
<1> DEFINE k == ex[c][s].conn
<1>0. k \in Conns /\ k # 0
  BY BusyFacts
<1>1. /\ ex'[c][s] = e
      /\ \A d \in Clients, t \in Shards : d # c \/ t # s => ex'[d][t] = ex[d][t]
      /\ ex' \in [Clients -> [Shards -> ExchangeType]]
  BY SetExFacts
<1>2. up' = SetUp(s, k, v)
  OBVIOUS
<1> HIDE DEF k
<1>3. /\ up'[s][k] = v
      /\ \A t \in Shards, j \in Conns : t # s \/ j # k => up'[t][j] = up[t][j]
      /\ up' \in [Shards -> [Conns -> UpstreamType]]
  BY <1>0, <1>2, SetUpFacts
<1>4. prog' = prog /\ cl' = cl
  OBVIOUS
<1>5. ProxyType'
  BY <1>1, <1>3, <1>4 DEF ProxyType
<1>6. PhaseInv'
  <2>1. cl[c].at = "wait" /\ s \in Pools
    BY PoolOne DEF Busy
  <2>2. Pools' = Pools
    BY <1>4 DEF Pools
  <2> QED
    BY <1>1, <1>4, <2>1, <2>2 DEF PhaseInv
<1>7. ASSUME NEW d \in Clients, NEW t \in Shards, ex[d][t].conn # 0, d # c \/ t # s
      PROVE  /\ ex'[d][t] = ex[d][t]
             /\ up'[t][ex[d][t].conn] = up[t][ex[d][t].conn]
             /\ t # s \/ ex[d][t].conn # k
  <2>1. ex[d][t].conn \in Conns
    BY <1>7, ExFields
  <2>2. t # s \/ ex[d][t].conn # k
    BY <1>0, <1>7 DEF HoldInv, k
  <2> QED
    BY <2>1, <2>2, <1>1, <1>3, <1>7
<1>8. HoldInv'
  <2>1. ASSUME NEW d \in Clients, NEW t \in Shards
        PROVE  /\ ex'[d][t].conn # 0 => up'[t][ex'[d][t].conn].place = "leased"
               /\ ex'[d][t].at \in {"write", "recv"} => ex'[d][t].conn # 0
               /\ ex'[d][t].conn # 0 =>
                    \/ ex'[d][t].at \in {"write", "recv"}
                    \/ ex'[d][t].at = "failed" /\ prog' = "http_proxy"
    <3>1. CASE d = c /\ t = s
      BY <3>1, <1>1, <1>3, <1>4 DEF k
    <3>2. CASE d # c \/ t # s
      BY <3>2, <1>1, <1>4, <1>7 DEF HoldInv
    <3> QED
      BY <3>1, <3>2
  <2>2. ASSUME NEW d1 \in Clients, NEW d2 \in Clients, NEW t \in Shards,
               ex'[d1][t].conn = ex'[d2][t].conn, ex'[d1][t].conn # 0, d1 # d2
        PROVE  FALSE
    <3>1. CASE t # s \/ (d1 # c /\ d2 # c)
      BY <2>2, <3>1, <1>1 DEF HoldInv
    <3>2. CASE t = s /\ d1 = c
      <4>1. ex'[d1][t].conn = k
        BY <3>2, <2>2, <1>1 DEF k
      <4>2. ex'[d2][t] = ex[d2][t]
        BY <2>2, <3>2, <1>1
      <4> QED
        BY <4>1, <4>2, <2>2, <3>2, <1>7
    <3>3. CASE t = s /\ d2 = c
      <4>1. ex'[d2][t].conn = k
        BY <3>3, <2>2, <1>1 DEF k
      <4>2. ex'[d1][t] = ex[d1][t]
        BY <2>2, <3>3, <1>1
      <4> QED
        BY <4>1, <4>2, <2>2, <3>3, <1>7
    <3> QED
      BY <3>1, <3>2, <3>3
  <2> QED
    BY <2>1, <2>2 DEF HoldInv
<1>9. HealthInv'
  <2> SUFFICES ASSUME prog # "fanout_requests"
               PROVE  /\ \A t \in Shards, j \in Conns :
                           /\ up'[t][j].failed => ~up'[t][j].healthy
                           /\ up'[t][j].place = "idle" => up'[t][j].healthy
                      /\ \A d \in Clients, t \in Shards :
                           /\ ex'[d][t].at \in {"write", "recv"} =>
                                up'[t][ex'[d][t].conn].healthy
                           /\ ex'[d][t].at = "failed" /\ ex'[d][t].conn # 0 =>
                                ~up'[t][ex'[d][t].conn].healthy
    BY <1>4 DEF HealthInv
  <2>1. ASSUME NEW t \in Shards, NEW j \in Conns
        PROVE  /\ up'[t][j].failed => ~up'[t][j].healthy
               /\ up'[t][j].place = "idle" => up'[t][j].healthy
    BY <1>3 DEF HealthInv
  <2>2. ASSUME NEW d \in Clients, NEW t \in Shards
        PROVE  /\ ex'[d][t].at \in {"write", "recv"} => up'[t][ex'[d][t].conn].healthy
               /\ ex'[d][t].at = "failed" /\ ex'[d][t].conn # 0 =>
                    ~up'[t][ex'[d][t].conn].healthy
    <3>1. CASE d = c /\ t = s
      BY <3>1, <1>1, <1>3 DEF k
    <3>2. CASE d # c \/ t # s
      <4>1. ex[d][t].at \in {"write", "recv"} => ex[d][t].conn # 0
        BY DEF HoldInv
      <4>2. ex'[d][t] = ex[d][t]
        BY <3>2, <1>1
      <4> QED
        BY <4>1, <4>2, <3>2, <1>7 DEF HealthInv
    <3> QED
      BY <3>1, <3>2
  <2> QED
    BY <2>1, <2>2
<1> QED
  BY <1>5, <1>6, <1>8, <1>9

LEMMA UsedLeaseInv ==
  ASSUME LeaseInv, NEW c \in Clients, NEW s \in Shards, NEW at, NEW u, Used(c, s, at, u),
         prog # "fanout_requests" => (u.failed => ~u.healthy)
  PROVE  LeaseInv'
<1>0. ProxyType /\ PhaseInv /\ HoldInv /\ HealthInv /\ InflightExact
  BY DEF LeaseInv
<1> DEFINE e == [ex[c][s] EXCEPT !.at = at]
           k == ex[c][s].conn
<1>1. /\ ex' = SetEx(c, s, e) /\ up' = SetUp(s, k, u) /\ UNCHANGED <<prog, cl, fan>>
      /\ Busy(c, s) /\ u \in UpstreamType /\ u.place = "leased"
      /\ \/ at = "recv" /\ u.healthy = Lent(c, s).healthy
         \/ at = "failed" /\ ~u.healthy /\ prog = "http_proxy"
  BY DEF Used
<1>2. k \in Conns /\ k # 0 /\ Lent(c, s).place = "leased"
  BY <1>0, <1>1, BusyFacts
<1>3. e \in ExchangeType /\ e.at = at /\ e.conn = k
  BY <1>0, <1>1, ExFields DEF ExchangeType
<1>4. prog # "fanout_requests" => Lent(c, s).healthy
  BY <1>0, <1>1 DEF HealthInv, Busy, Lent
<1>5. fan' \in [next : Nat, inflight : Int, peak : Int]
  BY <1>0, <1>1 DEF ProxyType
<1>6. u.place = "leased" => u.place # "idle"
  OBVIOUS
<1>7. ProxyType' /\ PhaseInv' /\ HoldInv' /\ HealthInv'
  <2> HIDE DEF e
  <2> QED
    BY <1>0, <1>1, <1>2, <1>3, <1>4, <1>5, <1>6, HeldMove
<1>8. InflightExact'
  <2>1. \A j \in Conns : up'[1][j].place = "leased" <=> up[1][j].place = "leased"
    BY <1>0, <1>1, <1>2, SetUpFacts, ProxyAssumption DEF Lent
  <2> QED
    BY <2>1, <1>0, <1>1, InflightSame
<1> QED
  BY <1>7, <1>8 DEF LeaseInv

LEMMA SettledLeaseInv ==
  ASSUME LeaseInv, NEW c \in Clients, NEW s \in Shards, NEW at, NEW u, NEW got,
         Settled(c, s, at, u, got)
  PROVE  LeaseInv'
<1>0. ProxyType /\ PhaseInv /\ HoldInv /\ HealthInv /\ InflightExact
  BY DEF LeaseInv
<1> DEFINE e == [at |-> at, conn |-> 0, got |-> got]
           k == ex[c][s].conn
           v == Returned(u)
<1>1. /\ ex' = SetEx(c, s, e) /\ up' = SetUp(s, k, v) /\ UNCHANGED <<prog, cl>>
      /\ Busy(c, s) /\ at \in {"replied", "failed"} /\ got \in Seq(Unit)
      /\ u \in UpstreamType /\ u.place = "leased"
      /\ prog # "fanout_requests" => (u.failed => ~u.healthy)
      /\ fan' = IF prog = "fanout_requests" THEN [fan EXCEPT !.inflight = @ - 1] ELSE fan
  BY DEF Settled
<1>2. k \in Conns /\ k # 0 /\ Lent(c, s).place = "leased"
  BY <1>0, <1>1, BusyFacts
<1>3. e \in ExchangeType /\ e.at = at /\ e.conn = 0
  BY <1>1 DEF ExchangeType
<1>4. /\ v \in UpstreamType /\ v.place \in {"idle", "closed"}
      /\ prog # "fanout_requests" =>
           /\ v.failed => ~v.healthy
           /\ v.place = "idle" => v.healthy
  <2>1. v \in UpstreamType /\ v.place \in {"idle", "closed"}
    BY <1>0, <1>1, ReturnedFacts
  <2>2. ASSUME prog # "fanout_requests"
        PROVE (v.failed => ~v.healthy) /\ (v.place = "idle" => v.healthy)
    <3>1. CASE u.healthy
      <4>1. ~has_broken(u)
        BY <3>1, <1>0, <1>1, ReturnedFacts
      <4> QED
        BY <3>1, <4>1, <1>0, <1>1, <2>2, ReturnedFacts
    <3>2. CASE ~u.healthy
      <4>1. has_broken(u)
        BY <3>2, <1>0, <1>1, <2>2, ReturnedFacts
      <4>2. v = Upstream("closed")
        BY <4>1, <1>0, <1>1, ReturnedFacts
      <4> QED
        BY <4>2 DEF Upstream
    <3> QED
      BY <3>1, <3>2
  <2> QED
    BY <2>1, <2>2
<1>5. fan' \in [next : Nat, inflight : Int, peak : Int]
  <2> DEFINE i == fan.inflight - 1
  <2>1. fan \in [next : Nat, inflight : Int, peak : Int]
    BY <1>0 DEF ProxyType
  <2>2. i \in Int
    BY <2>1
  <2>3. fan' = fan \/ fan' = [fan EXCEPT !.inflight = i]
    BY <1>1
  <2> HIDE DEF i
  <2> QED
    BY <2>1, <2>2, <2>3
<1> HIDE DEF v
<1>6. ProxyType' /\ PhaseInv' /\ HoldInv' /\ HealthInv'
  <2> HIDE DEF e
  <2> QED
    BY <1>0, <1>1, <1>2, <1>3, <1>4, <1>5, HeldMove
<1>7. InflightExact'
  <2>1. CASE prog # "fanout_requests"
    BY <2>1, <1>1 DEF InflightExact
  <2>2. CASE prog = "fanout_requests"
    <3>1. s = 1
      BY <2>2, <1>0, <1>1, PoolOne DEF Busy
    <3>2. Leased' = Leased \ {k} /\ k \in Leased
      <4>1. /\ up'[1][k] = v
            /\ \A j \in Conns : j # k => up'[1][j] = up[1][j]
        BY <3>1, <1>0, <1>1, <1>2, SetUpFacts, ProxyAssumption
      <4>2. up[1][k].place = "leased"
        BY <3>1, <1>2 DEF Lent
      <4> QED
        BY <4>1, <4>2, <1>2, <1>4 DEF Leased
    <3>3. Cardinality(Leased') = Cardinality(Leased) - 1
      BY <3>2, LeasedFinite, FS_RemoveElement
    <3>4. fan.inflight = Cardinality(Leased) /\ fan.peak <= Capacity
      BY <2>2, <1>0 DEF InflightExact, Leased
    <3>5. fan'.inflight = fan.inflight - 1 /\ fan'.peak = fan.peak
      BY <2>2, <1>0, <1>1 DEF ProxyType
    <3>6. fan'.inflight = Cardinality(Leased') /\ fan'.peak <= Capacity
      BY <3>3, <3>4, <3>5
    <3> QED
      BY <3>6 DEF InflightExact, Leased
  <2> QED
    BY <2>1, <2>2
<1> QED
  BY <1>6, <1>7 DEF LeaseInv

LEMMA DeniedLeaseInv ==
  ASSUME LeaseInv, NEW c \in Clients, NEW s \in Shards, Denied(c, s)
  PROVE  LeaseInv'
<1>0. ProxyType /\ PhaseInv /\ HoldInv /\ HealthInv /\ InflightExact
  BY DEF LeaseInv
<1> DEFINE e == [ex[c][s] EXCEPT !.at = "no_upstream"]
<1>1. /\ ex' = SetEx(c, s, e) /\ ex[c][s].at = "get"
      /\ prog' = prog /\ cl' = cl /\ up' = up /\ fan' = fan
  BY DEF Denied
<1>2. e \in ExchangeType /\ e.at = "no_upstream" /\ e.conn = ex[c][s].conn
  BY <1>0, ExFields DEF ExchangeType
<1>3. ex[c][s].conn = 0
  BY <1>0, <1>1 DEF HoldInv
<1> HIDE DEF e
<1>4. /\ ex'[c][s] = e
      /\ \A d \in Clients, t \in Shards : d # c \/ t # s => ex'[d][t] = ex[d][t]
      /\ ex' \in [Clients -> [Shards -> ExchangeType]]
  BY <1>0, <1>1, <1>2, SetExFacts
<1>5. ProxyType'
  BY <1>0, <1>1, <1>4 DEF ProxyType
<1>6. PhaseInv'
  <2>1. cl[c].at = "wait" /\ s \in Pools
    BY <1>0, <1>1, PoolOne
  <2>2. Pools' = Pools
    BY <1>1 DEF Pools
  <2> QED
    BY <1>0, <1>1, <1>4, <2>1, <2>2 DEF PhaseInv
<1>a. \A d \in Clients, t \in Shards :
        /\ ex'[d][t].conn = ex[d][t].conn
        /\ \/ ex'[d][t].at = ex[d][t].at
           \/ ex'[d][t].at = "no_upstream" /\ ex[d][t].conn = 0
  BY <1>2, <1>3, <1>4
<1>7. HoldInv'
  BY <1>0, <1>1, <1>a DEF HoldInv
<1>8. HealthInv'
  BY <1>0, <1>1, <1>a DEF HealthInv
<1>9. InflightExact'
  BY <1>0, <1>1 DEF InflightExact
<1> QED
  BY <1>5, <1>6, <1>7, <1>8, <1>9 DEF LeaseInv

-----------------------------------------------------------------------------
(* The lease invariant: the moves of a backend and of the pool. *)

LEMMA TouchedLeaseInv ==
  ASSUME LeaseInv, NEW s \in Shards, NEW k \in Conns, NEW u, Touched(s, k, u)
  PROVE  LeaseInv'
<1>0. ProxyType /\ PhaseInv /\ HoldInv /\ HealthInv /\ InflightExact
  BY DEF LeaseInv
<1>1. /\ prog' = prog /\ cl' = cl /\ ex' = ex /\ fan' = fan
      /\ u \in UpstreamType /\ u.place = up[s][k].place
      /\ u.healthy = up[s][k].healthy /\ u.failed = up[s][k].failed
      /\ up' = SetUp(s, k, u)
  BY DEF Touched
<1>2. /\ up' \in [Shards -> [Conns -> UpstreamType]]
      /\ \A t \in Shards, j \in Conns :
           /\ up'[t][j].place = up[t][j].place
           /\ up'[t][j].healthy = up[t][j].healthy /\ up'[t][j].failed = up[t][j].failed
  BY <1>0, <1>1, SetUpFacts
<1>3. ProxyType' /\ PhaseInv'
  BY <1>0, <1>1, <1>2 DEF ProxyType, PhaseInv, Pools
<1>4. \A d \in Clients, t \in Shards : ex[d][t].conn # 0 => ex[d][t].conn \in Conns
  BY <1>0, ExFields
<1>5. HoldInv'
  BY <1>0, <1>1, <1>2, <1>4 DEF HoldInv
<1>6. HealthInv'
  <2>1. \A d \in Clients, t \in Shards :
          ex[d][t].at \in {"write", "recv"} => ex[d][t].conn # 0
    BY <1>0 DEF HoldInv
  <2> SUFFICES ASSUME prog # "fanout_requests"
               PROVE  /\ \A t \in Shards, j \in Conns :
                           /\ up'[t][j].failed => ~up'[t][j].healthy
                           /\ up'[t][j].place = "idle" => up'[t][j].healthy
                      /\ \A d \in Clients, t \in Shards :
                           /\ ex[d][t].at \in {"write", "recv"} =>
                                up'[t][ex[d][t].conn].healthy
                           /\ ex[d][t].at = "failed" /\ ex[d][t].conn # 0 =>
                                ~up'[t][ex[d][t].conn].healthy
    BY <1>1 DEF HealthInv
  <2>2. ASSUME NEW t \in Shards, NEW j \in Conns
        PROVE  /\ up'[t][j].failed => ~up'[t][j].healthy
               /\ up'[t][j].place = "idle" => up'[t][j].healthy
    BY <1>0, <1>2 DEF HealthInv
  <2>3. ASSUME NEW d \in Clients, NEW t \in Shards, ex[d][t].at \in {"write", "recv"}
        PROVE  up'[t][ex[d][t].conn].healthy
    BY <1>0, <1>2, <1>4, <2>1, <2>3 DEF HealthInv
  <2>4. ASSUME NEW d \in Clients, NEW t \in Shards, ex[d][t].at = "failed", ex[d][t].conn # 0
        PROVE  ~up'[t][ex[d][t].conn].healthy
    BY <1>0, <1>2, <1>4, <2>4 DEF HealthInv
  <2> QED
    BY <2>2, <2>3, <2>4
<1>7. InflightExact'
  BY <1>0, <1>1, <1>2, InflightSame, ProxyAssumption
<1> QED
  BY <1>3, <1>5, <1>6, <1>7 DEF LeaseInv

LEMMA ExpiredLeaseInv ==
  ASSUME LeaseInv, NEW s \in Shards, NEW k \in Conns, Expired(s, k)
  PROVE  LeaseInv'
<1>0. ProxyType /\ PhaseInv /\ HoldInv /\ HealthInv /\ InflightExact
  BY DEF LeaseInv
<1> DEFINE u == Upstream("closed")
<1>1. /\ prog' = prog /\ cl' = cl /\ ex' = ex /\ fan' = fan
      /\ up[s][k].place = "idle" /\ up' = SetUp(s, k, u)
  BY DEF Expired
<1>2. u \in UpstreamType /\ u.place = "closed" /\ u.healthy /\ ~u.failed
  BY BlankTypes DEF Upstream
<1> HIDE DEF u
<1>3. /\ up'[s][k] = u
      /\ \A t \in Shards, j \in Conns : t # s \/ j # k => up'[t][j] = up[t][j]
      /\ up' \in [Shards -> [Conns -> UpstreamType]]
  BY <1>0, <1>1, <1>2, SetUpFacts
<1>4. ProxyType' /\ PhaseInv'
  BY <1>0, <1>1, <1>3 DEF ProxyType, PhaseInv, Pools
<1>5. \A d \in Clients, t \in Shards :
        ex[d][t].conn # 0 => up'[t][ex[d][t].conn] = up[t][ex[d][t].conn]
  <2> SUFFICES ASSUME NEW d \in Clients, NEW t \in Shards, ex[d][t].conn # 0
               PROVE  up'[t][ex[d][t].conn] = up[t][ex[d][t].conn]
    OBVIOUS
  <2>1. ex[d][t].conn \in Conns /\ up[t][ex[d][t].conn].place = "leased"
    BY <1>0, ExFields DEF HoldInv
  <2> QED
    BY <2>1, <1>1, <1>3
<1>6. HoldInv'
  BY <1>0, <1>1, <1>5 DEF HoldInv
<1>7. HealthInv'
  <2>1. \A d \in Clients, t \in Shards :
          ex[d][t].at \in {"write", "recv"} => ex[d][t].conn # 0
    BY <1>0 DEF HoldInv
  <2> QED
    BY <1>0, <1>1, <1>2, <1>3, <1>5, <2>1 DEF HealthInv
<1>8. InflightExact'
  <2>1. \A j \in Conns : up'[1][j].place = "leased" <=> up[1][j].place = "leased"
    BY <1>1, <1>2, <1>3, ProxyAssumption
  <2> QED
    BY <2>1, <1>0, <1>1, InflightSame
<1> QED
  BY <1>4, <1>6, <1>7, <1>8 DEF LeaseInv

-----------------------------------------------------------------------------
(* The lease invariant: the moves of a client. *)

Idle == [s \in Shards |-> NoExchange]
Asking == [s \in Shards |-> IF s \in Pools THEN [NoExchange EXCEPT !.at = "get"] ELSE NoExchange]

\* A request begins; the client leaves; or it is answered, and an upstream the
\* exchange still had goes back.
Began(c, n, msg) ==
  /\ cl[c].at = "read" /\ n \in Nat /\ msg \in HttpMessage
  /\ cl' = [cl EXCEPT ![c] = [at |-> "wait", n |-> n, req |-> msg, out |-> << >>]]
  /\ ex' = [ex EXCEPT ![c] = Asking]
  /\ fan'.inflight = fan.inflight /\ fan'.peak = fan.peak
  /\ fan' \in [next : Nat, inflight : Int, peak : Int]
  /\ UNCHANGED <<prog, up>>
Left(c, out) ==
  /\ cl[c].at = "read"
  /\ out = cl[c].out \/ (out = <<ErrorPart>> /\ prog = "http_proxy")
  /\ cl' = [cl EXCEPT ![c] = [cl[c] EXCEPT !.at = "done", !.out = out]]
  /\ UNCHANGED <<prog, ex, up, fan>>
Concluded(c, out, next) ==
  /\ cl[c].at = "wait" /\ next \in {"read", "done"}
  /\ out \in Seq(Seq(Unit)) \cup [Shards -> Seq(Unit)]
  /\ cl' = [cl EXCEPT ![c] = [cl[c] EXCEPT !.at = next, !.out = out]]
  /\ ex' = [ex EXCEPT ![c] = Idle]
  /\ UNCHANGED <<prog, fan>>
  /\ \/ up' = up /\ \A s \in Shards : ex[c][s].conn = 0
     \/ /\ prog = "http_proxy" /\ ex[c][1].at = "failed" /\ ex[c][1].conn # 0
        /\ up' = SetUp(1, ex[c][1].conn, Returned(Lent(c, 1)))

LEMMA SetClFacts ==
  ASSUME ProxyType, NEW c \in Clients, NEW r \in ClientType, cl' = [cl EXCEPT ![c] = r]
  PROVE  /\ cl'[c] = r /\ cl' \in [Clients -> ClientType]
         /\ \A d \in Clients : d # c => cl'[d] = cl[d]
  BY DEF ProxyType

LEMMA SetAllFacts ==
  ASSUME ProxyType, NEW c \in Clients, NEW f \in [Shards -> ExchangeType],
         ex' = [ex EXCEPT ![c] = f]
  PROVE  /\ ex'[c] = f /\ ex' \in [Clients -> [Shards -> ExchangeType]]
         /\ \A d \in Clients : d # c => ex'[d] = ex[d]
  BY DEF ProxyType

LEMMA BeganLeaseInv ==
  ASSUME LeaseInv, NEW c \in Clients, NEW n, NEW msg, Began(c, n, msg)
  PROVE  LeaseInv'
<1>0. ProxyType /\ PhaseInv /\ HoldInv /\ HealthInv /\ InflightExact
  BY DEF LeaseInv
<1> DEFINE r == [at |-> "wait", n |-> n, req |-> msg, out |-> << >>]
<1>1. /\ cl' = [cl EXCEPT ![c] = r] /\ ex' = [ex EXCEPT ![c] = Asking]
      /\ prog' = prog /\ up' = up /\ n \in Nat /\ msg \in HttpMessage
      /\ fan' \in [next : Nat, inflight : Int, peak : Int]
      /\ fan'.inflight = fan.inflight /\ fan'.peak = fan.peak
  BY DEF Began
<1>2. r \in ClientType /\ r.at = "wait"
  <2>1. << >> \in Seq(Seq(Unit))
    OBVIOUS
  <2> QED
    BY <1>1, <2>1 DEF ClientType
<1>3. /\ Asking \in [Shards -> ExchangeType]
      /\ \A s \in Shards : Asking[s].conn = 0 /\ Asking[s].at \in {"get", "none"}
      /\ \A s \in Shards : s \notin Pools => Asking[s] = NoExchange
  <2>1. \A s \in Shards : Asking[s] = IF s \in Pools THEN [NoExchange EXCEPT !.at = "get"]
                                      ELSE NoExchange
    BY DEF Asking
  <2>2. Asking \in [Shards -> ExchangeType]
    BY BlankTypes DEF Asking
  <2> QED
    BY <2>1, <2>2 DEF NoExchange
<1> HIDE DEF r
<1>4. /\ cl'[c] = r /\ cl' \in [Clients -> ClientType]
      /\ \A d \in Clients : d # c => cl'[d] = cl[d]
  BY <1>0, <1>1, <1>2, SetClFacts
<1>5. /\ ex'[c] = Asking /\ ex' \in [Clients -> [Shards -> ExchangeType]]
      /\ \A d \in Clients : d # c => ex'[d] = ex[d]
  BY <1>0, <1>1, <1>3, SetAllFacts
<1>6. ProxyType'
  BY <1>0, <1>1, <1>4, <1>5 DEF ProxyType
<1>7. PhaseInv'
  <2>1. Pools' = Pools
    BY <1>1 DEF Pools
  <2> QED
    BY <1>0, <1>2, <1>3, <1>4, <1>5, <2>1 DEF PhaseInv
<1>8. HoldInv'
  <2>1. ASSUME NEW d \in Clients, NEW t \in Shards
        PROVE  \/ ex'[d][t] = ex[d][t] /\ d # c
               \/ d = c /\ ex'[d][t].conn = 0 /\ ex'[d][t].at \in {"get", "none"}
    BY <1>3, <1>5
  <2> QED
    BY <1>0, <1>1, <2>1 DEF HoldInv
<1>9. HealthInv'
  <2>1. ASSUME NEW d \in Clients, NEW t \in Shards
        PROVE  ex'[d][t] = ex[d][t] \/ ex'[d][t].at \in {"get", "none"}
    BY <1>3, <1>5
  <2> QED
    BY <1>0, <1>1, <2>1 DEF HealthInv
<1>10. InflightExact'
  BY <1>0, <1>1, InflightSame
<1> QED
  BY <1>6, <1>7, <1>8, <1>9, <1>10 DEF LeaseInv

LEMMA LeftLeaseInv ==
  ASSUME LeaseInv, NEW c \in Clients, NEW out, Left(c, out)
  PROVE  LeaseInv'
<1>0. ProxyType /\ PhaseInv /\ HoldInv /\ HealthInv /\ InflightExact
  BY DEF LeaseInv
<1> DEFINE r == [cl[c] EXCEPT !.at = "done", !.out = out]
<1>1. /\ cl' = [cl EXCEPT ![c] = r] /\ cl[c].at = "read"
      /\ prog' = prog /\ ex' = ex /\ up' = up /\ fan' = fan
      /\ out = cl[c].out \/ out = <<ErrorPart>>
  BY DEF Left
<1>2. r \in ClientType /\ r.at = "done"
  <2>1. << >> \in Seq(Unit)
    OBVIOUS
  <2>2. <<ErrorPart>> \in Seq(Seq(Unit))
    BY <2>1 DEF ErrorPart
  <2>3. cl[c] \in ClientType
    BY <1>0, ClFields
  <2>4. out \in Seq(Seq(Unit)) \cup [Shards -> Seq(Unit)]
    BY <1>1, <2>2, <2>3 DEF ClientType
  <2> QED
    BY <2>3, <2>4 DEF ClientType
<1> HIDE DEF r
<1>3. /\ cl'[c] = r /\ cl' \in [Clients -> ClientType]
      /\ \A d \in Clients : d # c => cl'[d] = cl[d]
  BY <1>0, <1>1, <1>2, SetClFacts
<1>4. ProxyType'
  BY <1>0, <1>1, <1>3 DEF ProxyType
<1>5. PhaseInv'
  <2>1. Pools' = Pools
    BY <1>1 DEF Pools
  <2>2. \A d \in Clients : cl'[d].at # "wait" => cl[d].at # "wait"
    BY <1>1, <1>3
  <2> QED
    BY <1>0, <1>1, <2>1, <2>2 DEF PhaseInv
<1>6. HoldInv' /\ HealthInv' /\ InflightExact'
  BY <1>0, <1>1 DEF HoldInv, HealthInv, InflightExact
<1> QED
  BY <1>4, <1>5, <1>6 DEF LeaseInv

LEMMA ConcludedLeaseInv ==
  ASSUME LeaseInv, NEW c \in Clients, NEW out, NEW next, Concluded(c, out, next)
  PROVE  LeaseInv'
<1>0. ProxyType /\ PhaseInv /\ HoldInv /\ HealthInv /\ InflightExact
  BY DEF LeaseInv
<1> DEFINE r == [cl[c] EXCEPT !.at = next, !.out = out]
           k == ex[c][1].conn
           v == Returned(Lent(c, 1))
           Back == prog = "http_proxy" /\ ex[c][1].at = "failed" /\ k # 0
                     /\ up' = SetUp(1, k, v)
<1>1. /\ cl' = [cl EXCEPT ![c] = r] /\ ex' = [ex EXCEPT ![c] = Idle]
      /\ prog' = prog /\ fan' = fan
      /\ next \in {"read", "done"} /\ out \in Seq(Seq(Unit)) \cup [Shards -> Seq(Unit)]
      /\ (up' = up /\ \A s \in Shards : ex[c][s].conn = 0) \/ Back
  BY DEF Concluded
<1>2. r \in ClientType
  <2>1. cl[c] \in ClientType
    BY <1>0, ClFields
  <2> QED
    BY <1>1, <2>1 DEF ClientType
<1> HIDE DEF r
<1>3. /\ cl'[c] = r /\ cl' \in [Clients -> ClientType]
      /\ \A d \in Clients : d # c => cl'[d] = cl[d]
  BY <1>0, <1>1, <1>2, SetClFacts
<1>4. /\ Idle \in [Shards -> ExchangeType]
      /\ \A s \in Shards : Idle[s] = NoExchange /\ Idle[s].conn = 0 /\ Idle[s].at = "none"
  BY BlankTypes DEF Idle, NoExchange
<1>5. /\ ex'[c] = Idle /\ ex' \in [Clients -> [Shards -> ExchangeType]]
      /\ \A d \in Clients : d # c => ex'[d] = ex[d]
  BY <1>0, <1>1, <1>4, SetAllFacts
\* An upstream that went back was marked, and is closed.
<1>6. ASSUME Back
      PROVE  /\ k \in Conns /\ up[1][k].place = "leased"
             /\ up'[1][k] = Upstream("closed")
             /\ \A t \in Shards, j \in Conns : t # 1 \/ j # k => up'[t][j] = up[t][j]
             /\ up' \in [Shards -> [Conns -> UpstreamType]]
  <2>1. k \in Conns /\ up[1][k].place = "leased" /\ ~up[1][k].healthy
    BY <1>0, <1>6, ExFields, ProxyAssumption DEF HoldInv, HealthInv
  <2>2. Lent(c, 1) \in UpstreamType /\ ~Lent(c, 1).healthy
    BY <1>0, <2>1, UpFields, ProxyAssumption DEF Lent
  <2>3. v = Upstream("closed")
    BY <1>0, <1>6, <2>2, ReturnedFacts
  <2>4. up' = SetUp(1, k, Upstream("closed")) /\ Upstream("closed") \in UpstreamType
    BY <1>6, <2>3, BlankTypes
  <2> QED
    BY <1>0, <2>1, <2>4, SetUpFacts, ProxyAssumption
<1>7. ProxyType'
  <2>1. up' \in [Shards -> [Conns -> UpstreamType]]
    BY <1>0, <1>1, <1>6 DEF ProxyType
  <2> QED
    BY <1>0, <1>1, <1>3, <1>5, <2>1 DEF ProxyType
<1>8. PhaseInv'
  <2>1. Pools' = Pools
    BY <1>1 DEF Pools
  <2> QED
    BY <1>0, <1>3, <1>4, <1>5, <2>1 DEF PhaseInv
\* Nobody else's upstream is touched.
<1>9. ASSUME NEW d \in Clients, NEW t \in Shards, d # c, ex[d][t].conn # 0
      PROVE  up'[t][ex[d][t].conn] = up[t][ex[d][t].conn]
  <2>1. ex[d][t].conn \in Conns
    BY <1>0, <1>9, ExFields
  <2>2. CASE Back
    <3>1. t # 1 \/ ex[d][t].conn # k
      BY <1>0, <1>9, <2>2, ProxyAssumption DEF HoldInv
    <3> QED
      BY <2>1, <2>2, <3>1, <1>6
  <2>3. CASE up' = up
    BY <2>3
  <2> QED
    BY <1>1, <2>2, <2>3
<1>10. \A d \in Clients, t \in Shards :
         \/ d # c /\ ex'[d][t] = ex[d][t]
         \/ d = c /\ ex'[d][t].conn = 0 /\ ex'[d][t].at = "none"
  BY <1>4, <1>5
<1>11. HoldInv'
  BY <1>0, <1>1, <1>9, <1>10 DEF HoldInv
<1>12. HealthInv'
  <2> SUFFICES ASSUME prog # "fanout_requests"
               PROVE  /\ \A t \in Shards, j \in Conns :
                           /\ up'[t][j].failed => ~up'[t][j].healthy
                           /\ up'[t][j].place = "idle" => up'[t][j].healthy
                      /\ \A d \in Clients, t \in Shards :
                           /\ ex'[d][t].at \in {"write", "recv"} =>
                                up'[t][ex'[d][t].conn].healthy
                           /\ ex'[d][t].at = "failed" /\ ex'[d][t].conn # 0 =>
                                ~up'[t][ex'[d][t].conn].healthy
    BY <1>1 DEF HealthInv
  <2>1. ASSUME NEW t \in Shards, NEW j \in Conns
        PROVE  /\ up'[t][j].failed => ~up'[t][j].healthy
               /\ up'[t][j].place = "idle" => up'[t][j].healthy
    <3>1. up'[t][j] = up[t][j] \/ up'[t][j] = Upstream("closed")
      BY <1>1, <1>6
    <3> QED
      BY <1>0, <3>1 DEF HealthInv, Upstream
  <2>2. ASSUME NEW d \in Clients, NEW t \in Shards, ex'[d][t].at \in {"write", "recv"}
        PROVE  up'[t][ex'[d][t].conn].healthy
    <3>1. d # c /\ ex'[d][t] = ex[d][t]
      BY <1>10, <2>2
    <3>2. ex[d][t].conn # 0
      BY <1>0, <2>2, <3>1 DEF HoldInv
    <3> QED
      BY <1>0, <1>9, <2>2, <3>1, <3>2 DEF HealthInv
  <2>3. ASSUME NEW d \in Clients, NEW t \in Shards, ex'[d][t].at = "failed", ex'[d][t].conn # 0
        PROVE  ~up'[t][ex'[d][t].conn].healthy
    <3>1. d # c /\ ex'[d][t] = ex[d][t]
      BY <1>10, <2>3
    <3> QED
      BY <1>0, <1>9, <2>3, <3>1 DEF HealthInv
  <2> QED
    BY <2>1, <2>2, <2>3
<1>13. InflightExact'
  <2>1. CASE Back
    BY <1>1, <2>1 DEF InflightExact
  <2>2. CASE up' = up
    BY <1>0, <1>1, <2>2 DEF InflightExact
  <2> QED
    BY <1>1, <2>1, <2>2
<1> QED
  BY <1>7, <1>8, <1>11, <1>12, <1>13 DEF LeaseInv

\* What a proxy goes on with, and what a client is sent.
Accepted(msg) ==
  \/ msg = Msgless
  \/ msg \in Requests /\ read_message(Units(<< >>, msg), "request").res # "refused"
Fitting(c, out) ==
  /\ \A s \in DOMAIN out : s \in Shards /\ (out[s] = << >> \/ out[s] = ex[c][s].got)
  /\ prog = "scatter_gather" => DOMAIN out = Shards

LEMMA BeginMoves ==
  ASSUME ProxyType, NEW c \in Clients, NEW n \in Nat, NEW msg, cl[c].at = "read",
         Accepted(msg), Begin(c, n, msg), UNCHANGED <<prog, up>>,
         fan' = fan \/ fan' = [fan EXCEPT !.next = @ + 1]
  PROVE  Began(c, n, msg)
<1>1. msg \in HttpMessage
  BY MessageTypes, ProxyAssumption DEF Accepted
<1>2. fan \in [next : Nat, inflight : Int, peak : Int]
  BY DEF ProxyType
<1>3. fan.next + 1 \in Nat
  BY <1>2
<1>4. /\ fan' \in [next : Nat, inflight : Int, peak : Int]
      /\ fan'.inflight = fan.inflight /\ fan'.peak = fan.peak
  BY <1>2, <1>3
<1> QED
  BY <1>1, <1>4 DEF Began, Begin, Asking

LEMMA ArrivalMoves ==
  ASSUME ProxyType, NEW c \in Clients, Arrival(c)
  PROVE  \/ \E n, msg : Began(c, n, msg) /\ Accepted(msg)
         \/ \E out : Left(c, out)
<1>0. cl[c] \in ClientType /\ cl[c].n \in Nat /\ cl[c].n + 1 \in Nat
  BY ClFields
<1>1. CASE ReadRequest(c)
  <2>1. PICK msg \in Requests :
          IF read_message(Units(<< >>, msg), "request").res = "refused"
          THEN cl' = [cl EXCEPT ![c].at = "done", ![c].out = <<ErrorPart>>] /\ UNCHANGED ex
          ELSE Begin(c, cl[c].n + 1, msg)
    BY <1>1 DEF ReadRequest
  <2>2. /\ prog = "http_proxy" /\ cl[c].at = "read"
        /\ prog' = prog /\ up' = up /\ fan' = fan
    BY <1>1 DEF ReadRequest
  <2>3. CASE read_message(Units(<< >>, msg), "request").res = "refused"
    <3>1. cl' = [cl EXCEPT ![c].at = "done", ![c].out = <<ErrorPart>>] /\ ex' = ex
      BY <2>1, <2>3
    <3>2. cl' = [cl EXCEPT ![c] = [cl[c] EXCEPT !.at = "done", !.out = <<ErrorPart>>]]
      BY <3>1 DEF ProxyType
    <3>3. Left(c, <<ErrorPart>>)
      BY <2>2, <3>1, <3>2 DEF Left
    <3> QED
      BY <3>3
  <2>4. CASE read_message(Units(<< >>, msg), "request").res # "refused"
    <3>1. Accepted(msg) /\ Begin(c, cl[c].n + 1, msg)
      BY <2>1, <2>4 DEF Accepted
    <3>2. Began(c, cl[c].n + 1, msg)
      BY <1>0, <2>2, <3>1, BeginMoves
    <3> QED
      BY <3>1, <3>2
  <2> QED
    BY <2>3, <2>4
<1>2. CASE Scatter(c) \/ ReadBytes(c)
  <2>1. /\ cl[c].at = "read" /\ Begin(c, cl[c].n + 1, Msgless)
        /\ prog' = prog /\ up' = up /\ fan' = fan
    BY <1>2 DEF Scatter, ReadBytes
  <2>2. Accepted(Msgless)
    BY DEF Accepted
  <2>3. Began(c, cl[c].n + 1, Msgless)
    BY <1>0, <2>1, <2>2, BeginMoves
  <2> QED
    BY <2>2, <2>3
<1>3. ASSUME cl[c].at = "read", Leave(c), UNCHANGED <<prog, ex, up, fan>>
      PROVE  Left(c, cl[c].out)
  <2>1. cl' = [cl EXCEPT ![c] = [cl[c] EXCEPT !.at = "done"]]
    BY <1>3 DEF Leave
  <2>2. [cl[c] EXCEPT !.at = "done"] = [cl[c] EXCEPT !.at = "done", !.out = cl[c].out]
    BY <1>0 DEF ClientType
  <2> QED
    BY <1>3, <2>1, <2>2 DEF Left
<1>4. CASE Claim(c) /\ fan.next >= MaxRequests
  <2>1. cl[c].at = "read" /\ Leave(c) /\ UNCHANGED <<prog, ex, up, fan>>
    BY <1>4 DEF Claim
  <2> QED
    BY <1>3, <2>1
<1>5. CASE Claim(c) /\ ~(fan.next >= MaxRequests)
  <2>1. /\ cl[c].at = "read" /\ Begin(c, fan.next + 1, Msgless)
        /\ prog' = prog /\ up' = up /\ fan' = [fan EXCEPT !.next = @ + 1]
    BY <1>5 DEF Claim
  <2>2. Accepted(Msgless) /\ fan.next + 1 \in Nat
    BY DEF Accepted, ProxyType
  <2>3. Began(c, fan.next + 1, Msgless)
    BY <2>1, <2>2, BeginMoves
  <2> QED
    BY <2>2, <2>3
<1>6. CASE ClientCloses(c)
  <2>1. cl[c].at = "read" /\ Leave(c) /\ UNCHANGED <<prog, ex, up, fan>>
    BY <1>6 DEF ClientCloses
  <2> QED
    BY <1>3, <2>1
<1> QED
  BY <1>1, <1>2, <1>4, <1>5, <1>6 DEF Arrival

LEMMA AnsweredMoves ==
  ASSUME ProxyType, NEW c \in Clients, NEW out, NEW next \in {"read", "done"},
         out \in Seq(Seq(Unit)) \cup [Shards -> Seq(Unit)],
         cl[c].at = "wait", Answered(c, out, next), UNCHANGED <<prog, fan>>,
         \/ up' = up /\ \A s \in Shards : ex[c][s].conn = 0
         \/ /\ prog = "http_proxy" /\ ex[c][1].at = "failed" /\ ex[c][1].conn # 0
            /\ up' = SetUp(1, ex[c][1].conn, Returned(Lent(c, 1)))
  PROVE  Concluded(c, out, next)
<1>1. cl' = [cl EXCEPT ![c] = [cl[c] EXCEPT !.at = next, !.out = out]]
  <2>1. cl[c] \in ClientType
    BY ClFields
  <2>2. cl' = [cl EXCEPT ![c].out = out, ![c].at = next]
    BY DEF Answered
  <2>3. cl' = [cl EXCEPT ![c] = [cl[c] EXCEPT !.out = out, !.at = next]]
    BY <2>2 DEF ProxyType
  <2>4. [cl[c] EXCEPT !.out = out, !.at = next] = [cl[c] EXCEPT !.at = next, !.out = out]
    BY <2>1 DEF ClientType
  <2> QED
    BY <2>3, <2>4
<1>2. ex' = [ex EXCEPT ![c] = Idle]
  BY DEF Answered, Idle
<1> QED
  BY <1>1, <1>2 DEF Concluded

\* An exchange that is over has no upstream, unless the proxy has yet to say so.
LEMMA OverFacts ==
  ASSUME LeaseInv, NEW c \in Clients, \A s \in Pools : Over(c, s)
  PROVE  prog # "http_proxy" \/ ex[c][1].at # "failed" => \A s \in Shards : ex[c][s].conn = 0
<1> SUFFICES ASSUME NEW s \in Shards, ex[c][s].conn # 0
             PROVE  prog = "http_proxy" /\ ex[c][1].at = "failed"
  OBVIOUS
<1>0. ProxyType /\ PhaseInv /\ HoldInv
  BY DEF LeaseInv
<1>1. s \in Pools
  BY <1>0 DEF PhaseInv, NoExchange
<1>2. ex[c][s].at = "failed" /\ prog = "http_proxy"
  BY <1>0, <1>1 DEF HoldInv, Over
<1>3. s = 1
  BY <1>1, <1>2 DEF Pools
<1> QED
  BY <1>2, <1>3

LEMMA AnswerMoves ==
  ASSUME LeaseInv, NEW c \in Clients, Answer(c)
  PROVE  \E out, next : Concluded(c, out, next) /\ Fitting(c, out)
<1>0. ProxyType
  BY DEF LeaseInv
<1>1. /\ << >> \in Seq(Unit) /\ << >> \in Seq(Seq(Unit)) /\ <<ErrorPart>> \in Seq(Seq(Unit))
      /\ \A s \in Shards : ex[c][s].got \in Seq(Unit)
  <2>1. << >> \in Seq(Unit) /\ << >> \in Seq(Seq(Unit))
    OBVIOUS
  <2> QED
    BY <1>0, <2>1, ExFields DEF ErrorPart
<1> DEFINE got == ex[c][1].got
<1>2. <<got>> \in Seq(Seq(Unit))
  BY <1>1, ProxyAssumption
<1>3. prog # "scatter_gather" =>
        Fitting(c, <<got>>) /\ Fitting(c, <<ErrorPart>>) /\ Fitting(c, << >>)
  BY ProxyAssumption DEF Fitting, ErrorPart
<1>4. prog # "scatter_gather" => Pools = {1}
  BY DEF Pools
<1> HIDE DEF got
<1>5. CASE AnswerHttp(c)
  <2>1. PICK next \in {"read", "done"} : Answered(c, <<got>>, next)
    BY <1>5 DEF AnswerHttp, got
  <2>2. /\ prog = "http_proxy" /\ cl[c].at = "wait" /\ ex[c][1].at = "replied"
        /\ prog' = prog /\ up' = up /\ fan' = fan
    BY <1>5 DEF AnswerHttp
  <2>3. \A s \in Shards : ex[c][s].conn = 0
    BY <1>4, <2>2, OverFacts DEF Over
  <2>4. Concluded(c, <<got>>, next)
    BY <1>0, <1>2, <2>1, <2>2, <2>3, AnsweredMoves
  <2> QED
    BY <1>3, <2>2, <2>4
<1>6. CASE BadGateway(c)
  <2>1. /\ prog = "http_proxy" /\ cl[c].at = "wait" /\ ex[c][1].at \in {"failed", "no_upstream"}
        /\ Answered(c, <<ErrorPart>>, "done") /\ prog' = prog /\ fan' = fan
        /\ up' = IF ex[c][1].conn = 0 THEN up
                 ELSE [up EXCEPT ![1][ex[c][1].conn] = Returned(@)]
    BY <1>6 DEF BadGateway
  <2>2. CASE ex[c][1].conn = 0
    <3>1. ASSUME NEW s \in Shards PROVE ex[c][s].conn = 0
      <4>1. CASE s = 1
        BY <2>2, <4>1
      <4>2. CASE s # 1
        BY <1>4, <2>1, <4>2 DEF LeaseInv, PhaseInv, NoExchange
      <4> QED
        BY <4>1, <4>2
    <3>2. Concluded(c, <<ErrorPart>>, "done")
      BY <1>0, <1>1, <2>1, <2>2, <3>1, AnsweredMoves
    <3> QED
      BY <1>3, <2>1, <3>2
  <2>3. CASE ex[c][1].conn # 0
    <3>1. up' = SetUp(1, ex[c][1].conn, Returned(Lent(c, 1)))
      BY <2>1, <2>3 DEF SetUp, Lent
    <3>2. ex[c][1].at = "failed"
      BY <2>1, <2>3, ProxyAssumption DEF LeaseInv, HoldInv
    <3>3. Concluded(c, <<ErrorPart>>, "done")
      BY <1>0, <1>1, <2>1, <2>3, <3>1, <3>2, AnsweredMoves
    <3> QED
      BY <1>3, <2>1, <3>3
  <2> QED
    BY <2>2, <2>3
<1>7. CASE AnswerTcp(c)
  <2>1. /\ prog = "tcp_pool" /\ cl[c].at = "wait" /\ Over(c, 1)
        /\ prog' = prog /\ up' = up /\ fan' = fan
    BY <1>7 DEF AnswerTcp
  <2>2. \A s \in Shards : ex[c][s].conn = 0
    BY <1>4, <2>1, OverFacts
  <2>3. PICK out \in {<<got>>, << >>}, next \in {"read", "done"} : Answered(c, out, next)
    BY <1>7 DEF AnswerTcp, got
  <2>4. Concluded(c, out, next)
    BY <1>0, <1>1, <1>2, <2>1, <2>2, <2>3, AnsweredMoves
  <2> QED
    BY <1>3, <2>1, <2>3, <2>4
<1>8. CASE Gather(c)
  <2> DEFINE out == [s \in Shards |-> IF ex[c][s].at = "replied" THEN ex[c][s].got ELSE ErrorPart]
  <2>1. PICK next \in {"read", "done"} : Answered(c, out, next)
    BY <1>8 DEF Gather
  <2>2. /\ prog = "scatter_gather" /\ cl[c].at = "wait" /\ \A s \in Shards : Over(c, s)
        /\ prog' = prog /\ up' = up /\ fan' = fan
    BY <1>8 DEF Gather
  <2>3. \A s \in Shards : ex[c][s].conn = 0
    <3>1. Pools = Shards
      BY <2>2 DEF Pools
    <3> QED
      BY <2>2, <3>1, OverFacts
  <2>4. out \in [Shards -> Seq(Unit)] /\ Fitting(c, out)
    BY <1>1 DEF Fitting, ErrorPart
  <2> HIDE DEF out
  <2>5. Concluded(c, out, next)
    BY <1>0, <2>1, <2>2, <2>3, <2>4, AnsweredMoves
  <2> QED
    BY <2>4, <2>5
<1>9. CASE RoundTripOver(c)
  <2>1. /\ prog = "fanout_requests" /\ cl[c].at = "wait" /\ Over(c, 1)
        /\ prog' = prog /\ up' = up /\ fan' = fan
    BY <1>9 DEF RoundTripOver
  <2>2. \A s \in Shards : ex[c][s].conn = 0
    BY <1>4, <2>1, OverFacts
  <2>3. PICK next \in {"read", "done"} : Answered(c, <<got>>, next)
    BY <1>9 DEF RoundTripOver, got
  <2>4. Concluded(c, <<got>>, next)
    BY <1>0, <1>2, <2>1, <2>2, <2>3, AnsweredMoves
  <2> QED
    BY <1>3, <2>1, <2>4
<1> QED
  BY <1>5, <1>6, <1>7, <1>8, <1>9 DEF Answer

-----------------------------------------------------------------------------
(* The leases: theorems. *)

LEMMA LeaseInit == Init => LeaseInv
<1> SUFFICES ASSUME Init PROVE LeaseInv
  OBVIOUS
<1>1. ProxyType
  <2>1. prog \in {"http_proxy", "scatter_gather", "tcp_pool", "fanout_requests"}
    BY ProxyAssumption DEF Init
  <2>2. << >> \in Seq(Seq(Unit))
    OBVIOUS
  <2>3. [at |-> "read", n |-> 0, req |-> Msgless, out |-> << >>] \in ClientType
    BY <2>2, MessageTypes DEF ClientType
  <2>4. cl \in [Clients -> ClientType]
    BY <2>3 DEF Init
  <2>5. ex \in [Clients -> [Shards -> ExchangeType]]
    BY BlankTypes DEF Init
  <2>6. up \in [Shards -> [Conns -> UpstreamType]]
    BY BlankTypes DEF Init
  <2> QED
    BY <2>1, <2>4, <2>5, <2>6 DEF ProxyType, Init, FanOut
<1>2. /\ \A c \in Clients, s \in Shards :
           ex[c][s] = NoExchange /\ ex[c][s].conn = 0 /\ ex[c][s].at = "none"
      /\ \A s \in Shards, k \in Conns : up[s][k] = Upstream("closed")
  BY DEF Init, NoExchange
<1>3. PhaseInv /\ HoldInv
  BY <1>2 DEF PhaseInv, HoldInv
<1>4. HealthInv
  BY <1>2 DEF HealthInv, Upstream
<1>5. InflightExact
  <2>1. Leased = {}
    BY <1>2, ProxyAssumption DEF Leased, Upstream
  <2>2. Cardinality(Leased) = 0
    BY <2>1, FS_EmptySet
  <2> QED
    BY <2>2, ProxyAssumption DEF InflightExact, Leased, Init, FanOut
<1> QED
  BY <1>1, <1>3, <1>4, <1>5 DEF LeaseInv

LEMMA ExchangeLeaseInv ==
  ASSUME LeaseInv, NEW c \in Clients, NEW s \in Shards, Exchange(c, s)
  PROVE  LeaseInv'
<1>0. ProxyType /\ HoldInv
  BY DEF LeaseInv
<1>1. Busy(c, s) /\ prog # "fanout_requests" => (Lent(c, s).failed => ~Lent(c, s).healthy)
  BY <1>0, BusyFacts DEF LeaseInv, HealthInv, Lent
<1>2. CASE Lease(c, s)
  BY <1>0, <1>2, LeaseMoves, TookLeaseInv
<1>3. CASE GetFails(c, s)
  BY <1>0, <1>3, GetFailsMoves, DeniedLeaseInv
<1>4. CASE WriteRequest(c, s)
  <2>1. Used(c, s, "recv", Asked(c, s))
    BY <1>0, <1>4, WriteMoves
  <2>2. /\ Busy(c, s) /\ Asked(c, s).healthy = Lent(c, s).healthy
        /\ Asked(c, s).failed = Lent(c, s).failed
    BY <2>1 DEF Used
  <2> QED
    BY <1>1, <2>1, <2>2, UsedLeaseInv
<1>5. CASE read_more(c, s)
  <2>1. PICK n \in 1 .. Len(Lent(c, s).wire) : Used(c, s, "recv", Filled(Lent(c, s), n))
    BY <1>0, <1>5, ReadMoves
  <2>2. /\ Busy(c, s) /\ Filled(Lent(c, s), n).healthy = Lent(c, s).healthy
        /\ Filled(Lent(c, s), n).failed = Lent(c, s).failed
    BY <2>1 DEF Used
  <2> QED
    BY <1>1, <2>1, <2>2, UsedLeaseInv
<1>6. CASE TakeReply(c, s)
  BY <1>6, TakeMoves, SettledLeaseInv
<1>7. CASE ForwardReply(c, s)
  BY <1>7, ForwardMoves, SettledLeaseInv
<1>8. CASE ExchangeFails(c, s) \/ RoundTripFails(c, s)
  BY <1>8, FailMoves, SettledLeaseInv
<1>9. CASE UpstreamError(c, s)
  <2> DEFINE u == Marked(Lent(c, s))
  <2>1. Used(c, s, "failed", u)
    BY <1>0, <1>9, ErrorMoves
  <2>2. ~u.healthy
    BY <2>1 DEF Used
  <2> HIDE DEF u
  <2> QED
    BY <2>1, <2>2, UsedLeaseInv
<1> QED
  BY <1>2, <1>3, <1>4, <1>5, <1>6, <1>7, <1>8, <1>9 DEF Exchange

LEMMA LeaseStep == LeaseInv /\ [Next]_vars => LeaseInv'
<1> SUFFICES ASSUME LeaseInv, [Next]_vars PROVE LeaseInv'
  OBVIOUS
<1>0. ProxyType
  BY DEF LeaseInv
<1>1. ASSUME NEW c \in Clients, Arrival(c) PROVE LeaseInv'
  BY <1>0, <1>1, ArrivalMoves, BeganLeaseInv, LeftLeaseInv
<1>2. ASSUME NEW c \in Clients, Answer(c) PROVE LeaseInv'
  BY <1>2, AnswerMoves, ConcludedLeaseInv
<1>3. ASSUME NEW c \in Clients, NEW s \in Shards, Exchange(c, s) PROVE LeaseInv'
  BY <1>3, ExchangeLeaseInv
<1>4. ASSUME NEW s \in Shards, NEW k \in Conns, Reply(s, k) PROVE LeaseInv'
  BY <1>0, <1>4, ReplyMoves, TouchedLeaseInv
<1>5. ASSUME NEW s \in Shards, NEW k \in Conns, Hangup(s, k) PROVE LeaseInv'
  BY <1>0, <1>5, HangupMoves, TouchedLeaseInv
<1>6. ASSUME NEW s \in Shards, NEW k \in Conns, Expire(s, k) PROVE LeaseInv'
  BY <1>0, <1>6, ExpireMoves, ExpiredLeaseInv
<1>7. CASE UNCHANGED vars
  BY <1>7 DEF vars, LeaseInv, ProxyType, PhaseInv, HoldInv, HealthInv, InflightExact, Pools
<1> QED
  BY <1>1, <1>2, <1>3, <1>4, <1>5, <1>6, <1>7 DEF Next

LEMMA LeaseAlways == Spec => []LeaseInv
  BY LeaseInit, LeaseStep, PTL DEF Spec

\* Wherever an exchange fails in http_proxy, scatter_gather or tcp_pool, the
\* upstream it failed on is closed when its lease is dropped, never pooled.
THEOREM FailedAreDropped == Spec => []FailedNotReused
<1>1. LeaseInv => FailedNotReused
  BY DEF LeaseInv, HealthInv, FailedNotReused
<1> QED
  BY <1>1, LeaseAlways, PTL

\* fanout_requests' inflight counter is the number of leased upstreams after
\* every path out of a round trip, and its peak stays within CAPACITY.
THEOREM InflightCounts == Spec => []InflightExact
<1>1. LeaseInv => InflightExact
  BY DEF LeaseInv
<1> QED
  BY <1>1, LeaseAlways, PTL

-----------------------------------------------------------------------------
(* http_proxy's check for leftover bytes. *)

LEMMA RetiredBySet ==
  ASSUME ProxyType, LeftoversRetired, prog' = prog, NEW s \in Shards, NEW k \in Conns, NEW u,
         up' = SetUp(s, k, u), prog = "http_proxy" /\ u.place = "idle" => u.buf = << >>
  PROVE  LeftoversRetired'
<1>1. /\ up'[s][k] = u
      /\ \A t \in Shards, j \in Conns : t # s \/ j # k => up'[t][j] = up[t][j]
  BY SetUpFacts
<1> QED
  BY <1>1 DEF LeftoversRetired

LEMMA RetiredByExchange ==
  ASSUME LeaseInv, LeftoversRetired, NEW c \in Clients, NEW s \in Shards, Exchange(c, s)
  PROVE  LeftoversRetired'
<1>0. ProxyType /\ HoldInv
  BY DEF LeaseInv
<1>1. ASSUME NEW at, NEW u, Used(c, s, at, u) PROVE LeftoversRetired'
  <2>1. ex[c][s].conn \in Conns
    BY <1>0, <1>1, BusyFacts DEF Used
  <2> QED
    BY <1>0, <1>1, <2>1, RetiredBySet DEF Used
<1>2. CASE Lease(c, s)
  <2>1. PICK k \in Conns : Took(c, s, k)
    BY <1>0, <1>2, LeaseMoves
  <2>2. Fresh(up[s][k]).place # "idle"
    BY <1>0, UpFields, FreshFacts
  <2> QED
    BY <1>0, <2>1, <2>2, RetiredBySet DEF Took
<1>3. CASE GetFails(c, s)
  BY <1>3 DEF GetFails, LeftoversRetired
<1>4. CASE WriteRequest(c, s)
  BY <1>0, <1>1, <1>4, WriteMoves
<1>5. CASE read_more(c, s)
  BY <1>0, <1>1, <1>5, ReadMoves
<1>6. CASE TakeReply(c, s) \/ ExchangeFails(c, s) \/ RoundTripFails(c, s)
  BY <1>6 DEF TakeReply, ExchangeFails, RoundTripFails, LeftoversRetired
<1>7. CASE ForwardReply(c, s)
  <2> DEFINE u == Kept(Lent(c, s))
  <2>1. Settled(c, s, "replied", u, TakenFrom(Lent(c, s)))
    BY <1>7, ForwardMoves
  <2>2. u \in UpstreamType /\ ex[c][s].conn \in Conns
    BY <1>0, <2>1, BusyFacts DEF Settled
  <2>3. u.healthy => u.buf = << >>
    <3>1. Lent(c, s) \in UpstreamType
      BY <1>0, <2>1, BusyFacts DEF Settled
    <3>2. PICK d : d = Drained(Lent(c, s))
      OBVIOUS
    <3>3. DOMAIN d = DOMAIN Lent(c, s) /\ "buf" \in DOMAIN d /\ "healthy" \in DOMAIN d
      BY <3>1, <3>2 DEF Drained, UpstreamType
    <3>4. u = [d EXCEPT !.healthy = (d.buf = << >>)]
      BY <3>2 DEF Kept
    <3> QED
      BY <3>3, <3>4
  <2> HIDE DEF u
  <2>4. prog = "http_proxy" /\ Returned(u).place = "idle" => Returned(u).buf = << >>
    BY <1>0, <2>2, <2>3, ReturnedFacts DEF Upstream
  <2> QED
    BY <1>0, <2>1, <2>2, <2>4, RetiredBySet DEF Settled
<1>8. CASE UpstreamError(c, s)
  BY <1>0, <1>1, <1>8, ErrorMoves
<1> QED
  BY <1>2, <1>3, <1>4, <1>5, <1>6, <1>7, <1>8 DEF Exchange

LEMMA RetiredStep == LeaseInv /\ LeftoversRetired /\ [Next]_vars => LeftoversRetired'
<1> SUFFICES ASSUME LeaseInv, LeftoversRetired, [Next]_vars PROVE LeftoversRetired'
  OBVIOUS
<1>0. ProxyType /\ HoldInv /\ HealthInv
  BY DEF LeaseInv
<1>1. ASSUME NEW c \in Clients, Arrival(c) PROVE LeftoversRetired'
  BY <1>1 DEF Arrival, ReadRequest, Scatter, ReadBytes, Claim, ClientCloses, LeftoversRetired
<1>2. ASSUME NEW c \in Clients, Answer(c) PROVE LeftoversRetired'
  <2>1. PICK out, next : Concluded(c, out, next)
    BY <1>2, AnswerMoves
  <2>2. CASE up' = up
    BY <2>1, <2>2 DEF Concluded, LeftoversRetired
  <2>3. CASE up' # up
    <3>1. /\ prog' = prog /\ prog = "http_proxy" /\ ex[c][1].at = "failed" /\ ex[c][1].conn # 0
          /\ up' = SetUp(1, ex[c][1].conn, Returned(Lent(c, 1))) /\ 1 \in Shards
      BY <2>1, <2>3, ProxyAssumption DEF Concluded
    <3>2. ex[c][1].conn \in Conns
      BY <1>0, <3>1, ExFields
    <3>3. ~Lent(c, 1).healthy /\ Lent(c, 1) \in UpstreamType
      BY <1>0, <3>1, <3>2, UpFields DEF HealthInv, Lent
    <3>4. Returned(Lent(c, 1)).place = "closed"
      BY <1>0, <3>1, <3>3, ReturnedFacts DEF Upstream
    <3> QED
      BY <1>0, <3>1, <3>2, <3>4, RetiredBySet
  <2> QED
    BY <2>2, <2>3
<1>3. ASSUME NEW c \in Clients, NEW s \in Shards, Exchange(c, s) PROVE LeftoversRetired'
  BY <1>3, RetiredByExchange
<1>4. ASSUME NEW s \in Shards, NEW k \in Conns, Reply(s, k) \/ Hangup(s, k)
      PROVE  LeftoversRetired'
  <2>1. up[s][k] \in UpstreamType
    BY <1>0, UpFields
  <2>2. ASSUME NEW u, Touched(s, k, u), u.buf = up[s][k].buf PROVE LeftoversRetired'
    BY <1>0, <2>2, RetiredBySet DEF Touched, LeftoversRetired
  <2>3. \A reply : Answering(up[s][k], reply).buf = up[s][k].buf
    BY <2>1 DEF Answering, UpstreamType
  <2>4. \A cut : Gone(up[s][k], cut).buf = up[s][k].buf
    BY <2>1 DEF Gone, UpstreamType
  <2>5. CASE Reply(s, k)
    BY <1>0, <2>2, <2>3, <2>5, ReplyMoves
  <2>6. CASE Hangup(s, k)
    BY <1>0, <2>2, <2>4, <2>6, HangupMoves
  <2> QED
    BY <1>4, <2>5, <2>6
<1>5. ASSUME NEW s \in Shards, NEW k \in Conns, Expire(s, k) PROVE LeftoversRetired'
  <2>1. up' = SetUp(s, k, Upstream("closed")) /\ prog' = prog
    BY <1>0, <1>5, ExpireMoves DEF Expired
  <2>2. Upstream("closed").place = "closed"
    BY DEF Upstream
  <2> QED
    BY <1>0, <2>1, <2>2, RetiredBySet
<1>6. CASE UNCHANGED vars
  BY <1>6 DEF vars, LeftoversRetired
<1> QED
  BY <1>1, <1>2, <1>3, <1>4, <1>5, <1>6 DEF Next

\* http_proxy.rs:289: whatever origins send, conformant or not, no upstream waits in
\* the pool with bytes of its last exchange in its buffer.
THEOREM LeftoversAreRetired == Spec => []LeftoversRetired
<1>1. Init => LeftoversRetired
  BY DEF Init, Upstream, LeftoversRetired
<1> QED
  BY <1>1, LeaseAlways, RetiredStep, PTL DEF Spec

-----------------------------------------------------------------------------
(* What a stream carries. *)

LEMMA FormsConform ==
  ASSUME Conformant, ProxyType, NEW reply \in ReplyForms
  PROVE  /\ reply \in HttpMessage /\ reply.body \in Nat /\ reply.status # "1xx"
         /\ prog = "http_proxy" => body_length(reply, "response") \in {Refused, reply.body}
         /\ prog # "http_proxy" => reply.body = 1
<1>1. reply \in HttpMessage /\ reply.body \in Nat
  BY MessageTypes, UnitsType
<1>2. CASE prog = "http_proxy"
  BY <1>1, <1>2 DEF ReplyForms, Conformant
<1>3. CASE prog # "http_proxy"
  <2>1. reply \in {ShardReply, EchoReply}
    BY <1>3 DEF ReplyForms
  <2> QED
    BY <1>1, <1>3, <2>1 DEF ShardReply, EchoReply, EchoSize
<1> QED
  BY <1>2, <1>3

\* The request is written.
LEMMA AskedServes ==
  ASSUME ProxyType, NEW c \in Clients, NEW s \in Shards, Lent(c, s) \in UpstreamType,
         Blank(Lent(c, s)),
         OriginReads(c, s, cl[c].req) = <<[of |-> Own(c, s), interim |-> FALSE]>>
  PROVE  Serving(Asked(c, s), Own(c, s))
<1> DEFINE u == Lent(c, s)
           q == [of |-> Own(c, s), interim |-> FALSE]
<1>1. u.pending = << >> /\ u.buf = << >> /\ u.wire = << >>
  BY DEF Blank
<1>2. << >> \o <<q>> = <<q>>
  OBVIOUS
<1> HIDE DEF q
<1>3. CASE u.open
  <2>1. Asked(c, s) = [u EXCEPT !.pending = <<q>>]
    BY <1>1, <1>2, <1>3 DEF Asked, q
  <2> HIDE DEF u
  <2>2. /\ Asked(c, s).open /\ Asked(c, s).pending = <<q>>
        /\ Asked(c, s).buf = << >> /\ Asked(c, s).wire = << >>
    BY <1>1, <1>3, <2>1 DEF UpstreamType, u
  <2> QED
    BY <2>2 DEF Serving, q
<1>4. CASE ~u.open
  <2>1. Asked(c, s) = [u EXCEPT !.pending = << >>]
    BY <1>1, <1>4 DEF Asked
  <2> HIDE DEF u
  <2>2. ~Asked(c, s).open /\ Blank(Asked(c, s))
    BY <1>1, <1>4, <2>1 DEF UpstreamType, Blank, u
  <2> QED
    BY <2>2 DEF Serving
<1> QED
  BY <1>3, <1>4

\* Bytes move from the wire to the buffer.
LEMMA FilledServes ==
  ASSUME ProxyType, NEW u \in UpstreamType, NEW r, Serving(u, r), NEW n \in 1 .. Len(u.wire)
  PROVE  Serving(Filled(u, n), r)
<1>1. u.buf \in Seq(Unit) /\ u.wire \in Seq(Unit)
  BY DEF UpstreamType
<1>2. u.wire # << >> /\ n \in Nat /\ n <= Len(u.wire) /\ Len(u.wire) \in Nat
  BY <1>1
<1>3. u.pending = << >> /\ \E reply \in ReplyForms : Carries(u, r, reply)
  BY <1>2 DEF Serving, Blank
<1>4. PICK reply \in ReplyForms : Carries(u, r, reply)
  BY <1>3
<1> DEFINE v == Filled(u, n)
           a == SubSeq(u.wire, 1, n)
           b == SubSeq(u.wire, n + 1, Len(u.wire))
<1>5. /\ a \in Seq(Unit) /\ b \in Seq(Unit) /\ Len(a) = n /\ Len(b) = Len(u.wire) - n
      /\ \A i \in 1 .. n : a[i] = u.wire[i]
      /\ \A i \in 1 .. Len(u.wire) - n : b[i] = u.wire[n + i]
  BY <1>1, <1>2
<1> HIDE DEF a, b
<1>6. v.buf = u.buf \o a /\ v.wire = b /\ v.pending = u.pending /\ v.open = u.open
  BY DEF Filled, UpstreamType, a, b
<1> HIDE DEF v
<1>7. /\ v.buf \in Seq(Unit) /\ Len(v.buf) = Len(u.buf) + n
      /\ \A i \in 1 .. Len(u.buf) : v.buf[i] = u.buf[i]
      /\ \A i \in Len(u.buf) + 1 .. Len(u.buf) + n : v.buf[i] = a[i - Len(u.buf)]
  <2> DEFINE w == u.buf \o a
  <2>1. Len(u.buf) \in Nat /\ Len(a) = n
    BY <1>1, <1>5
  <2>2. /\ w \in Seq(Unit) /\ Len(w) = Len(u.buf) + Len(a)
        /\ \A i \in 1 .. Len(u.buf) + Len(a) :
             w[i] = IF i <= Len(u.buf) THEN u.buf[i] ELSE a[i - Len(u.buf)]
    BY <1>1, <1>5, ConcatProperties
  <2>3. v.buf = w
    BY <1>6
  <2> HIDE DEF w
  <2> QED
    BY <1>2, <2>1, <2>2, <2>3
<1>8. Len(u.buf) \in Nat /\ reply.body \in Nat
  <2>1. reply.body \in Nat
    BY MessageTypes, UnitsType
  <2> QED
    BY <1>1, <2>1
<1>9. ASSUME NEW i \in DOMAIN v.buf PROVE v.buf[i] = UnitAt(r, reply, i)
  <2>1. i \in 1 .. Len(u.buf) + n
    BY <1>7
  <2>2. CASE i <= Len(u.buf)
    <3>1. i \in DOMAIN u.buf /\ v.buf[i] = u.buf[i]
      BY <1>1, <1>7, <1>8, <2>1, <2>2
    <3> QED
      BY <1>4, <3>1 DEF Carries
  <2>3. CASE ~(i <= Len(u.buf))
    <3> DEFINE j == i - Len(u.buf)
    <3>1. j \in 1 .. n /\ j \in DOMAIN u.wire /\ Len(u.buf) + j = i
      BY <1>1, <1>2, <1>8, <2>1, <2>3
    <3>2. v.buf[i] = u.wire[j]
      <4>1. i \in Len(u.buf) + 1 .. Len(u.buf) + n
        BY <1>8, <2>1, <2>3
      <4>2. v.buf[i] = a[j]
        BY <1>7, <4>1
      <4> QED
        BY <1>5, <3>1, <4>2
    <3> QED
      BY <1>4, <3>1, <3>2 DEF Carries
  <2> QED
    BY <2>2, <2>3
<1>10. ASSUME NEW i \in DOMAIN v.wire PROVE v.wire[i] = UnitAt(r, reply, Len(v.buf) + i)
  <2>1. i \in 1 .. Len(u.wire) - n
    BY <1>5, <1>6
  <2>2. /\ n + i \in DOMAIN u.wire /\ v.wire[i] = u.wire[n + i]
        /\ Len(u.buf) + (n + i) = Len(v.buf) + i
    <3>1. n + i \in 1 .. Len(u.wire) /\ Len(u.buf) + (n + i) = Len(u.buf) + n + i
      BY <1>2, <1>8, <2>1
    <3>2. DOMAIN u.wire = 1 .. Len(u.wire) /\ Len(v.buf) = Len(u.buf) + n
      BY <1>1, <1>7
    <3>3. v.wire[i] = u.wire[n + i]
      BY <1>5, <1>6, <2>1
    <3> QED
      BY <3>1, <3>2, <3>3
  <2>3. u.wire[n + i] = UnitAt(r, reply, Len(u.buf) + (n + i))
    BY <1>4, <2>2 DEF Carries
  <2> QED
    BY <2>2, <2>3
<1>11. Len(v.buf) + Len(v.wire) = Len(u.buf) + Len(u.wire)
  <2>1. Len(v.buf) = Len(u.buf) + n /\ Len(v.wire) = Len(u.wire) - n
    BY <1>5, <1>6, <1>7
  <2>2. \A x, y, z \in Nat : (x + z) + (y - z) = x + y
    OBVIOUS
  <2>3. (Len(u.buf) + n) + (Len(u.wire) - n) = Len(u.buf) + Len(u.wire)
    BY <1>2, <1>8, <2>2
  <2> QED
    BY <2>1, <2>3
<1>12. Carries(v, r, reply)
  BY <1>4, <1>6, <1>9, <1>10, <1>11 DEF Carries
<1> QED
  BY <1>3, <1>6, <1>12 DEF Serving, v

\* The backend answers, or goes.
LEMMA AnsweringServes ==
  ASSUME Conformant, ProxyType, NEW u \in UpstreamType, NEW r \in Requester, Serving(u, r),
         u.open, u.pending # << >>, NEW reply \in ReplyForms
  PROVE  Serving(Answering(u, reply), r)
<1> DEFINE q == [of |-> r, interim |-> FALSE]
           v == Answering(u, reply)
<1>1. u.pending = <<q>> /\ u.buf = << >> /\ u.wire = << >>
  BY DEF Serving, Blank
<1>2. q.of = r /\ <<q>>[1] = q /\ Tail(<<q>>) = << >>
  OBVIOUS
<1> HIDE DEF q
<1>3. reply \in HttpMessage /\ reply.body \in Nat /\ reply.status # "1xx"
  BY FormsConform
<1>4. Units(r, reply) \in Seq(Unit) /\ << >> \o Units(r, reply) = Units(r, reply)
  <2>1. Units(r, reply) \in Seq(Unit)
    BY <1>3, UnitsType
  <2> QED
    BY <2>1
<1>5. v.buf = << >> /\ v.pending = << >> /\ v.wire = Units(r, reply) /\ v.open
  BY <1>1, <1>2, <1>3, <1>4 DEF Answering, UpstreamType
<1> HIDE DEF v
<1>6. /\ Len(Units(r, reply)) = 1 + reply.body
      /\ \A i \in 1 .. 1 + reply.body : Units(r, reply)[i] = UnitAt(r, reply, i)
      /\ DOMAIN Units(r, reply) = 1 .. 1 + reply.body
  <2>1. DOMAIN Units(r, reply) = 1 .. Len(Units(r, reply))
    BY <1>4
  <2> QED
    BY <2>1, <1>3, UnitsType
<1>7. Carries(v, r, reply)
  <2>1. Len(v.buf) = 0 /\ DOMAIN v.buf = {}
    BY <1>5
  <2>2. ASSUME NEW i \in DOMAIN v.wire PROVE v.wire[i] = UnitAt(r, reply, Len(v.buf) + i)
    <3>1. i \in 1 .. 1 + reply.body /\ Len(v.buf) + i = i
      BY <1>3, <1>5, <1>6, <2>1
    <3> QED
      BY <1>5, <1>6, <3>1
  <2>3. Len(v.buf) + Len(v.wire) = 1 + reply.body
    BY <1>3, <1>5, <1>6, <2>1
  <2> QED
    BY <1>3, <2>1, <2>2, <2>3 DEF Carries
<1> QED
  BY <1>5, <1>7 DEF Serving, v

LEMMA GoneServes ==
  ASSUME ProxyType, NEW u \in UpstreamType, NEW r \in Requester, Serving(u, r), u.open
  PROVE  /\ Serving(Gone(u, << >>), r)
         /\ u.pending # << >> => \A reply \in ReplyForms : reply.body > 0 =>
              Serving(Gone(u, SubSeq(Units(u.pending[1].of, reply), 1, 1)), r)
<1>0. u.wire \in Seq(Unit) /\ u.buf \in Seq(Unit)
  BY DEF UpstreamType
<1>1. Serving(Gone(u, << >>), r)
  <2> DEFINE v == Gone(u, << >>)
  <2>1. u.wire \o << >> = u.wire
    BY <1>0
  <2>2. ~v.open /\ v.pending = << >> /\ v.buf = u.buf /\ v.wire = u.wire
    BY <2>1 DEF Gone, UpstreamType
  <2> HIDE DEF v
  <2>3. CASE u.buf = << >> /\ u.wire = << >>
    BY <2>2, <2>3 DEF Serving, Blank, v
  <2>4. CASE \E reply \in ReplyForms : Carries(u, r, reply)
    <3>1. PICK reply \in ReplyForms : Carries(u, r, reply)
      BY <2>4
    <3>2. Carries(v, r, reply)
      BY <2>2, <3>1 DEF Carries
    <3> QED
      BY <2>2, <3>2 DEF Serving, v
  <2> QED
    BY <2>3, <2>4 DEF Serving, Blank
<1>2. ASSUME u.pending # << >>, NEW reply \in ReplyForms, reply.body > 0
      PROVE  Serving(Gone(u, SubSeq(Units(u.pending[1].of, reply), 1, 1)), r)
  <2> DEFINE q == [of |-> r, interim |-> FALSE]
             us == Units(r, reply)
             v == Gone(u, SubSeq(us, 1, 1))
  <2>1. u.pending = <<q>> /\ u.buf = << >> /\ u.wire = << >>
    BY <1>2 DEF Serving, Blank
  <2>2. u.pending[1].of = r
    BY <2>1
  <2>3. reply \in HttpMessage /\ reply.body \in Nat
    BY MessageTypes, UnitsType
  <2>4. us[1] = UnitAt(r, reply, 1) /\ Len(us) = 1 + reply.body
    BY <2>3, UnitsType
  <2>5. us \in Seq(Unit)
    BY <2>3, UnitsType
  <2> HIDE DEF us
  <2>6. /\ SubSeq(us, 1, 1) \in Seq(Unit)
        /\ Len(SubSeq(us, 1, 1)) = 1 /\ SubSeq(us, 1, 1)[1] = us[1]
    <3>1. 1 <= Len(us)
      BY <2>3, <2>4
    <3> QED
      BY <2>5, <3>1
  <2> DEFINE cut == SubSeq(us, 1, 1)
  <2>a. << >> \o cut = cut
    BY <2>6
  <2>7. ~v.open /\ v.pending = << >> /\ v.buf = << >> /\ v.wire = cut
    BY <2>1, <2>a DEF Gone, UpstreamType
  <2> HIDE DEF v
  <2>8. Carries(v, r, reply)
    <3>1. Len(v.buf) = 0 /\ DOMAIN v.buf = {} /\ Len(v.wire) = 1 /\ DOMAIN v.wire = {1}
      BY <2>6, <2>7
    <3>2. v.wire[1] = UnitAt(r, reply, Len(v.buf) + 1)
      BY <2>4, <2>6, <2>7, <3>1
    <3>3. Len(v.buf) + Len(v.wire) <= 1 + reply.body
      BY <2>3, <3>1
    <3> QED
      BY <2>7, <3>1, <3>2, <3>3 DEF Carries
  <2>9. Serving(v, r)
    BY <2>7, <2>8 DEF Serving
  <2> QED
    BY <2>2, <2>9 DEF v, us
<1> QED
  BY <1>1, <1>2

\* The proxy takes exactly the reply, and leaves nothing of it.
LEMMA MessageServes ==
  ASSUME Conformant, ProxyType, NEW u \in UpstreamType, NEW r, Serving(u, r),
         Reading(u.buf).res = "message"
  PROVE  /\ Blank(Drained(u))
         /\ \A i \in DOMAIN TakenFrom(u) : TakenFrom(u)[i].of = r
<1> DEFINE n == Reading(u.buf).total
<1>1. u.buf \in Seq(Unit) /\ u.wire \in Seq(Unit)
  BY DEF UpstreamType
<1>2. n \in Nat /\ n <= Len(u.buf)
  BY <1>1, ReadingType
<1>3. u.buf # << >>
  <2> SUFFICES ASSUME u.buf = << >> PROVE FALSE
    OBVIOUS
  <2>1. CASE prog = "http_proxy"
    BY <2>1 DEF Reading, read_message
  <2>2. CASE prog = "scatter_gather"
    <3>1. \E i \in DOMAIN u.buf : ~u.buf[i].head
      BY <2>2 DEF Reading, read_line
    <3> QED
      BY <3>1
  <2>3. CASE prog \notin {"http_proxy", "scatter_gather"}
    <3>1. Len(u.buf) = 2
      BY <2>3 DEF Reading, read_exact, EchoSize
    <3> QED
      BY <3>1
  <2> QED
    BY <2>1, <2>2, <2>3
<1>4. u.pending = << >> /\ \E reply \in ReplyForms : Carries(u, r, reply)
  BY <1>3 DEF Serving, Blank
<1>5. PICK reply \in ReplyForms : Carries(u, r, reply)
  BY <1>4
<1>6. /\ reply \in HttpMessage /\ reply.body \in Nat
      /\ prog = "http_proxy" => body_length(reply, "response") \in {Refused, reply.body}
      /\ prog # "http_proxy" => reply.body = 1
  BY FormsConform
<1>7. /\ Len(u.buf) \in Nat /\ Len(u.wire) \in Nat
      /\ Len(u.buf) + Len(u.wire) <= 1 + reply.body
      /\ DOMAIN u.buf = 1 .. Len(u.buf) /\ 1 \in DOMAIN u.buf
      /\ \A i \in DOMAIN u.buf : u.buf[i] = UnitAt(r, reply, i)
  <2>1. Len(u.buf) \in Nat /\ Len(u.wire) \in Nat /\ DOMAIN u.buf = 1 .. Len(u.buf)
    BY <1>1
  <2>2. 1 \in DOMAIN u.buf
    BY <1>1, <1>3
  <2> QED
    BY <1>5, <2>1, <2>2 DEF Carries
<1>a. u.buf[1] = UnitAt(r, reply, 1)
  BY <1>7
<1>8. n = 1 + reply.body
  <2>1. CASE prog = "http_proxy"
    <3>1. u.buf[1].msg = reply
      BY <1>a DEF UnitAt
    <3>2. /\ body_length(u.buf[1].msg, "response") # Refused
          /\ n = 1 + body_length(u.buf[1].msg, "response")
      BY <1>3, <2>1 DEF Reading, read_message
    <3> QED
      BY <1>6, <2>1, <3>1, <3>2
  <2>2. CASE prog = "scatter_gather"
    <3>1. /\ \E i \in DOMAIN u.buf : ~u.buf[i].head
          /\ n = CHOOSE i \in DOMAIN u.buf :
               ~u.buf[i].head /\ \A j \in 1 .. i - 1 : u.buf[j].head
      BY <2>2 DEF Reading, read_line
    <3>2. n \in DOMAIN u.buf /\ ~u.buf[n].head
      BY <1>1, <3>1, FirstNewline
    <3>3. n # 1
      <4>1. u.buf[1].head = (1 = 1)
        BY <1>a DEF UnitAt
      <4>2. u.buf[1].head
        BY <4>1
      <4> HIDE DEF n
      <4> QED
        BY <4>2, <3>2
    <3>4. reply.body = 1
      BY <1>6, <2>2
    <3>5. n >= 1
      BY <1>7, <3>2
    <3>6. \A x, y, z \in Nat : x + y <= 1 + 1 /\ z <= x /\ z >= 1 /\ z # 1 => z = 1 + 1
      OBVIOUS
    <3>7. Len(u.buf) + Len(u.wire) <= 1 + 1
      BY <1>7, <3>4
    <3>8. n = 1 + 1
      BY <1>2, <1>7, <3>3, <3>5, <3>6, <3>7
    <3> QED
      BY <3>4, <3>8
  <2>3. CASE prog \notin {"http_proxy", "scatter_gather"}
    <3>1. n = 2
      BY <2>3 DEF Reading, read_exact, EchoSize
    <3> QED
      BY <1>6, <2>3, <3>1
  <2> QED
    BY <2>1, <2>2, <2>3
<1>9. Len(u.wire) = 0 /\ n = Len(u.buf)
  <2>1. \A x, y, z, m \in Nat : x + y <= 1 + m /\ z = 1 + m /\ z <= x => y = 0 /\ z = x
    OBVIOUS
  <2> HIDE DEF n
  <2> QED
    BY <1>2, <1>6, <1>7, <1>8, <2>1
<1>10. Blank(Drained(u))
  <2>1. /\ Drained(u).wire = u.wire /\ Drained(u).pending = u.pending
        /\ Drained(u).buf = SubSeq(u.buf, n + 1, Len(u.buf))
    BY DrainedFacts
  <2> HIDE DEF n
  <2>2. u.wire = << >>
    BY <1>1, <1>9
  <2>3. SubSeq(u.buf, n + 1, Len(u.buf)) = << >>
    <3>1. n + 1 \in Int /\ Len(u.buf) \in Int /\ Len(u.buf) < n + 1
      BY <1>2, <1>7, <1>9
    <3> QED
      BY <3>1, SubSeqEmpty
  <2> QED
    BY <1>4, <2>1, <2>2, <2>3 DEF Blank
<1>11. ASSUME NEW i \in DOMAIN TakenFrom(u) PROVE TakenFrom(u)[i].of = r
  <2>1. TakenFrom(u) = SubSeq(u.buf, 1, n)
    BY DEF TakenFrom
  <2> HIDE DEF n
  <2>2. i \in 1 .. n /\ TakenFrom(u)[i] = u.buf[i]
    <3>1. \A j \in 1 .. n : u.buf[j] \in Unit
      BY <1>1, <1>2, <1>7
    <3>2. /\ SubSeq(u.buf, 1, n) \in Seq(Unit)
          /\ Len(SubSeq(u.buf, 1, n)) = IF 1 <= n THEN n - 1 + 1 ELSE 0
          /\ \A j \in 1 .. n - 1 + 1 : SubSeq(u.buf, 1, n)[j] = u.buf[1 + j - 1]
      BY <1>2, <3>1, SubSeqProperties
    <3>3. Len(SubSeq(u.buf, 1, n)) = n
      BY <1>2, <3>2
    <3>4. i \in 1 .. n
      BY <2>1, <3>2, <3>3
    <3>5. n - 1 + 1 = n /\ 1 + i - 1 = i
      BY <1>2, <3>4
    <3> QED
      BY <2>1, <3>2, <3>4, <3>5
  <2>3. u.buf[i] = UnitAt(r, reply, i)
    BY <1>2, <1>7, <2>2
  <2> QED
    BY <2>2, <2>3 DEF UnitAt
<1> QED
  BY <1>10, <1>11

\* What body_length accepts is one request to the origin as well: a length
\* beside a chunked encoding, or two of them, would have been refused.
LEMMA AcceptedIsOne ==
  ASSUME Conformant, NEW msg, Accepted(msg)
  PROVE  OneRequest(msg)
<1>1. CASE msg = Msgless
  BY <1>1 DEF Msgless, OneRequest
<1>2. CASE msg \in Requests /\ read_message(Units(<< >>, msg), "request").res # "refused"
  <2> DEFINE us == Units(<< >>, msg)
             n == body_length(msg, "request")
  <2>1. msg \in HttpMessage /\ msg.body \in Nat /\ n \in {Refused, msg.body}
    BY <1>2, ProxyAssumption, UnitsType DEF Conformant
  <2>2. Len(us) = 1 + msg.body /\ us[1] = UnitAt(<< >>, msg, 1)
    BY <2>1, UnitsType
  <2>3. us # << >> /\ us[1].msg = msg
    BY <2>1, <2>2 DEF UnitAt
  <2> HIDE DEF us
  <2>4. n # Refused
    BY <1>2, <2>3 DEF read_message, us
  <2>5. /\ n = msg.body /\ ~Chunked(msg)
        /\ msg.fields # << >> => msg.fields[1].value = n
        /\ msg.fields = << >> => n = 0
    BY <2>1, <2>4, BodyLength
  <2> HIDE DEF n
  <2> QED
    BY <2>1, <2>5 DEF OneRequest
<1> QED
  BY <1>1, <1>2 DEF Accepted

LEMMA OneRequestReads ==
  ASSUME NEW c, NEW s, NEW m, OneRequest(m)
  PROVE  OriginReads(c, s, m) = <<[of |-> Own(c, s), interim |-> FALSE]>>
  BY DEF OneRequest, OriginReads, Own

-----------------------------------------------------------------------------
(* The stream invariant, move by move. *)

LEMMA StreamPrimed ==
  ASSUME prog' = prog,
         \A t \in Shards, j \in Conns : up'[t][j].place # "leased" => Blank(up'[t][j]),
         \A d \in Clients, t \in Shards :
           /\ ex'[d][t].at = "write" => Blank(up'[t][ex'[d][t].conn])
           /\ ex'[d][t].at = "recv" =>
                cl'[d].n = cl[d].n /\ Serving(up'[t][ex'[d][t].conn], Own(d, t))
  PROVE  StreamInv'
<1>1. ReplyForms' = ReplyForms
  BY DEF ReplyForms
<1>2. ASSUME NEW d \in Clients, NEW t \in Shards, ex'[d][t].at = "recv"
      PROVE  Serving(up[t][ex[d][t].conn], Own(d, t))'
  <2>1. Own(d, t)' = Own(d, t) /\ Serving(up'[t][ex'[d][t].conn], Own(d, t))
    BY <1>2 DEF Own
  <2> QED
    BY <1>1, <2>1 DEF Serving, Blank
<1>3. ASSUME NEW d \in Clients, NEW t \in Shards, ex'[d][t].at = "write"
      PROVE  Blank(up[t][ex[d][t].conn])'
  BY <1>3 DEF Blank
<1>4. ASSUME NEW t \in Shards, NEW j \in Conns, up'[t][j].place # "leased"
      PROVE  Blank(up[t][j])'
  BY <1>4 DEF Blank
<1> QED
  BY <1>2, <1>3, <1>4 DEF StreamInv

\* An exchange with an upstream does not touch any other's.
LEMMA HeldStream ==
  ASSUME LeaseInv, StreamInv, NEW c \in Clients, NEW s \in Shards, Busy(c, s),
         NEW e \in ExchangeType, NEW v \in UpstreamType,
         ex' = SetEx(c, s, e), up' = SetUp(s, ex[c][s].conn, v), UNCHANGED <<prog, cl>>,
         v.place # "leased" => Blank(v), e.at # "write",
         e.at = "recv" => e.conn = ex[c][s].conn /\ Serving(v, Own(c, s))
  PROVE  StreamInv'
<1> DEFINE k == ex[c][s].conn
<1>0. ProxyType /\ HoldInv /\ k \in Conns /\ k # 0 /\ prog' = prog /\ cl' = cl
  BY BusyFacts DEF LeaseInv
<1>1. /\ ex'[c][s] = e
      /\ \A d \in Clients, t \in Shards : d # c \/ t # s => ex'[d][t] = ex[d][t]
  BY <1>0, SetExFacts
<1>2. up' = SetUp(s, k, v)
  OBVIOUS
<1> HIDE DEF k
<1>3. /\ up'[s][k] = v
      /\ \A t \in Shards, j \in Conns : t # s \/ j # k => up'[t][j] = up[t][j]
  BY <1>0, <1>2, SetUpFacts
<1>4. ASSUME NEW t \in Shards, NEW j \in Conns, up'[t][j].place # "leased"
      PROVE  Blank(up'[t][j])
  <2>1. CASE t = s /\ j = k
    BY <1>3, <1>4, <2>1
  <2>2. CASE t # s \/ j # k
    BY <1>3, <1>4, <2>2 DEF StreamInv
  <2> QED
    BY <2>1, <2>2
<1>5. ASSUME NEW d \in Clients, NEW t \in Shards
      PROVE  /\ ex'[d][t].at = "write" => Blank(up'[t][ex'[d][t].conn])
             /\ ex'[d][t].at = "recv" => Serving(up'[t][ex'[d][t].conn], Own(d, t))
  <2>1. CASE d = c /\ t = s
    BY <1>1, <1>3, <2>1 DEF k
  <2>2. CASE d # c \/ t # s
    <3> SUFFICES ASSUME ex[d][t].at \in {"write", "recv"}
                 PROVE  up'[t][ex[d][t].conn] = up[t][ex[d][t].conn]
      BY <1>1, <2>2 DEF StreamInv
    <3>1. ex[d][t].conn # 0 /\ ex[d][t].conn \in Conns
      BY <1>0, ExFields DEF HoldInv
    <3>2. t # s \/ ex[d][t].conn # k
      BY <1>0, <2>2, <3>1 DEF HoldInv, k
    <3> QED
      BY <1>3, <3>1, <3>2
  <2> QED
    BY <2>1, <2>2
<1> QED
  BY <1>0, <1>4, <1>5, StreamPrimed

LEMMA TookStream ==
  ASSUME LeaseInv, StreamInv, NEW c \in Clients, NEW s \in Shards, NEW k \in Conns,
         Took(c, s, k)
  PROVE  StreamInv'
<1>0. ProxyType /\ HoldInv
  BY DEF LeaseInv
<1> DEFINE e == [at |-> "write", conn |-> k, got |-> << >>]
           u == Fresh(up[s][k])
<1>1. /\ ex' = SetEx(c, s, e) /\ up' = SetUp(s, k, u)
      /\ up[s][k].place \in {"idle", "closed"} /\ prog' = prog /\ cl' = cl
  BY DEF Took
<1>2. u.place = "leased" /\ Blank(u)
  <2>1. up[s][k] \in UpstreamType
    BY <1>0, UpFields
  <2>2. Blank(up[s][k])
    BY <1>1 DEF StreamInv
  <2>3. CASE up[s][k].place = "idle"
    BY <2>1, <2>2, <2>3, FreshFacts DEF Blank
  <2>4. CASE up[s][k].place # "idle"
    <3>1. u = Upstream("leased")
      BY <2>1, <2>4, FreshFacts
    <3> QED
      BY <3>1 DEF Upstream, Blank
  <2> QED
    BY <2>3, <2>4
<1> HIDE DEF u
<1>3. /\ ex'[c][s] = e
      /\ \A d \in Clients, t \in Shards : d # c \/ t # s => ex'[d][t] = ex[d][t]
  BY <1>0, <1>1, SetExFacts
<1>4. /\ up'[s][k] = u
      /\ \A t \in Shards, j \in Conns : t # s \/ j # k => up'[t][j] = up[t][j]
  BY <1>0, <1>1, SetUpFacts
<1>5. ASSUME NEW t \in Shards, NEW j \in Conns, up'[t][j].place # "leased"
      PROVE  Blank(up'[t][j])
  BY <1>2, <1>4, <1>5 DEF StreamInv
<1>6. ASSUME NEW d \in Clients, NEW t \in Shards
      PROVE  /\ ex'[d][t].at = "write" => Blank(up'[t][ex'[d][t].conn])
             /\ ex'[d][t].at = "recv" => Serving(up'[t][ex'[d][t].conn], Own(d, t))
  <2>1. CASE d = c /\ t = s
    <3>1. ex'[d][t].at = "write" /\ ex'[d][t].conn = k
      BY <1>3, <2>1
    <3> QED
      BY <1>2, <1>4, <2>1, <3>1
  <2>2. CASE d # c \/ t # s
    <3> SUFFICES ASSUME ex[d][t].at \in {"write", "recv"}
                 PROVE  up'[t][ex[d][t].conn] = up[t][ex[d][t].conn]
      BY <1>3, <2>2 DEF StreamInv
    <3>1. ex[d][t].conn \in Conns /\ up[t][ex[d][t].conn].place = "leased"
      BY <1>0, ExFields DEF HoldInv
    <3> QED
      BY <1>1, <1>4, <3>1
  <2> QED
    BY <2>1, <2>2
<1> QED
  BY <1>1, <1>5, <1>6, StreamPrimed

LEMMA DeniedStream ==
  ASSUME LeaseInv, StreamInv, NEW c \in Clients, NEW s \in Shards, Denied(c, s)
  PROVE  StreamInv'
<1>0. ProxyType
  BY DEF LeaseInv
<1>1. /\ ex' = SetEx(c, s, [ex[c][s] EXCEPT !.at = "no_upstream"])
      /\ prog' = prog /\ cl' = cl /\ up' = up
  BY DEF Denied
<1>2. \A d \in Clients, t \in Shards :
        ex'[d][t] = ex[d][t] \/ ex'[d][t].at = "no_upstream"
  <2> DEFINE e == [ex[c][s] EXCEPT !.at = "no_upstream"]
  <2>1. e.at = "no_upstream"
    BY <1>0, ExFields DEF ExchangeType
  <2>2. ex' = SetEx(c, s, e)
    BY <1>1
  <2> HIDE DEF e
  <2>3. /\ ex'[c][s] = e
        /\ \A d \in Clients, t \in Shards : d # c \/ t # s => ex'[d][t] = ex[d][t]
    BY <1>0, <2>2, SetExFacts
  <2> QED
    BY <2>1, <2>3
<1>3. ASSUME NEW d \in Clients, NEW t \in Shards
      PROVE  /\ ex'[d][t].at = "write" => Blank(up'[t][ex'[d][t].conn])
             /\ ex'[d][t].at = "recv" => Serving(up'[t][ex'[d][t].conn], Own(d, t))
  BY <1>1, <1>2 DEF StreamInv
<1>4. ASSUME NEW t \in Shards, NEW j \in Conns, up'[t][j].place # "leased"
      PROVE  Blank(up'[t][j])
  BY <1>1, <1>4 DEF StreamInv
<1> QED
  BY <1>1, <1>3, <1>4, StreamPrimed

\* What the backend does to one upstream, whoever has it.
LEMMA TouchedStream ==
  ASSUME LeaseInv, StreamInv, NEW s \in Shards, NEW k \in Conns, NEW u, Touched(s, k, u),
         Blank(up[s][k]) => Blank(u),
         \A r \in Requester : Serving(up[s][k], r) => Serving(u, r)
  PROVE  StreamInv'
<1>0. ProxyType /\ HoldInv
  BY DEF LeaseInv
<1>1. /\ prog' = prog /\ cl' = cl /\ ex' = ex /\ up' = SetUp(s, k, u)
      /\ u.place = up[s][k].place
  BY DEF Touched
<1>2. /\ up'[s][k] = u
      /\ \A t \in Shards, j \in Conns : t # s \/ j # k => up'[t][j] = up[t][j]
  BY <1>0, <1>1, SetUpFacts
<1>3. ASSUME NEW t \in Shards, NEW j \in Conns, up'[t][j].place # "leased"
      PROVE  Blank(up'[t][j])
  <2>1. CASE t = s /\ j = k
    <3>1. Blank(up[s][k])
      BY <1>1, <1>2, <1>3, <2>1 DEF StreamInv
    <3> QED
      BY <1>2, <2>1, <3>1
  <2>2. CASE t # s \/ j # k
    BY <1>2, <1>3, <2>2 DEF StreamInv
  <2> QED
    BY <2>1, <2>2
<1>4. ASSUME NEW d \in Clients, NEW t \in Shards
      PROVE  /\ ex'[d][t].at = "write" => Blank(up'[t][ex'[d][t].conn])
             /\ ex'[d][t].at = "recv" => Serving(up'[t][ex'[d][t].conn], Own(d, t))
  <2> SUFFICES ASSUME ex[d][t].at \in {"write", "recv"}
               PROVE  /\ ex[d][t].at = "write" => Blank(up'[t][ex[d][t].conn])
                      /\ ex[d][t].at = "recv" => Serving(up'[t][ex[d][t].conn], Own(d, t))
    BY <1>1
  <2>1. ex[d][t].conn \in Conns
    BY <1>0, ExFields DEF HoldInv
  <2>2. Own(d, t) \in Requester
    BY <1>0, ClFields DEF Own, Requester
  <2>3. CASE t = s /\ ex[d][t].conn = k
    BY <1>2, <2>2, <2>3 DEF StreamInv
  <2>4. CASE t # s \/ ex[d][t].conn # k
    BY <1>2, <2>1, <2>4 DEF StreamInv
  <2> QED
    BY <2>3, <2>4
<1> QED
  BY <1>1, <1>3, <1>4, StreamPrimed

LEMMA ExpiredStream ==
  ASSUME LeaseInv, StreamInv, NEW s \in Shards, NEW k \in Conns, Expired(s, k)
  PROVE  StreamInv'
<1>0. ProxyType /\ HoldInv
  BY DEF LeaseInv
<1>1. /\ prog' = prog /\ cl' = cl /\ ex' = ex /\ up' = SetUp(s, k, Upstream("closed"))
      /\ up[s][k].place = "idle"
  BY DEF Expired
<1>2. /\ up'[s][k] = Upstream("closed")
      /\ \A t \in Shards, j \in Conns : t # s \/ j # k => up'[t][j] = up[t][j]
  BY <1>0, <1>1, SetUpFacts
<1>3. Blank(Upstream("closed"))
  BY DEF Blank, Upstream
<1>4. ASSUME NEW t \in Shards, NEW j \in Conns, up'[t][j].place # "leased"
      PROVE  Blank(up'[t][j])
  BY <1>2, <1>3, <1>4 DEF StreamInv
<1>5. ASSUME NEW d \in Clients, NEW t \in Shards
      PROVE  /\ ex'[d][t].at = "write" => Blank(up'[t][ex'[d][t].conn])
             /\ ex'[d][t].at = "recv" => Serving(up'[t][ex'[d][t].conn], Own(d, t))
  <2> SUFFICES ASSUME ex[d][t].at \in {"write", "recv"}
               PROVE  up'[t][ex[d][t].conn] = up[t][ex[d][t].conn]
    BY <1>1 DEF StreamInv
  <2>1. ex[d][t].conn \in Conns /\ up[t][ex[d][t].conn].place = "leased"
    BY <1>0, ExFields DEF HoldInv
  <2> QED
    BY <1>1, <1>2, <2>1
<1> QED
  BY <1>1, <1>4, <1>5, StreamPrimed

\* A client comes or goes: it has no upstream afterwards, and what went back was
\* closed.
LEMMA ClientStream ==
  ASSUME LeaseInv, StreamInv, NEW c \in Clients, prog' = prog,
         \A d \in Clients : d # c => ex'[d] = ex[d] /\ cl'[d] = cl[d],
         \A t \in Shards : ex'[c][t].at \notin {"write", "recv"},
         \A t \in Shards, j \in Conns : up'[t][j] = up[t][j] \/ Blank(up'[t][j]),
         \A d \in Clients, t \in Shards :
           d # c /\ ex[d][t].conn # 0 => up'[t][ex[d][t].conn] = up[t][ex[d][t].conn]
  PROVE  StreamInv'
<1>1. ASSUME NEW t \in Shards, NEW j \in Conns, up'[t][j].place # "leased"
      PROVE  Blank(up'[t][j])
  BY <1>1 DEF StreamInv
<1>2. ASSUME NEW d \in Clients, NEW t \in Shards, ex'[d][t].at \in {"write", "recv"}
      PROVE  /\ d # c /\ ex'[d][t] = ex[d][t] /\ cl'[d] = cl[d]
             /\ up'[t][ex[d][t].conn] = up[t][ex[d][t].conn]
  <2>1. d # c /\ ex'[d][t] = ex[d][t] /\ cl'[d] = cl[d]
    BY <1>2
  <2>2. ex[d][t].conn # 0
    BY <1>2, <2>1 DEF LeaseInv, HoldInv
  <2> QED
    BY <2>1, <2>2
<1>3. ASSUME NEW d \in Clients, NEW t \in Shards
      PROVE  /\ ex'[d][t].at = "write" => Blank(up'[t][ex'[d][t].conn])
             /\ ex'[d][t].at = "recv" =>
                  cl'[d].n = cl[d].n /\ Serving(up'[t][ex'[d][t].conn], Own(d, t))
  <2>1. CASE ex'[d][t].at = "write"
    BY <1>2, <2>1 DEF StreamInv
  <2>2. CASE ex'[d][t].at = "recv"
    BY <1>2, <2>2 DEF StreamInv
  <2> QED
    BY <2>1, <2>2
<1> QED
  BY <1>1, <1>3, StreamPrimed

LEMMA BeganStream ==
  ASSUME LeaseInv, StreamInv, NEW c \in Clients, NEW n, NEW msg, Began(c, n, msg)
  PROVE  StreamInv'
<1>0. ProxyType
  BY DEF LeaseInv
<1> DEFINE r == [at |-> "wait", n |-> n, req |-> msg, out |-> << >>]
<1>1. /\ cl' = [cl EXCEPT ![c] = r] /\ ex' = [ex EXCEPT ![c] = Asking]
      /\ prog' = prog /\ up' = up
  BY DEF Began
<1> HIDE DEF r
<1>2. \A d \in Clients : d # c => ex'[d] = ex[d] /\ cl'[d] = cl[d]
  BY <1>0, <1>1 DEF ProxyType
<1>3. \A t \in Shards : ex'[c][t].at \notin {"write", "recv"}
  <2>1. ex'[c] = Asking
    BY <1>0, <1>1 DEF ProxyType
  <2> QED
    BY <2>1 DEF Asking, NoExchange
<1> QED
  BY <1>1, <1>2, <1>3, ClientStream

LEMMA LeftStream ==
  ASSUME LeaseInv, StreamInv, NEW c \in Clients, NEW out, Left(c, out)
  PROVE  StreamInv'
<1>0. ProxyType /\ PhaseInv
  BY DEF LeaseInv
<1> DEFINE r == [cl[c] EXCEPT !.at = "done", !.out = out]
<1>1. /\ cl' = [cl EXCEPT ![c] = r] /\ cl[c].at = "read"
      /\ prog' = prog /\ ex' = ex /\ up' = up
  BY DEF Left
<1> HIDE DEF r
<1>2. \A d \in Clients : d # c => ex'[d] = ex[d] /\ cl'[d] = cl[d]
  BY <1>0, <1>1 DEF ProxyType
<1>3. \A t \in Shards : ex'[c][t].at \notin {"write", "recv"}
  BY <1>0, <1>1 DEF PhaseInv, NoExchange
<1> QED
  BY <1>1, <1>2, <1>3, ClientStream

LEMMA ConcludedStream ==
  ASSUME LeaseInv, StreamInv, NEW c \in Clients, NEW out, NEW next, Concluded(c, out, next)
  PROVE  StreamInv'
<1>0. ProxyType /\ HoldInv /\ HealthInv
  BY DEF LeaseInv
<1> DEFINE r == [cl[c] EXCEPT !.at = next, !.out = out]
           k == ex[c][1].conn
           v == Returned(Lent(c, 1))
           Back == prog = "http_proxy" /\ ex[c][1].at = "failed" /\ k # 0
                     /\ up' = SetUp(1, k, v)
<1>1. /\ cl' = [cl EXCEPT ![c] = r] /\ ex' = [ex EXCEPT ![c] = Idle] /\ prog' = prog
      /\ up' = up \/ Back
  BY DEF Concluded
<1> HIDE DEF r
<1>2. \A d \in Clients : d # c => ex'[d] = ex[d] /\ cl'[d] = cl[d]
  BY <1>0, <1>1 DEF ProxyType
<1>3. \A t \in Shards : ex'[c][t].at \notin {"write", "recv"}
  <2>1. ex'[c] = Idle
    BY <1>0, <1>1 DEF ProxyType
  <2> QED
    BY <2>1 DEF Idle, NoExchange
<1>4. CASE up' = up
  BY <1>1, <1>2, <1>3, <1>4, ClientStream
<1>5. CASE Back
  <2>1. k \in Conns /\ ~up[1][k].healthy /\ 1 \in Shards
    BY <1>0, <1>5, ExFields, ProxyAssumption DEF HealthInv
  <2>2. Lent(c, 1) \in UpstreamType /\ ~Lent(c, 1).healthy
    BY <1>0, <2>1, UpFields DEF Lent
  <2>3. v = Upstream("closed")
    BY <1>0, <1>5, <2>2, ReturnedFacts
  <2>4. up' = SetUp(1, k, Upstream("closed"))
    BY <1>5, <2>3
  <2> HIDE DEF k, v
  <2>5. /\ up'[1][k] = Upstream("closed")
        /\ \A t \in Shards, j \in Conns : t # 1 \/ j # k => up'[t][j] = up[t][j]
    BY <1>0, <2>1, <2>4, SetUpFacts
  <2>6. \A t \in Shards, j \in Conns : up'[t][j] = up[t][j] \/ Blank(up'[t][j])
    BY <2>5 DEF Blank, Upstream
  <2>7. ASSUME NEW d \in Clients, NEW t \in Shards, d # c, ex[d][t].conn # 0
        PROVE  up'[t][ex[d][t].conn] = up[t][ex[d][t].conn]
    <3>1. ex[d][t].conn \in Conns
      BY <1>0, <2>7, ExFields
    <3>2. t # 1 \/ ex[d][t].conn # k
      BY <1>0, <2>1, <2>7 DEF HoldInv, k
    <3> QED
      BY <2>5, <3>1, <3>2
  <2> QED
    BY <1>1, <1>2, <1>3, <2>6, <2>7, ClientStream
<1> QED
  BY <1>1, <1>4, <1>5

\* The exchange goes on: the upstream it leaves is leased, and serves it still.
LEMMA UsedStream ==
  ASSUME LeaseInv, StreamInv, NEW c \in Clients, NEW s \in Shards, NEW at, NEW u,
         Used(c, s, at, u), at = "recv" => Serving(u, Own(c, s))
  PROVE  StreamInv'
<1> DEFINE e == [ex[c][s] EXCEPT !.at = at]
<1>0. ProxyType /\ at \in {"recv", "failed"} /\ u \in UpstreamType /\ u.place = "leased"
  BY DEF LeaseInv, Used
<1>1. /\ Busy(c, s) /\ ex' = SetEx(c, s, e) /\ up' = SetUp(s, ex[c][s].conn, u)
      /\ UNCHANGED <<prog, cl>>
  BY DEF Used
<1>2. e \in ExchangeType /\ e.at = at /\ e.conn = ex[c][s].conn
  <2>1. ex[c][s] \in ExchangeType
    BY <1>0, ExFields
  <2> QED
    BY <1>0, <2>1 DEF ExchangeType
<1> HIDE DEF e
<1> QED
  BY <1>0, <1>1, <1>2, HeldStream

\* The exchange is over: the upstream it gives back is blank.
LEMMA SettledStream ==
  ASSUME LeaseInv, StreamInv, NEW c \in Clients, NEW s \in Shards, NEW at, NEW u, NEW got,
         Settled(c, s, at, u, got), has_broken(u) \/ Blank(u)
  PROVE  StreamInv'
<1> DEFINE e == [at |-> at, conn |-> 0, got |-> got]
           v == Returned(u)
<1>0. ProxyType /\ at \in {"replied", "failed"} /\ u \in UpstreamType /\ got \in Seq(Unit)
  BY DEF LeaseInv, Settled
<1>1. /\ Busy(c, s) /\ ex' = SetEx(c, s, e) /\ up' = SetUp(s, ex[c][s].conn, v)
      /\ UNCHANGED <<prog, cl>>
  BY DEF Settled
<1>2. e \in ExchangeType /\ e.at = at
  BY <1>0 DEF ExchangeType
<1>3. v \in UpstreamType /\ Blank(v)
  <2>1. CASE has_broken(u)
    <3>1. v \in UpstreamType /\ v = Upstream("closed")
      BY <1>0, <2>1, ReturnedFacts
    <3> QED
      BY <3>1 DEF Upstream, Blank
  <2>2. CASE ~has_broken(u)
    BY <1>0, <2>2, ReturnedFacts DEF Blank
  <2> QED
    BY <2>1, <2>2
<1> HIDE DEF e, v
<1> QED
  BY <1>0, <1>1, <1>2, <1>3, HeldStream

LEMMA WriteStream ==
  ASSUME LeaseInv, StreamInv, AnswerInv, NEW c \in Clients, NEW s \in Shards,
         WriteRequest(c, s)
  PROVE  StreamInv'
<1>0. ProxyType /\ HoldInv /\ PhaseInv
  BY DEF LeaseInv
<1>1. Used(c, s, "recv", Asked(c, s)) /\ ex[c][s].at = "write"
  BY <1>0, WriteMoves
<1>2. Lent(c, s) \in UpstreamType /\ Blank(Lent(c, s))
  BY <1>0, <1>1, BusyFacts DEF Busy, StreamInv, Lent
<1>3. cl[c].at = "wait" /\ OneRequest(cl[c].req)
  BY <1>0, <1>1, PoolOne DEF AnswerInv
<1>4. OriginReads(c, s, cl[c].req) = <<[of |-> Own(c, s), interim |-> FALSE]>>
  BY <1>3, OneRequestReads
<1>5. Serving(Asked(c, s), Own(c, s))
  BY <1>0, <1>2, <1>4, AskedServes
<1> QED
  BY <1>1, <1>5, UsedStream

LEMMA ReadStream ==
  ASSUME LeaseInv, StreamInv, NEW c \in Clients, NEW s \in Shards, read_more(c, s)
  PROVE  StreamInv'
<1>0. ProxyType /\ HoldInv
  BY DEF LeaseInv
<1>1. ex[c][s].at = "recv"
  BY <1>0, ReadMoves
<1>2. PICK n \in 1 .. Len(Lent(c, s).wire) : Used(c, s, "recv", Filled(Lent(c, s), n))
  BY <1>0, ReadMoves
<1>3. Lent(c, s) \in UpstreamType /\ Serving(Lent(c, s), Own(c, s))
  BY <1>0, <1>1, BusyFacts DEF Busy, StreamInv, Lent
<1>4. Serving(Filled(Lent(c, s), n), Own(c, s))
  BY <1>0, <1>3, FilledServes
<1> QED
  BY <1>2, <1>4, UsedStream

LEMMA ErrorStream ==
  ASSUME LeaseInv, StreamInv, NEW c \in Clients, NEW s \in Shards, UpstreamError(c, s)
  PROVE  StreamInv'
<1>0. ProxyType /\ HoldInv
  BY DEF LeaseInv
<1> DEFINE u == Marked(Lent(c, s))
<1>1. Used(c, s, "failed", u)
  BY <1>0, ErrorMoves
<1> HIDE DEF u
<1> QED
  BY <1>1, UsedStream

\* A reply is taken: nothing is left of it, and it was the client's own.
LEMMA TakenStream ==
  ASSUME Conformant, LeaseInv, StreamInv, NEW c \in Clients, NEW s \in Shards,
         TakeReply(c, s) \/ ForwardReply(c, s)
  PROVE  /\ StreamInv'
         /\ \A i \in DOMAIN TakenFrom(Lent(c, s)) : TakenFrom(Lent(c, s))[i].of = Own(c, s)
         /\ \E u : Settled(c, s, "replied", u, TakenFrom(Lent(c, s)))
<1>0. ProxyType /\ HoldInv
  BY DEF LeaseInv
<1>1. /\ ex[c][s].at = "recv" /\ Reading(Lent(c, s).buf).res = "message"
      /\ \/ Settled(c, s, "replied", Drained(Lent(c, s)), TakenFrom(Lent(c, s)))
         \/ Settled(c, s, "replied", Kept(Lent(c, s)), TakenFrom(Lent(c, s)))
  BY TakeMoves, ForwardMoves
<1>2. Lent(c, s) \in UpstreamType /\ Serving(Lent(c, s), Own(c, s))
  BY <1>0, <1>1, BusyFacts DEF Busy, StreamInv, Lent
<1>3. /\ Blank(Drained(Lent(c, s)))
      /\ \A i \in DOMAIN TakenFrom(Lent(c, s)) : TakenFrom(Lent(c, s))[i].of = Own(c, s)
  BY <1>0, <1>1, <1>2, MessageServes
<1>4. Blank(Kept(Lent(c, s)))
  <2>1. Drained(Lent(c, s)) \in UpstreamType
    BY <1>1, <1>2, DrainedFacts
  <2> DEFINE d == Drained(Lent(c, s))
  <2>2. Kept(Lent(c, s)) = [d EXCEPT !.healthy = (d.buf = << >>)] /\ Blank(d)
    BY <1>3 DEF Kept
  <2> HIDE DEF d
  <2> QED
    BY <2>1, <2>2 DEF Blank, UpstreamType, d
<1>5. StreamInv'
  BY <1>1, <1>3, <1>4, SettledStream
<1> QED
  BY <1>1, <1>3, <1>5

\* A failed exchange gives back a closed upstream; fanout_requests, which marks
\* nothing, one whose backend has gone and that has nothing more to say.
LEMMA FailStream ==
  ASSUME LeaseInv, StreamInv, NEW c \in Clients, NEW s \in Shards,
         ExchangeFails(c, s) \/ RoundTripFails(c, s)
  PROVE  StreamInv'
<1>0. ProxyType /\ HoldInv
  BY DEF LeaseInv
<1> DEFINE u == Lent(c, s)
<1>1. /\ Fails(c, s)
      /\ \/ prog # "fanout_requests" /\ Settled(c, s, "failed", Marked(u), << >>)
         \/ prog = "fanout_requests" /\ Settled(c, s, "failed", Unmarked(u), << >>)
  BY FailMoves
<1>2. u \in UpstreamType
  <2>1. Busy(c, s)
    BY <1>1 DEF Settled
  <2> QED
    BY <1>0, <2>1, BusyFacts
<1>3. CASE prog # "fanout_requests"
  <2>1. Settled(c, s, "failed", Marked(u), << >>)
    BY <1>1, <1>3
  <2>2. Marked(u) \in UpstreamType /\ ~Marked(u).healthy
    BY <1>2 DEF Marked, UpstreamType
  <2>3. has_broken(Marked(u))
    BY <1>0, <1>3, <2>2, ReturnedFacts
  <2> QED
    BY <2>1, <2>3, SettledStream
<1>4. CASE prog = "fanout_requests"
  <2>1. Settled(c, s, "failed", Unmarked(u), << >>)
    BY <1>1, <1>4
  <2>2. u.wire = << >> /\ u.pending = << >>
    <3>1. CASE ex[c][s].at = "write"
      BY <3>1 DEF StreamInv, Blank, Lent
    <3>2. CASE ex[c][s].at # "write"
      <4>1. Reading(u.buf).res # "refused"
        BY <1>4 DEF Reading, read_exact
      <4>2. ex[c][s].at = "recv" /\ ~u.open /\ u.wire = << >>
        BY <1>1, <3>2, <4>1 DEF Fails, Lent
      <4>3. Serving(u, Own(c, s))
        BY <4>2 DEF StreamInv, Lent
      <4> QED
        BY <4>2, <4>3 DEF Serving, Blank
    <3> QED
      BY <3>1, <3>2
  <2> HIDE DEF u
  <2>3. Blank(Unmarked(u))
    BY <1>2, <2>2 DEF Unmarked, UpstreamType, Blank
  <2> QED
    BY <2>1, <2>3, SettledStream
<1> QED
  BY <1>3, <1>4

LEMMA ReplyStream ==
  ASSUME Conformant, LeaseInv, StreamInv, NEW s \in Shards, NEW k \in Conns, Reply(s, k)
  PROVE  StreamInv'
<1>0. ProxyType /\ up[s][k] \in UpstreamType
  BY UpFields DEF LeaseInv
<1>1. up[s][k].open /\ up[s][k].pending # << >>
  BY <1>0, ReplyMoves
<1>2. PICK reply \in ReplyForms : Touched(s, k, Answering(up[s][k], reply))
  BY <1>0, ReplyMoves
<1>3. ~Blank(up[s][k])
  BY <1>1 DEF Blank
<1>4. \A r \in Requester : Serving(up[s][k], r) => Serving(Answering(up[s][k], reply), r)
  BY <1>0, <1>1, AnsweringServes
<1> QED
  BY <1>2, <1>3, <1>4, TouchedStream

LEMMA HangupStream ==
  ASSUME LeaseInv, StreamInv, NEW s \in Shards, NEW k \in Conns, Hangup(s, k)
  PROVE  StreamInv'
<1> DEFINE u == up[s][k]
<1>0. ProxyType /\ u \in UpstreamType /\ u.open
  BY UpFields, HangupMoves DEF LeaseInv
<1>1. CASE Touched(s, k, Gone(u, << >>))
  <2>1. \A r \in Requester : Serving(u, r) => Serving(Gone(u, << >>), r)
    BY <1>0, GoneServes
  <2>2. Blank(u) => Blank(Gone(u, << >>))
    <3>1. u.wire \in Seq(Unit)
      BY <1>0 DEF UpstreamType
    <3>2. u.wire \o << >> = u.wire
      BY <3>1
    <3> HIDE DEF u
    <3> QED
      BY <1>0, <3>2 DEF Gone, UpstreamType, Blank
  <2> QED
    BY <1>1, <2>1, <2>2, TouchedStream
<1>2. ASSUME u.pending # << >>, NEW reply \in ReplyForms, reply.body > 0,
             Touched(s, k, Gone(u, SubSeq(Units(u.pending[1].of, reply), 1, 1)))
      PROVE  StreamInv'
  <2> DEFINE v == Gone(u, SubSeq(Units(u.pending[1].of, reply), 1, 1))
  <2>1. \A r \in Requester : Serving(u, r) => Serving(v, r)
    BY <1>0, <1>2, GoneServes
  <2>2. ~Blank(u)
    BY <1>2 DEF Blank
  <2>3. Touched(s, k, v)
    BY <1>2
  <2> HIDE DEF v
  <2> QED
    BY <2>1, <2>2, <2>3, TouchedStream
<1> QED
  BY <1>0, <1>1, <1>2, HangupMoves

-----------------------------------------------------------------------------
(* What was taken and what is sent. *)

AnswersInv == AnswerInv /\ OwnAnswer

\* A step of one exchange sends nothing, and takes only the client's own.
LEMMA ExchangeAnswers ==
  ASSUME ProxyType, AnswersInv, NEW c \in Clients, NEW s \in Shards, NEW e,
         ex' = SetEx(c, s, e), UNCHANGED <<prog, cl>>,
         \A i \in DOMAIN e.got : e.got[i].of = Own(c, s)
  PROVE  AnswersInv'
<1>1. /\ ex'[c][s] = e
      /\ \A d \in Clients, t \in Shards : d # c \/ t # s => ex'[d][t] = ex[d][t]
  BY SetExFacts
<1>2. cl' = cl /\ prog' = prog
  OBVIOUS
<1>3. ASSUME NEW d \in Clients, NEW t \in Shards, NEW i \in DOMAIN ex'[d][t].got
      PROVE  ex'[d][t].got[i].of = <<d, cl[d].n, t>>
  <2>1. CASE d = c /\ t = s
    BY <1>1, <1>3, <2>1 DEF Own
  <2>2. CASE d # c \/ t # s
    BY <1>1, <1>3, <2>2 DEF AnswersInv, AnswerInv, Own
  <2> QED
    BY <2>1, <2>2
<1>4. AnswerInv'
  BY <1>2, <1>3 DEF AnswersInv, AnswerInv, Own, OneRequest, Chunked
<1>5. OwnAnswer'
  BY <1>2 DEF AnswersInv, OwnAnswer
<1> QED
  BY <1>4, <1>5 DEF AnswersInv

LEMMA QuietAnswers ==
  ASSUME AnswersInv, UNCHANGED <<prog, cl, ex>>
  PROVE  AnswersInv'
  BY DEF AnswersInv, AnswerInv, OwnAnswer, Own, OneRequest, Chunked

LEMMA TookAnswers ==
  ASSUME ProxyType, AnswersInv, NEW c \in Clients, NEW s \in Shards, NEW k, Took(c, s, k)
  PROVE  AnswersInv'
<1> DEFINE e == [at |-> "write", conn |-> k, got |-> << >>]
<1>1. ex' = SetEx(c, s, e) /\ UNCHANGED <<prog, cl>>
  BY DEF Took
<1>2. DOMAIN e.got = {}
  OBVIOUS
<1> HIDE DEF e
<1> QED
  BY <1>1, <1>2, ExchangeAnswers

\* Denied and Used change only where the exchange is.
LEMMA AtAnswers ==
  ASSUME ProxyType, AnswersInv, NEW c \in Clients, NEW s \in Shards,
         NEW at, ex' = SetEx(c, s, [ex[c][s] EXCEPT !.at = at]), UNCHANGED <<prog, cl>>
  PROVE  AnswersInv'
<1> DEFINE e == [ex[c][s] EXCEPT !.at = at]
<1>1. e.got = ex[c][s].got
  BY ExFields DEF ExchangeType
<1>2. ex' = SetEx(c, s, e)
  OBVIOUS
<1> HIDE DEF e
<1>3. \A i \in DOMAIN e.got : e.got[i].of = Own(c, s)
  BY <1>1 DEF AnswersInv, AnswerInv
<1> QED
  BY <1>2, <1>3, ExchangeAnswers

LEMMA SettledAnswers ==
  ASSUME ProxyType, AnswersInv, NEW c \in Clients, NEW s \in Shards, NEW at, NEW u, NEW got,
         Settled(c, s, at, u, got), \A i \in DOMAIN got : got[i].of = Own(c, s)
  PROVE  AnswersInv'
<1> DEFINE e == [at |-> at, conn |-> 0, got |-> got]
<1>1. ex' = SetEx(c, s, e) /\ UNCHANGED <<prog, cl>>
  BY DEF Settled
<1>2. e.got = got
  OBVIOUS
<1> HIDE DEF e
<1> QED
  BY <1>1, <1>2, ExchangeAnswers

\* The moves of a client: what the others have and were sent is left alone.
LEMMA ClientAnswers ==
  ASSUME AnswersInv, NEW c \in Clients, prog' = prog,
         \A d \in Clients : d # c => ex'[d] = ex[d] /\ cl'[d] = cl[d],
         \A t \in Shards : ex'[c][t].got = << >> \/ (ex'[c] = ex[c] /\ cl'[c].n = cl[c].n),
         cl'[c].at = "wait" => OneRequest(cl'[c].req),
         \A t \in DOMAIN cl'[c].out : \A i \in DOMAIN cl'[c].out[t] :
           cl'[c].out[t][i].of = <<c, cl'[c].n, t>>,
         prog = "scatter_gather" /\ cl'[c].out # << >> => DOMAIN cl'[c].out = Shards
  PROVE  AnswersInv'
<1>1. ASSUME NEW d \in Clients, NEW t \in Shards, NEW i \in DOMAIN ex'[d][t].got
      PROVE  ex'[d][t].got[i].of = <<d, cl'[d].n, t>>
  <2>1. CASE ex'[d] = ex[d] /\ cl'[d].n = cl[d].n
    BY <1>1, <2>1 DEF AnswersInv, AnswerInv, Own
  <2>2. CASE ~(ex'[d] = ex[d] /\ cl'[d].n = cl[d].n)
    <3>1. d = c /\ ex'[d][t].got = << >>
      BY <2>2
    <3> QED
      BY <1>1, <3>1
  <2> QED
    BY <2>1, <2>2
<1>2. ASSUME NEW d \in Clients, cl'[d].at = "wait"
      PROVE  OneRequest(cl'[d].req)
  BY <1>2 DEF AnswersInv, AnswerInv
<1>3. AnswerInv'
  BY <1>1, <1>2 DEF AnswerInv, Own, OneRequest, Chunked
<1>4. ASSUME NEW d \in Clients
      PROVE  /\ \A t \in DOMAIN cl'[d].out : \A i \in DOMAIN cl'[d].out[t] :
                  cl'[d].out[t][i].of = <<d, cl'[d].n, t>>
             /\ prog' = "scatter_gather" /\ cl'[d].out # << >> => DOMAIN cl'[d].out = Shards
  <2>1. CASE d = c
    BY <2>1
  <2>2. CASE d # c
    BY <2>2 DEF AnswersInv, OwnAnswer
  <2> QED
    BY <2>1, <2>2
<1>5. OwnAnswer'
  BY <1>4 DEF OwnAnswer
<1> QED
  BY <1>3, <1>5 DEF AnswersInv

LEMMA BeganAnswers ==
  ASSUME ProxyType, AnswersInv, NEW c \in Clients, NEW n, NEW msg, Began(c, n, msg),
         OneRequest(msg)
  PROVE  AnswersInv'
<1> DEFINE r == [at |-> "wait", n |-> n, req |-> msg, out |-> << >>]
<1>1. cl' = [cl EXCEPT ![c] = r] /\ ex' = [ex EXCEPT ![c] = Asking] /\ prog' = prog
  BY DEF Began
<1>2. r.req = msg /\ r.out = << >>
  OBVIOUS
<1> HIDE DEF r
<1>3. \A d \in Clients : d # c => ex'[d] = ex[d] /\ cl'[d] = cl[d]
  BY <1>1 DEF ProxyType
<1>4. cl'[c] = r /\ ex'[c] = Asking
  BY <1>1 DEF ProxyType
<1>5. \A t \in Shards : ex'[c][t].got = << >>
  BY <1>4 DEF Asking, NoExchange
<1>6. DOMAIN cl'[c].out = {}
  BY <1>2, <1>4
<1> QED
  BY <1>1, <1>2, <1>3, <1>4, <1>5, <1>6, ClientAnswers

LEMMA LeftAnswers ==
  ASSUME ProxyType, AnswersInv, NEW c \in Clients, NEW out, Left(c, out)
  PROVE  AnswersInv'
<1> DEFINE r == [cl[c] EXCEPT !.at = "done", !.out = out]
<1>1. /\ cl' = [cl EXCEPT ![c] = r] /\ ex' = ex /\ prog' = prog
      /\ out = cl[c].out \/ (out = <<ErrorPart>> /\ prog = "http_proxy")
  BY DEF Left
<1>2. r.at = "done" /\ r.out = out /\ r.n = cl[c].n
  BY ClFields DEF ClientType
<1> HIDE DEF r
<1>3. cl'[c] = r /\ \A d \in Clients : d # c => cl'[d] = cl[d]
  BY <1>1 DEF ProxyType
<1>4. /\ \A t \in DOMAIN out : \A i \in DOMAIN out[t] : out[t][i].of = <<c, cl[c].n, t>>
      /\ prog = "scatter_gather" /\ out # << >> => DOMAIN out = Shards
  <2>1. CASE out = cl[c].out
    BY <2>1 DEF AnswersInv, OwnAnswer
  <2>2. CASE out = <<ErrorPart>> /\ prog = "http_proxy"
    <3>1. DOMAIN out = {1} /\ out[1] = << >>
      BY <2>2 DEF ErrorPart
    <3> QED
      BY <2>2, <3>1
  <2> QED
    BY <1>1, <2>1, <2>2
<1> QED
  BY <1>1, <1>2, <1>3, <1>4, ClientAnswers

LEMMA ConcludedAnswers ==
  ASSUME ProxyType, AnswersInv, NEW c \in Clients, NEW out, NEW next,
         Concluded(c, out, next), Fitting(c, out)
  PROVE  AnswersInv'
<1> DEFINE r == [cl[c] EXCEPT !.at = next, !.out = out]
<1>1. /\ cl' = [cl EXCEPT ![c] = r] /\ ex' = [ex EXCEPT ![c] = Idle] /\ prog' = prog
      /\ next # "wait"
  BY DEF Concluded
<1>2. r.at = next /\ r.out = out /\ r.n = cl[c].n
  BY ClFields DEF ClientType
<1> HIDE DEF r
<1>3. \A d \in Clients : d # c => ex'[d] = ex[d] /\ cl'[d] = cl[d]
  BY <1>1 DEF ProxyType
<1>4. cl'[c] = r /\ ex'[c] = Idle
  BY <1>1 DEF ProxyType
<1>5. \A t \in Shards : ex'[c][t].got = << >>
  BY <1>4 DEF Idle, NoExchange
<1>6. ASSUME NEW t \in DOMAIN out, NEW i \in DOMAIN out[t]
      PROVE  out[t][i].of = <<c, cl[c].n, t>>
  <2>1. t \in Shards /\ (out[t] = << >> \/ out[t] = ex[c][t].got)
    BY <1>6 DEF Fitting
  <2>2. CASE out[t] = << >>
    BY <1>6, <2>2
  <2>3. CASE out[t] = ex[c][t].got
    BY <1>6, <2>1, <2>3 DEF AnswersInv, AnswerInv, Own
  <2> QED
    BY <2>1, <2>2, <2>3
<1>7. prog = "scatter_gather" => DOMAIN out = Shards
  BY DEF Fitting
<1> QED
  BY <1>1, <1>2, <1>3, <1>4, <1>5, <1>6, <1>7, ClientAnswers

-----------------------------------------------------------------------------
(* The streams: theorems. *)

LEMMA StreamInit == Init => StreamInv /\ AnswersInv
<1> SUFFICES ASSUME Init PROVE StreamInv /\ AnswersInv
  OBVIOUS
<1>1. \A s \in Shards, k \in Conns : up[s][k] = Upstream("closed")
  BY DEF Init
<1>2. \A c \in Clients, s \in Shards : ex[c][s].at = "none" /\ ex[c][s].got = << >>
  BY DEF Init, NoExchange
<1>3. \A c \in Clients : cl[c].at = "read" /\ cl[c].out = << >>
  BY DEF Init
<1>4. StreamInv
  BY <1>1, <1>2 DEF StreamInv, Blank, Upstream
<1>5. AnswerInv
  <2>1. DOMAIN << >> = {}
    OBVIOUS
  <2> QED
    BY <1>2, <1>3, <2>1 DEF AnswerInv
<1>6. OwnAnswer
  <2>1. DOMAIN << >> = {}
    OBVIOUS
  <2> QED
    BY <1>3, <2>1 DEF OwnAnswer
<1> QED
  BY <1>4, <1>5, <1>6 DEF AnswersInv

LEMMA ExchangeStep ==
  ASSUME Conformant, LeaseInv, StreamInv, AnswersInv, NEW c \in Clients, NEW s \in Shards,
         Exchange(c, s)
  PROVE  StreamInv' /\ AnswersInv'
<1>0. ProxyType /\ HoldInv /\ AnswerInv
  BY DEF LeaseInv, AnswersInv
<1>1. CASE Lease(c, s)
  <2>1. PICK k \in Conns : Took(c, s, k)
    BY <1>0, <1>1, LeaseMoves
  <2> QED
    BY <1>0, <2>1, TookStream, TookAnswers
<1>2. CASE GetFails(c, s)
  <2>1. Denied(c, s)
    BY <1>0, <1>2, GetFailsMoves
  <2>2. ex' = SetEx(c, s, [ex[c][s] EXCEPT !.at = "no_upstream"]) /\ UNCHANGED <<prog, cl>>
    BY <2>1 DEF Denied
  <2> QED
    BY <1>0, <2>1, <2>2, DeniedStream, AtAnswers
<1>3. ASSUME NEW at, NEW u, Used(c, s, at, u) PROVE AnswersInv'
  <2>1. ex' = SetEx(c, s, [ex[c][s] EXCEPT !.at = at]) /\ UNCHANGED <<prog, cl>>
    BY <1>3 DEF Used
  <2> QED
    BY <1>0, <2>1, AtAnswers
<1>4. CASE WriteRequest(c, s)
  BY <1>0, <1>3, <1>4, WriteMoves, WriteStream
<1>5. CASE read_more(c, s)
  <2>1. PICK n \in 1 .. Len(Lent(c, s).wire) : Used(c, s, "recv", Filled(Lent(c, s), n))
    BY <1>0, <1>5, ReadMoves
  <2> QED
    BY <1>3, <1>5, <2>1, ReadStream
<1>6. CASE UpstreamError(c, s)
  <2> DEFINE u == Marked(Lent(c, s))
  <2>1. Used(c, s, "failed", u)
    BY <1>0, <1>6, ErrorMoves
  <2> HIDE DEF u
  <2> QED
    BY <1>3, <1>6, <2>1, ErrorStream
<1>7. CASE TakeReply(c, s) \/ ForwardReply(c, s)
  BY <1>0, <1>7, TakenStream, SettledAnswers
<1>8. CASE ExchangeFails(c, s) \/ RoundTripFails(c, s)
  <2>1. \E u : Settled(c, s, "failed", u, << >>)
    BY <1>8, FailMoves
  <2>2. DOMAIN << >> = {}
    OBVIOUS
  <2>3. AnswersInv'
    BY <1>0, <2>1, <2>2, SettledAnswers
  <2> QED
    BY <1>8, <2>3, FailStream
<1> QED
  BY <1>1, <1>2, <1>4, <1>5, <1>6, <1>7, <1>8 DEF Exchange

LEMMA StreamStep ==
  ASSUME Conformant, LeaseInv, StreamInv, AnswersInv, [Next]_vars
  PROVE  StreamInv' /\ AnswersInv'
<1>0. ProxyType
  BY DEF LeaseInv
<1>1. ASSUME NEW c \in Clients, Arrival(c) PROVE StreamInv' /\ AnswersInv'
  <2>1. ASSUME NEW n, NEW msg, Began(c, n, msg), Accepted(msg)
        PROVE  StreamInv' /\ AnswersInv'
    <3>1. OneRequest(msg)
      BY <2>1, AcceptedIsOne
    <3> QED
      BY <1>0, <2>1, <3>1, BeganStream, BeganAnswers
  <2>2. ASSUME NEW out, Left(c, out) PROVE StreamInv' /\ AnswersInv'
    BY <1>0, <2>2, LeftStream, LeftAnswers
  <2> QED
    BY <1>0, <1>1, <2>1, <2>2, ArrivalMoves
<1>2. ASSUME NEW c \in Clients, Answer(c) PROVE StreamInv' /\ AnswersInv'
  <2>1. \E out, next : Concluded(c, out, next) /\ Fitting(c, out)
    BY <1>2, AnswerMoves
  <2> QED
    BY <1>0, <2>1, ConcludedStream, ConcludedAnswers
<1>3. ASSUME NEW c \in Clients, NEW s \in Shards, Exchange(c, s)
      PROVE  StreamInv' /\ AnswersInv'
  BY <1>3, ExchangeStep
<1>4. ASSUME NEW s \in Shards, NEW k \in Conns, Reply(s, k) \/ Hangup(s, k) \/ Expire(s, k)
      PROVE  StreamInv' /\ AnswersInv'
  <2>1. AnswersInv'
    <3>1. CASE Reply(s, k)
      BY <3>1, QuietAnswers DEF Reply
    <3>2. CASE Hangup(s, k)
      BY <3>2, QuietAnswers DEF Hangup
    <3>3. CASE Expire(s, k)
      BY <3>3, QuietAnswers DEF Expire
    <3> QED
      BY <1>4, <3>1, <3>2, <3>3
  <2>2. CASE Reply(s, k)
    BY <2>1, <2>2, ReplyStream
  <2>3. CASE Hangup(s, k)
    BY <2>1, <2>3, HangupStream
  <2>4. CASE Expire(s, k)
    BY <1>0, <2>1, <2>4, ExpireMoves, ExpiredStream
  <2> QED
    BY <1>4, <2>2, <2>3, <2>4
<1>5. CASE UNCHANGED vars
  <2>1. AnswersInv'
    BY <1>5, QuietAnswers DEF vars
  <2>2. StreamInv'
    BY <1>5 DEF vars, StreamInv, Blank, Serving, Own, ReplyForms
  <2> QED
    BY <2>1, <2>2
<1> QED
  BY <1>1, <1>2, <1>3, <1>4, <1>5 DEF Next

LEMMA StreamAlways ==
  ASSUME Conformant
  PROVE  Spec => []ProxyInv
<1>1. Init => LeaseInv /\ StreamInv /\ AnswersInv
  BY LeaseInit, StreamInit
<1>2. LeaseInv /\ StreamInv /\ AnswersInv /\ [Next]_vars =>
        LeaseInv' /\ StreamInv' /\ AnswersInv'
  BY LeaseStep, StreamStep
<1>3. LeaseInv /\ StreamInv /\ AnswersInv => ProxyInv
  BY DEF AnswersInv, ProxyInv
<1> QED
  BY <1>1, <1>2, <1>3, PTL DEF Spec

\* With origins and clients that frame their messages as HTTP says, no client of
\* any of the four programs is ever sent a byte of another request's reply, and
\* a merged scatter_gather line has every shard's part in its place.
THEOREM OwnBytesOnly ==
  ASSUME Conformant
  PROVE  Spec => []OwnAnswer
<1>1. ProxyInv => OwnAnswer
  BY DEF ProxyInv
<1> QED
  BY <1>1, StreamAlways, PTL

\* Under the same hypothesis an upstream waits in the pool with nothing of the
\* last exchange on it, whether it was returned, reset or never used.
THEOREM CleanWhenLent ==
  ASSUME Conformant
  PROVE  Spec => []CleanWhenIdle
<1>1. ProxyInv => CleanWhenIdle
  BY DEF ProxyInv, StreamInv, Blank, CleanWhenIdle
<1> QED
  BY <1>1, StreamAlways, PTL
=============================================================================
