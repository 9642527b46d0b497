------------------------------ MODULE MCProxy ------------------------------
(* The upstream programs, for TLC: two clients over a pool of one upstream. *)
EXTENDS Proxy

Length(n) == [name |-> "content-length", value |-> n]
Encoding == [name |-> "transfer-encoding", value |-> 0]
Message(status, fields, body) == [status |-> status, fields |-> fields, body |-> body]

\* No body; one body; two lengths; chunked beside a length; no such number; too long.
MCRequests == {
  Message("none", << >>, 0), Message("none", <<Length(1)>>, 1),
  Message("none", <<Length(0), Length(1)>>, 1), Message("none", <<Length(1), Encoding>>, 1),
  Message("none", <<Length(Malformed)>>, 0), Message("none", <<Length(2)>>, 2) }

\* As a conformant origin sends them: with a body, without, and one that only
\* its end delimits.
MCReplies == {
  Message("200", <<Length(1)>>, 1), Message("204", << >>, 0), Message("200", << >>, 1) }

\* The same, and 100 Continue ahead of the reply.
InterimReplies == MCReplies \cup {Message("1xx", << >>, 0)}
=============================================================================
