---------------------------- MODULE BoundedPool ----------------------------
(***************************************************************************)
(* What a LocalPool promises its callers, with no queue, clock, manager or *)
(* shutdown in sight: a bounded number of connections, each either idle or *)
(* in one owner's hands; an owner has at most one, got by opening within   *)
(* the bound or by taking an idle one, and gives it back or closes it.     *)
(***************************************************************************)
EXTENDS Naturals, FiniteSets

CONSTANTS
  Holders,  \* who may hold a connection
  Bound     \* PoolConfig::max_size

VARIABLES
  holding,  \* the owners with a connection (or a reservation for one)
  parked    \* how many connections are idle

abstractVars == <<holding, parked>>

PoolInit == holding = {} /\ parked = 0

Open(o) ==
  /\ o \notin holding
  /\ Cardinality(holding) + parked < Bound
  /\ holding' = holding \cup {o}
  /\ UNCHANGED parked

Reuse(o) ==
  /\ o \notin holding
  /\ parked > 0
  /\ holding' = holding \cup {o}
  /\ parked' = parked - 1

Park(o) ==
  /\ o \in holding
  /\ holding' = holding \ {o}
  /\ parked' = parked + 1

Discard(o) ==
  /\ o \in holding
  /\ holding' = holding \ {o}
  /\ UNCHANGED parked

\* Some idle connections are closed.
Retire ==
  /\ parked' \in 0 .. parked
  /\ UNCHANGED holding

PoolNext ==
  \/ Retire
  \/ \E o \in Holders : Open(o) \/ Reuse(o) \/ Park(o) \/ Discard(o)

BoundedSpec == PoolInit /\ [][PoolNext]_abstractVars
=============================================================================
