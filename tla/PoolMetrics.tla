---------------------------- MODULE PoolMetrics ----------------------------
(***************************************************************************)
(* The metrics feature of pool.rs across threads: one block of cumulative  *)
(* counters per LocalPool, written by its thread; the registry of weak     *)
(* references behind a mutex; the retired block that a dropping LocalPool  *)
(* moves its counters into; and Pool::statistics, which sums them while    *)
(* the owners go on.  Every load, swap and fetch_add is a step.            *)
(*                                                                         *)
(* Steps of different threads interleave in one order all threads agree    *)
(* on, which x86-64 gives these relaxed accesses (loads stay in order and  *)
(* so do locked instructions) and Relaxed on other targets does not.       *)
(***************************************************************************)
EXTENDS Integers, FiniteSets, FiniteSetsExt, SequencesExt

CONSTANTS
  Pools,      \* the LocalPools ever created, each with its own block
  Scrapers,   \* the threads that call Pool::statistics
  NCounters,  \* how many cumulative counters a block has
  MaxCount,   \* the bound on the events noted per counter
  Nobody      \* the mutex is free

ASSUME MetricsAssumption ==
  /\ IsFiniteSet(Pools)
  /\ NCounters \in Nat \ {0}
  /\ MaxCount \in Nat
  /\ Nobody \notin Pools \cup Scrapers
  /\ Pools \cap Scrapers = {}

\* The counters, in the order both snapshot_statistics and retire_into use.
Counters == 1 .. NCounters

VARIABLES
  phase,      \* of each pool: unborn, joining, live, swap, add, gone
  block,      \* each pool's cumulative counters
  retired,    \* the counters of the pools that have dropped
  step,       \* the counter retire_into has reached, for each pool
  carry,      \* the value swapped out and not added yet, for each pool
  registry,   \* the pools behind the Vec<Weak<Metrics>>
  lock,       \* who holds the registry mutex
  at,         \* where the holder's retain is in the registry
  pc,         \* of each scraper: idle, retired, lock, walk, read, done
  col,        \* the counter the scraper reads next
  sum,        \* what the scraper has added up
  noted,      \* history: the events ever noted, per counter
  doomed,     \* history: the pools gone when the mutex was last taken
  hist        \* history: what each scrape has to be compared with

blockVars == <<phase, block, retired, step, carry>>
registryVars == <<registry, lock, at, doomed>>
scrapeVars == <<pc, col, sum>>
vars == <<blockVars, registryVars, scrapeVars, noted, hist>>

Zero == [c \in Counters |-> 0]

Init ==
  /\ phase = [p \in Pools |-> "unborn"]
  /\ block = [p \in Pools |-> Zero]
  /\ retired = Zero
  /\ step = [p \in Pools |-> 1]
  /\ carry = [p \in Pools |-> 0]
  /\ registry = <<>>
  /\ lock = Nobody
  /\ at = 1
  /\ pc = [s \in Scrapers |-> "idle"]
  /\ col = [s \in Scrapers |-> 1]
  /\ sum = [s \in Scrapers |-> Zero]
  /\ noted = Zero
  /\ doomed = {}
  /\ hist = [s \in Scrapers |-> [noted |-> Zero, before |-> Zero, calm |-> TRUE]]

-----------------------------------------------------------------------------
(* The registry. *)

\* Some strong reference is left: the one in Inner and the one in its Waiters go
\* together, after Inner::drop.  (A scraper's own upgrade ends before it unlocks,
\* so no other upgrade or count can see it.)
Alive(p) == phase[p] \in {"live", "swap", "add"}

Acquire(a, from) ==
  /\ lock = Nobody
  /\ lock' = a
  /\ at' = from
  /\ doomed' = {p \in Pools : phase[p] = "gone"}
  /\ UNCHANGED registry

PruneAndSkip ==
  /\ ~Alive(registry[at])
  /\ registry' = RemoveAt(registry, at)
  /\ at' = at + 1
  /\ UNCHANGED <<lock, doomed>>

\* retain drops the entry it is at.
Prune ==
  /\ ~Alive(registry[at])
  /\ registry' = RemoveAt(registry, at)
  /\ UNCHANGED <<lock, at, doomed>>

-----------------------------------------------------------------------------
(* A pool's thread: LocalPool::new, the note_* calls, Inner::drop. *)

EnterAtEnd(p) ==
  /\ phase[p] = "unborn"
  /\ Acquire(p, Len(registry) + 1)
  /\ phase' = [phase EXCEPT ![p] = "joining"]
  /\ UNCHANGED <<block, retired, step, carry, scrapeVars, noted, hist>>

\* LocalPool::new takes the registry mutex, and prunes the registry...
Enter(p) ==
  /\ phase[p] = "unborn"
  /\ Acquire(p, 1)
  /\ phase' = [phase EXCEPT ![p] = "joining"]
  /\ UNCHANGED <<block, retired, step, carry, scrapeVars, noted, hist>>

Sweep(p) ==
  /\ lock = p
  /\ at <= Len(registry)
  /\ \/ Prune
     \/ /\ Alive(registry[at])
        /\ at' = at + 1
        /\ UNCHANGED <<registry, lock, doomed>>
  /\ UNCHANGED <<blockVars, scrapeVars, noted, hist>>

\* ...then pushes its own block and unlocks.
Join(p) ==
  /\ lock = p
  /\ at > Len(registry)
  /\ registry' = Append(registry, p)
  /\ phase' = [phase EXCEPT ![p] = "live"]
  /\ lock' = Nobody
  /\ UNCHANGED <<block, retired, step, carry, at, doomed, scrapeVars, noted, hist>>

\* A note_* or record_acquire adds to one counter of the thread's own block.
Note(p, c) ==
  /\ phase[p] = "live"
  /\ noted[c] < MaxCount
  /\ block' = [block EXCEPT ![p][c] = @ + 1]
  /\ noted' = [noted EXCEPT ![c] = @ + 1]
  /\ UNCHANGED <<phase, retired, step, carry, registryVars, scrapeVars, hist>>

\* The last handle is gone: Inner::drop zeroes the gauges and calls retire_into.
Drop(p) ==
  /\ phase[p] = "live"
  /\ phase' = [phase EXCEPT ![p] = "swap"]
  /\ hist' = [s \in Scrapers |-> [hist[s] EXCEPT !.calm = FALSE]]
  /\ UNCHANGED <<block, retired, step, carry, registryVars, scrapeVars, noted>>

SwapCopies(p) ==
  /\ phase[p] = "swap" /\ step[p] \in Counters
  /\ carry' = [carry EXCEPT ![p] = block[p][step[p]]]
  /\ phase' = [phase EXCEPT ![p] = "add"]
  /\ UNCHANGED <<block, retired, step, registryVars, scrapeVars, noted, hist>>

\* retire_into, one counter: swapped out of the block...
Swap(p) ==
  /\ phase[p] = "swap" /\ step[p] \in Counters
  /\ carry' = [carry EXCEPT ![p] = block[p][step[p]]]
  /\ block' = [block EXCEPT ![p][step[p]] = 0]
  /\ phase' = [phase EXCEPT ![p] = "add"]
  /\ UNCHANGED <<retired, step, registryVars, scrapeVars, noted, hist>>

AddOverwrites(p) ==
  /\ phase[p] = "add"
  /\ retired' = [retired EXCEPT ![step[p]] = carry[p]]
  /\ carry' = [carry EXCEPT ![p] = 0]
  /\ step' = [step EXCEPT ![p] = @ + 1]
  /\ phase' = [phase EXCEPT ![p] = "swap"]
  /\ UNCHANGED <<block, registryVars, scrapeVars, noted, hist>>

\* ...then added to the retired block.
Add(p) ==
  /\ phase[p] = "add"
  /\ retired' = [retired EXCEPT ![step[p]] = @ + carry[p]]
  /\ carry' = [carry EXCEPT ![p] = 0]
  /\ step' = [step EXCEPT ![p] = @ + 1]
  /\ phase' = [phase EXCEPT ![p] = "swap"]
  /\ UNCHANGED <<block, registryVars, scrapeVars, noted, hist>>

\* Inner's fields drop after Inner::drop, the strong references among them.
Free(p) ==
  /\ phase[p] = "swap" /\ step[p] > NCounters
  /\ phase' = [phase EXCEPT ![p] = "gone"]
  /\ UNCHANGED <<block, retired, step, carry, registryVars, scrapeVars, noted, hist>>

-----------------------------------------------------------------------------
(* A scraper: Pool::statistics. *)

Start(s) ==
  /\ pc[s] \in {"idle", "done"}
  /\ pc' = [pc EXCEPT ![s] = "retired"]
  /\ col' = [col EXCEPT ![s] = 1]
  /\ sum' = [sum EXCEPT ![s] = Zero]
  /\ hist' = [hist EXCEPT ![s] =
       [noted |-> noted, before |-> sum[s],
        calm |-> \A p \in Pools : phase[p] \notin {"swap", "add"}]]
  /\ UNCHANGED <<blockVars, registryVars, noted>>

\* snapshot_statistics loads one counter after the other from block b, and the
\* scraper goes to next when it has them all.
Load(s, b, next) ==
  /\ sum' = [sum EXCEPT ![s][col[s]] = @ + b[col[s]]]
  /\ IF col[s] < NCounters
     THEN /\ col' = [col EXCEPT ![s] = @ + 1]
          /\ UNCHANGED pc
     ELSE /\ col' = [col EXCEPT ![s] = 1]
          /\ pc' = [pc EXCEPT ![s] = next]

\* The retired totals come first...
ReadRetired(s) ==
  /\ pc[s] = "retired"
  /\ Load(s, retired, "lock")
  /\ UNCHANGED <<blockVars, registryVars, noted, hist>>

Lock(s) ==
  /\ pc[s] = "lock"
  /\ Acquire(s, 1)
  /\ pc' = [pc EXCEPT ![s] = "walk"]
  /\ UNCHANGED <<blockVars, col, sum, noted, hist>>

\* ...then, under the mutex, each block that upgrades; the others are pruned.
Upgrade(s) ==
  /\ pc[s] = "walk" /\ at <= Len(registry)
  /\ \/ Prune /\ UNCHANGED pc
     \/ /\ Alive(registry[at])
        /\ pc' = [pc EXCEPT ![s] = "read"]
        /\ UNCHANGED registryVars
  /\ UNCHANGED <<blockVars, col, sum, noted, hist>>

ReadLive(s) ==
  /\ pc[s] = "read"
  /\ Load(s, block[registry[at]], "walk")
  /\ at' = IF col[s] = NCounters THEN at + 1 ELSE at
  /\ UNCHANGED <<blockVars, registry, lock, doomed, noted, hist>>

Unlock(s) ==
  /\ pc[s] = "walk" /\ at > Len(registry)
  /\ lock' = Nobody
  /\ pc' = [pc EXCEPT ![s] = "done"]
  /\ UNCHANGED <<blockVars, registry, at, doomed, col, sum, noted, hist>>

-----------------------------------------------------------------------------
Next ==
  \/ \E p \in Pools : \/ Enter(p) \/ Sweep(p) \/ Join(p)
                      \/ \E c \in Counters : Note(p, c)
                      \/ Drop(p) \/ Swap(p) \/ Add(p) \/ Free(p)
  \/ \E s \in Scrapers : \/ Start(s) \/ ReadRetired(s) \/ Lock(s)
                         \/ Upgrade(s) \/ ReadLive(s) \/ Unlock(s)

Spec == Init /\ [][Next]_vars

-----------------------------------------------------------------------------
(* Properties. *)

\* The values the variables range over.
MetricsTypeOK ==
  /\ phase \in [Pools -> {"unborn", "joining", "live", "swap", "add", "gone"}]
  /\ block \in [Pools -> [Counters -> Nat]]
  /\ retired \in [Counters -> Nat]
  /\ step \in [Pools -> 1 .. NCounters + 1]
  /\ carry \in [Pools -> Nat]
  /\ registry \in Seq(Pools)
  /\ at \in 1 .. Len(registry) + 1
  /\ pc \in [Scrapers -> {"idle", "retired", "lock", "walk", "read", "done"}]
  /\ lock \in Pools \cup Scrapers \cup {Nobody}
  /\ col \in [Scrapers -> Counters]
  /\ sum \in [Scrapers -> [Counters -> Nat]]
  /\ noted \in [Counters -> Nat]
  /\ doomed \subseteq Pools

\* What p has of counter c: in its block, or swapped out of it and not added yet.
Share(c) == [p \in Pools |-> block[p][c] + (IF step[p] = c THEN carry[p] ELSE 0)]

\* Lifetime totals survive the thread that made them: whatever threads retire
\* together (retire_into on each, into one block), no event is lost or doubled.
TotalsSurvive ==
  \A c \in Counters :
    noted[c] = retired[c] + SumFunction(Share(c))

\* A scrape racing retire_into never counts an event in both places: no sum of
\* Pool::statistics, finished or not, passes the events there have been.
NeverBoth ==
  \A s \in Scrapers, c \in Counters : sum[s][c] <= noted[c]

\* A scrape during which no pool was dropping has every event noted before it
\* began, whatever pools were created and entries pruned meanwhile.
CalmScrapeComplete ==
  \A s \in Scrapers :
    pc[s] = "done" /\ hist[s].calm =>
      \A c \in Counters : sum[s][c] >= hist[s].noted[c]

\* Every block still referenced is in the registry exactly once, and whoever
\* releases the mutex leaves no entry that was already dead when it took it: short-
\* lived pools cannot grow the registry, even if nothing ever scrapes it.
RegistryExact ==
  /\ \A p \in Pools :
       Alive(p) => Cardinality({i \in DOMAIN registry : registry[i] = p}) = 1
  /\ lock = Nobody => \A i \in DOMAIN registry : registry[i] \notin doomed

\* "Statistics is monotonic": a scrape never returns less than the one the same
\* thread made before it.
Monotonic ==
  \A s \in Scrapers :
    pc[s] = "done" => \A c \in Counters : sum[s][c] >= hist[s].before[c]
=============================================================================
