--------------------------- MODULE MetricsProofs ---------------------------
(***************************************************************************)
(* Proofs about the metrics, for any finite set of pools, any set of       *)
(* scrapers and any number of counters: no event is lost or doubled by     *)
(* retire_into, no scrape counts one twice, and the registry is exact.     *)
(***************************************************************************)
EXTENDS PoolMetrics, FiniteSetTheorems, SequenceTheorems, TLAPS

-----------------------------------------------------------------------------
(* Sums over sets of pools.  f[p] units of p, as a set that can be counted. *)

Pile(f, S) == {e \in S \X Nat : 1 <= e[2] /\ e[2] <= f[e[1]]}
Total(f, S) == Cardinality(Pile(f, S))

\* One pool's units are as many as it has.
LEMMA PileOne ==
  ASSUME NEW f, NEW p, f[p] \in Nat
  PROVE  IsFiniteSet(Pile(f, {p})) /\ Total(f, {p}) = f[p]
<1> DEFINE b == [i \in 1 .. f[p] |-> <<p, i>>]
<1>1. b \in Bijection(1 .. f[p], Pile(f, {p}))
  <2>1. b \in [1 .. f[p] -> Pile(f, {p})]
    BY DEF Pile
  <2>2. \A i, j \in 1 .. f[p] : b[i] = b[j] => i = j
    OBVIOUS
  <2>3. \A e \in Pile(f, {p}) : \E i \in 1 .. f[p] : b[i] = e
    <3> TAKE e \in Pile(f, {p})
    <3>1. e[2] \in 1 .. f[p] /\ e = <<p, e[2]>>
      BY DEF Pile
    <3> QED
      BY <3>1
  <2> QED
    BY <2>1, <2>2, <2>3 DEF Bijection, Injection, Surjection, IsInjective
<1>2. IsFiniteSet(1 .. f[p]) /\ Cardinality(1 .. f[p]) = f[p]
  BY FS_Interval
<1> QED
  BY <1>1, <1>2, FS_Bijection DEF ExistsBijection, Total

\* Pools that are not there have no units, and a new one adds its own.
LEMMA TotalEmpty ==
  ASSUME NEW f
  PROVE  IsFiniteSet(Pile(f, {})) /\ Total(f, {}) = 0
<1>1. Pile(f, {}) = {}
  BY DEF Pile
<1> QED
  BY <1>1, FS_EmptySet DEF Total

LEMMA TotalInsert ==
  ASSUME NEW f, NEW S, IsFiniteSet(Pile(f, S)), NEW p, p \notin S, f[p] \in Nat
  PROVE  /\ IsFiniteSet(Pile(f, S \cup {p}))
         /\ Total(f, S \cup {p}) = f[p] + Total(f, S)
<1>1. Pile(f, S \cup {p}) = Pile(f, S) \cup Pile(f, {p})
  BY DEF Pile
<1>2. Pile(f, S) \cap Pile(f, {p}) = {}
  BY DEF Pile
<1>3. IsFiniteSet(Pile(f, {p})) /\ Cardinality(Pile(f, {p})) = f[p]
  BY PileOne DEF Total
<1>4. Cardinality(Pile(f, S)) \in Nat
  BY FS_CardinalityType
<1> HIDE DEF Pile
<1>5. /\ IsFiniteSet(Pile(f, S) \cup Pile(f, {p}))
      /\ Cardinality(Pile(f, S) \cup Pile(f, {p})) =
           Cardinality(Pile(f, S)) + Cardinality(Pile(f, {p}))
             - Cardinality(Pile(f, S) \cap Pile(f, {p}))
  BY <1>3, FS_Union
<1>6. Cardinality(Pile(f, S) \cap Pile(f, {p})) = 0
  BY <1>2, FS_EmptySet
<1>7. /\ IsFiniteSet(Pile(f, S \cup {p}))
      /\ Cardinality(Pile(f, S \cup {p})) = Cardinality(Pile(f, S)) + f[p] - 0
  BY <1>1, <1>3, <1>5, <1>6, Zenon
<1> QED
  BY <1>4, <1>7 DEF Total

\* Induction over the subsets of a finite set, for a set B of subsets: if each
\* subset is in B once its proper subsets are, all are.
LEMMA SubsetInduction ==
  ASSUME NEW S, IsFiniteSet(S), NEW B \in SUBSET (SUBSET S),
         \A T \in SUBSET S : (\A U \in SUBSET T : U # T => U \in B) => T \in B
  PROVE  B = SUBSET S
<1>1. IsWellFoundedOn(StrictSubsetOrdering(S), SUBSET S)
  BY FS_StrictSubsetOrderingWellFounded, FS_FiniteSubsetsOfFinite
<1> DEFINE Bad == (SUBSET S) \ B
           R == StrictSubsetOrdering(S)
           D == SUBSET S
<1> SUFFICES ASSUME Bad # {} PROVE FALSE
  OBVIOUS
<1>2. IsWellFoundedOn(R, D) /\ Bad \subseteq D
  BY <1>1
<1> HIDE DEF Bad, R, D
<1>3. PICK T \in Bad : \A U \in Bad : ~(<<U, T>> \in R)
  BY <1>2, WFMin
<1>4. T \in SUBSET S /\ \A U \in SUBSET T : U # T => U \in B
  BY <1>3 DEF Bad, R, StrictSubsetOrdering
<1> QED
  BY <1>3, <1>4 DEF Bad

LEMMA TotalType ==
  ASSUME NEW S, IsFiniteSet(S), NEW f, \A p \in S : f[p] \in Nat, NEW T \in SUBSET S
  PROVE  IsFiniteSet(Pile(f, T)) /\ Total(f, T) \in Nat
<1> DEFINE B == {U \in SUBSET S : IsFiniteSet(Pile(f, U))}
<1>1. ASSUME NEW V \in SUBSET S, \A U \in SUBSET V : U # V => U \in B
      PROVE  V \in B
  <2>1. CASE V = {}
    BY <2>1, TotalEmpty
  <2>2. CASE V # {}
    <3>1. PICK x \in V : TRUE
      BY <2>2
    <3>2. V \ {x} \in B /\ (V \ {x}) \cup {x} = V
      BY <1>1, <3>1
    <3>3. IsFiniteSet(Pile(f, (V \ {x}) \cup {x}))
      BY <3>1, <3>2, TotalInsert
    <3> QED
      BY <3>2, <3>3
  <2> QED
    BY <2>1, <2>2
<1>2. B \in SUBSET (SUBSET S)
  OBVIOUS
<1> HIDE DEF B
<1>3. B = SUBSET S
  BY <1>1, <1>2, SubsetInduction
<1>4. IsFiniteSet(Pile(f, T))
  BY <1>3 DEF B
<1> QED
  BY <1>4, FS_CardinalityType DEF Total

\* The total with one pool taken apart, of equal shares, and of no shares.
LEMMA TotalSplit ==
  ASSUME NEW S, IsFiniteSet(S), NEW f, \A q \in S : f[q] \in Nat, NEW p \in S
  PROVE  Total(f, S) = f[p] + Total(f, S \ {p})
<1>1. IsFiniteSet(Pile(f, S \ {p}))
  BY TotalType
<1>2. (S \ {p}) \cup {p} = S
  OBVIOUS
<1>3. Total(f, (S \ {p}) \cup {p}) = f[p] + Total(f, S \ {p})
  BY <1>1, TotalInsert
<1> QED
  BY <1>2, <1>3

LEMMA TotalCongruent ==
  ASSUME NEW S, NEW f, NEW g, \A p \in S : f[p] = g[p]
  PROVE  Total(f, S) = Total(g, S)
<1>1. Pile(f, S) = Pile(g, S)
  BY DEF Pile
<1> QED
  BY <1>1 DEF Total

LEMMA TotalZero ==
  ASSUME NEW S, NEW f, \A p \in S : f[p] = 0
  PROVE  Total(f, S) = 0
<1>1. Pile(f, S) = {}
  BY DEF Pile
<1> QED
  BY <1>1, FS_EmptySet DEF Total

\* The sum TLC computes is this total: the counting function solves the fold's
\* equation, and every solution of it is the counting function.
LEMMA SumIsTotal ==
  ASSUME NEW S, IsFiniteSet(S), NEW f \in [S -> Nat]
  PROVE  SumFunction(f) = Total(f, S)
<1> DEFINE pick(s) == CHOOSE x \in s : TRUE
           Solves(g) == g = [s \in SUBSET S |->
                               IF s = {} THEN 0 ELSE f[pick(s)] + g[s \ {pick(s)}]]
           count == [s \in SUBSET S |-> Total(f, s)]
<1>1. SumFunction(f) = (CHOOSE g : Solves(g))[S]
  BY DEF SumFunction, SumFunctionOnSet, FoldFunctionOnSet, MapThenFoldSet
<1>2. \A s \in SUBSET S : s # {} => pick(s) \in s
  OBVIOUS
<1> HIDE DEF pick
<1>3. Solves(count)
  <2>1. \A s \in SUBSET S :
          count[s] = IF s = {} THEN 0 ELSE f[pick(s)] + count[s \ {pick(s)}]
    <3> TAKE s \in SUBSET S
    <3>1. CASE s = {}
      BY <3>1, TotalEmpty
    <3>2. CASE s # {}
      <4>1. pick(s) \in s /\ IsFiniteSet(s) /\ \A q \in s : f[q] \in Nat
        BY <1>2, <3>2, FS_Subset
      <4>2. Total(f, s) = f[pick(s)] + Total(f, s \ {pick(s)})
        BY <4>1, TotalSplit
      <4> QED
        BY <3>2, <4>2
    <3> QED
      BY <3>1, <3>2
  <2> QED
    BY <2>1
<1>4. ASSUME NEW g, Solves(g) PROVE g[S] = Total(f, S)
  <2> DEFINE B == {s \in SUBSET S : g[s] = Total(f, s)}
  <2>1. \A s \in SUBSET S :
          g[s] = IF s = {} THEN 0 ELSE f[pick(s)] + g[s \ {pick(s)}]
    BY <1>4
  <2> HIDE DEF Solves
  <2>2. ASSUME NEW T \in SUBSET S, \A U \in SUBSET T : U # T => U \in B
        PROVE  T \in B
    <3>1. CASE T = {}
      BY <2>1, <3>1, TotalEmpty
    <3>2. CASE T # {}
      <4>1. pick(T) \in T /\ IsFiniteSet(T) /\ \A q \in T : f[q] \in Nat
        BY <1>2, <3>2, FS_Subset
      <4>2. g[T \ {pick(T)}] = Total(f, T \ {pick(T)})
        BY <2>2, <4>1
      <4>3. Total(f, T) = f[pick(T)] + Total(f, T \ {pick(T)})
        BY <4>1, TotalSplit
      <4> QED
        BY <2>1, <3>2, <4>2, <4>3
    <3> QED
      BY <3>1, <3>2
  <2>3. B \in SUBSET (SUBSET S)
    OBVIOUS
  <2> HIDE DEF B
  <2>4. B = SUBSET S
    BY <2>2, <2>3, SubsetInduction
  <2> QED
    BY <2>4 DEF B
<1> QED
  BY <1>1, <1>3, <1>4

-----------------------------------------------------------------------------
(* The inductive invariant. *)

HistoryType ==
  hist \in [Scrapers -> [noted : [Counters -> Nat], before : [Counters -> Nat],
                         calm : BOOLEAN]]

\* What is left of a block in each phase of its life: nothing before it is
\* registered, nothing below the counter retire_into has reached, nothing after.
BlockInv ==
  \A p \in Pools :
    /\ phase[p] \in {"unborn", "joining", "gone"} => \A c \in Counters : block[p][c] = 0
    /\ phase[p] \in {"swap", "add"} => \A c \in Counters : c < step[p] => block[p][c] = 0
    /\ phase[p] = "add" => step[p] \in Counters /\ block[p][step[p]] = 0
    /\ phase[p] # "add" => carry[p] = 0
    /\ phase[p] \in {"unborn", "joining", "live"} => step[p] = 1

\* The registry holds every referenced block once, and nothing unregistered.
Registered(p) == \E i \in 1 .. Len(registry) : registry[i] = p
RegistryInv ==
  /\ \A i, j \in 1 .. Len(registry) : registry[i] = registry[j] => i = j
  /\ \A i \in 1 .. Len(registry) : phase[registry[i]] \notin {"unborn", "joining"}
  /\ \A p \in Pools : Alive(p) => Registered(p)

\* A holder of the mutex has left nothing behind it that was dead when it came.
PruneInv ==
  /\ \A p \in doomed : phase[p] = "gone"
  /\ \A i \in 1 .. Len(registry) : (lock = Nobody \/ i < at) => registry[i] \notin doomed
  /\ \A s \in Scrapers : pc[s] = "read" =>
       at <= Len(registry) /\ registry[at] \notin doomed

\* The pools whose counter c scraper s has already added up under the mutex.
Walked(s, c) ==
  IF pc[s] \in {"walk", "read"}
  THEN {registry[i] : i \in {j \in 1 .. Len(registry) :
                               j < at \/ (j = at /\ pc[s] = "read" /\ c < col[s])}}
  ELSE {}
ReadsRetired(s, c) ==
  pc[s] \in {"lock", "walk", "read"} \/ (pc[s] = "retired" /\ c < col[s])
Ahead(s, c) == Total(Share(c), Pools \ Walked(s, c))

TotalInv == \A c \in Counters : noted[c] = retired[c] + Total(Share(c), Pools)

\* What a scrape has, with all that is still ahead of it, is no more than there
\* is; and, if no pool is dropping, no less than there was when it began.
Scraped(s, c) ==
  /\ pc[s] \in {"lock", "walk"} => col[s] = 1
  /\ pc[s] = "retired" /\ c >= col[s] => sum[s][c] = 0
  /\ ReadsRetired(s, c) => sum[s][c] + Ahead(s, c) <= noted[c]
  /\ pc[s] \in {"idle", "done"} => sum[s][c] <= noted[c]
  /\ hist[s].noted[c] <= noted[c]
  /\ hist[s].calm /\ ReadsRetired(s, c) => sum[s][c] + Ahead(s, c) >= hist[s].noted[c]
  /\ hist[s].calm /\ pc[s] = "done" => sum[s][c] >= hist[s].noted[c]
ScrapeInv == \A s \in Scrapers : \A c \in Counters : Scraped(s, c)

CalmInv ==
  \A s \in Scrapers : hist[s].calm => \A p \in Pools : phase[p] \notin {"swap", "add"}

\* Whoever is in a section under the registry mutex is the one it names.
MutexHeld ==
  /\ \A p \in Pools : phase[p] = "joining" <=> lock = p
  /\ \A s \in Scrapers : pc[s] \in {"walk", "read"} <=> lock = s

MetricsInv ==
  /\ MetricsTypeOK /\ HistoryType /\ MutexHeld
  /\ BlockInv /\ RegistryInv /\ PruneInv
  /\ TotalInv /\ ScrapeInv /\ CalmInv

-----------------------------------------------------------------------------
(* Types, and the mutex. *)

\* What remains of the registry when retain drops an entry: the others, in order.
LEMMA RemoveAtProperties ==
  ASSUME NEW S, NEW q \in Seq(S), NEW i \in 1 .. Len(q)
  PROVE  /\ RemoveAt(q, i) \in Seq(S)
         /\ Len(RemoveAt(q, i)) = Len(q) - 1
         /\ \A j \in 1 .. Len(q) - 1 :
              RemoveAt(q, i)[j] = IF j < i THEN q[j] ELSE q[j + 1]
<1> DEFINE a == SubSeq(q, 1, i - 1)
           b == SubSeq(q, i + 1, Len(q))
<1>0. Len(q) \in Nat /\ i \in Nat /\ i - 1 \in Nat
  BY LenProperties
<1>1. a \in Seq(S) /\ Len(a) = i - 1 /\ \A j \in 1 .. i - 1 : a[j] = q[j]
  BY <1>0, SubSeqProperties
<1>2. b \in Seq(S) /\ Len(b) = Len(q) - i
                   /\ \A j \in 1 .. Len(q) - i : b[j] = q[j + i]
  BY <1>0, SubSeqProperties
<1>3. RemoveAt(q, i) = a \o b
  BY DEF RemoveAt
<1> HIDE DEF a, b
<1>4. /\ a \o b \in Seq(S)
      /\ Len(a \o b) = Len(a) + Len(b)
      /\ \A j \in 1 .. Len(a) + Len(b) :
            (a \o b)[j] = IF j <= Len(a) THEN a[j] ELSE b[j - Len(a)]
  BY <1>1, <1>2, ConcatProperties
<1> QED
  BY <1>0, <1>1, <1>2, <1>3, <1>4

LEMMA CountersType == Counters \subseteq Nat /\ 1 \in Counters /\ NCounters \in Counters
  BY MetricsAssumption DEF Counters

LEMMA TypeInit == Init => MetricsTypeOK /\ HistoryType /\ MutexHeld
<1>1. Zero \in [Counters -> Nat]
  BY DEF Zero
<1>2. 1 \in Counters /\ 1 \in 1 .. NCounters + 1
  BY MetricsAssumption DEF Counters
<1> QED
  BY <1>1, <1>2, MetricsAssumption DEF Init, MetricsTypeOK, MutexHeld, HistoryType

\* A prune leaves the registry a sequence and the holder inside it.
LEMMA PruneType ==
  ASSUME MetricsTypeOK, at <= Len(registry), Prune
  PROVE  registry' \in Seq(Pools) /\ at' \in 1 .. Len(registry') + 1
<1>1. registry \in Seq(Pools) /\ at \in 1 .. Len(registry)
  BY DEF MetricsTypeOK
<1>2. registry' \in Seq(Pools) /\ Len(registry') = Len(registry) - 1
  BY <1>1, RemoveAtProperties DEF Prune
<1> QED
  BY <1>1, <1>2 DEF Prune

LEMMA MutexStep ==
  MetricsTypeOK /\ MutexHeld /\ [Next]_vars => MutexHeld'
<1> SUFFICES ASSUME MetricsTypeOK, MutexHeld, [Next]_vars PROVE MutexHeld'
  OBVIOUS
<1>0. /\ phase \in [Pools -> {"unborn", "joining", "live", "swap", "add", "gone"}]
      /\ pc \in [Scrapers -> {"idle", "retired", "lock", "walk", "read", "done"}]
  BY DEF MetricsTypeOK
<1> USE <1>0, MetricsAssumption DEF MutexHeld
<1>1. ASSUME NEW p \in Pools, Enter(p) PROVE MutexHeld'
  BY <1>1 DEF Enter, Acquire, scrapeVars
<1>2. ASSUME NEW p \in Pools, Sweep(p) PROVE MutexHeld'
  BY <1>2 DEF Sweep, Prune, scrapeVars, blockVars
<1>3. ASSUME NEW p \in Pools, Join(p) PROVE MutexHeld'
  BY <1>3 DEF Join, scrapeVars
<1>4. ASSUME NEW p \in Pools, Drop(p) \/ Swap(p) \/ Add(p) \/ Free(p) PROVE MutexHeld'
  BY <1>4 DEF Drop, Swap, Add, Free, scrapeVars, registryVars
<1>5. ASSUME NEW s \in Scrapers, Start(s) PROVE MutexHeld'
  BY <1>5 DEF Start, blockVars, registryVars
<1>6. ASSUME NEW s \in Scrapers, ReadRetired(s) PROVE MutexHeld'
  BY <1>6 DEF ReadRetired, Load, blockVars, registryVars
<1>7. ASSUME NEW s \in Scrapers, Lock(s) PROVE MutexHeld'
  BY <1>7 DEF Lock, Acquire, blockVars
<1>8. ASSUME NEW s \in Scrapers, Upgrade(s) PROVE MutexHeld'
  BY <1>8 DEF Upgrade, Prune, blockVars, registryVars
<1>9. ASSUME NEW s \in Scrapers, ReadLive(s) PROVE MutexHeld'
  BY <1>9 DEF ReadLive, Load, blockVars
<1>10. ASSUME NEW s \in Scrapers, Unlock(s) PROVE MutexHeld'
  BY <1>10 DEF Unlock, blockVars
<1>11. CASE UNCHANGED vars \/ \E p \in Pools, c \in Counters : Note(p, c)
  BY <1>11 DEF vars, Note, blockVars, registryVars, scrapeVars
<1> QED
  BY <1>1, <1>2, <1>3, <1>4, <1>5, <1>6, <1>7, <1>8, <1>9, <1>10, <1>11 DEF Next

\* One cell of a table is written.
LEMMA CellWritten ==
  ASSUME NEW A, NEW B, NEW V, NEW f \in [A -> [B -> V]], NEW a \in A, NEW b \in B,
         NEW v \in V, NEW g, g = [f EXCEPT ![a][b] = v]
  PROVE  /\ g \in [A -> [B -> V]]
         /\ g[a][b] = v
         /\ \A x \in A : x # a => g[x] = f[x]
         /\ \A y \in B : y # b => g[a][y] = f[a][y]
<1>1. [f[a] EXCEPT ![b] = v] \in [B -> V]
  OBVIOUS
<1>2. g = [f EXCEPT ![a] = [f[a] EXCEPT ![b] = v]]
  OBVIOUS
<1> QED
  BY <1>1, <1>2

\* One counter is loaded.
LEMMA Loaded ==
  ASSUME MetricsTypeOK, NEW s \in Scrapers, NEW b \in [Counters -> Nat], NEW next,
         Load(s, b, next)
  PROVE  /\ sum' \in [Scrapers -> [Counters -> Nat]]
         /\ sum'[s][col[s]] = sum[s][col[s]] + b[col[s]]
         /\ \A r \in Scrapers : r # s => sum'[r] = sum[r]
         /\ \A c \in Counters : c # col[s] => sum'[s][c] = sum[s][c]
         /\ col' \in [Scrapers -> Counters]
         /\ col'[s] = IF col[s] < NCounters THEN col[s] + 1 ELSE 1
         /\ \A r \in Scrapers : r # s => col'[r] = col[r] /\ pc'[r] = pc[r]
         /\ pc'[s] = IF col[s] < NCounters THEN pc[s] ELSE next
<1>1. /\ sum \in [Scrapers -> [Counters -> Nat]] /\ col \in [Scrapers -> Counters]
      /\ pc \in [Scrapers -> {"idle", "retired", "lock", "walk", "read", "done"}]
  BY DEF MetricsTypeOK
<1>2. col[s] \in Counters /\ sum[s][col[s]] + b[col[s]] \in Nat
  BY <1>1
<1>3. sum' = [sum EXCEPT ![s][col[s]] = sum[s][col[s]] + b[col[s]]]
  BY DEF Load
<1>4. /\ sum' \in [Scrapers -> [Counters -> Nat]]
      /\ sum'[s][col[s]] = sum[s][col[s]] + b[col[s]]
      /\ \A r \in Scrapers : r # s => sum'[r] = sum[r]
      /\ \A c \in Counters : c # col[s] => sum'[s][c] = sum[s][c]
  BY <1>1, <1>2, <1>3, CellWritten
<1>5. (IF col[s] < NCounters THEN col[s] + 1 ELSE 1) \in Counters
  BY <1>2, MetricsAssumption DEF Counters
<1>6. col' = [col EXCEPT ![s] = IF col[s] < NCounters THEN col[s] + 1 ELSE 1]
  BY DEF Load
<1> QED
  BY <1>1, <1>4, <1>5, <1>6 DEF Load

LEMMA TypeStep ==
  MetricsTypeOK /\ HistoryType /\ BlockInv /\ PruneInv /\ [Next]_vars
    => MetricsTypeOK' /\ HistoryType'
<1> SUFFICES ASSUME MetricsTypeOK, HistoryType, BlockInv, PruneInv, [Next]_vars
             PROVE  MetricsTypeOK' /\ HistoryType'
  OBVIOUS
<1> USE MetricsAssumption, CountersType
<1>0. Len(registry) \in Nat /\ at \in Nat \ {0}
  BY LenProperties DEF MetricsTypeOK
<1>1. ASSUME NEW p \in Pools, Enter(p) PROVE MetricsTypeOK' /\ HistoryType'
  <2>1. at' \in 1 .. Len(registry') + 1
    BY <1>0, <1>1 DEF Enter, Acquire
  <2> QED
    BY <1>1, <2>1 DEF Enter, Acquire, MetricsTypeOK, HistoryType, scrapeVars
<1>2. ASSUME NEW p \in Pools, Sweep(p) PROVE MetricsTypeOK' /\ HistoryType'
  <2>1. CASE Prune
    <3>1. registry' \in Seq(Pools) /\ at' \in 1 .. Len(registry') + 1
      BY <1>2, <2>1, PruneType DEF Sweep
    <3> QED
      BY <1>2, <2>1, <3>1
      DEF Sweep, Prune, MetricsTypeOK, HistoryType, scrapeVars, blockVars
  <2>2. CASE at' = at + 1 /\ UNCHANGED <<registry, lock, doomed>>
    <3>1. at' \in 1 .. Len(registry') + 1
      BY <1>0, <1>2, <2>2 DEF Sweep
    <3> QED
      BY <1>2, <2>2, <3>1 DEF Sweep, MetricsTypeOK, HistoryType, scrapeVars, blockVars
  <2> QED
    BY <1>2, <2>1, <2>2 DEF Sweep
<1>3. ASSUME NEW p \in Pools, Join(p) PROVE MetricsTypeOK' /\ HistoryType'
  <2>1. registry' \in Seq(Pools) /\ at' \in 1 .. Len(registry') + 1
    BY <1>3, AppendProperties DEF Join, MetricsTypeOK
  <2> QED
    BY <1>3, <2>1 DEF Join, MetricsTypeOK, HistoryType, scrapeVars
<1>4. ASSUME NEW p \in Pools, NEW c \in Counters, Note(p, c)
      PROVE  MetricsTypeOK' /\ HistoryType'
  <2>1. block \in [Pools -> [Counters -> Nat]] /\ block[p][c] \in Nat
    BY DEF MetricsTypeOK
  <2>2. block' \in [Pools -> [Counters -> Nat]]
    BY <1>4, <2>1, CellWritten DEF Note
  <2>3. noted \in [Counters -> Nat]
    BY DEF MetricsTypeOK
  <2>4. noted' \in [Counters -> Nat]
    BY <1>4, <2>3 DEF Note
  <2> QED
    BY <1>4, <2>2, <2>4 DEF Note, MetricsTypeOK, HistoryType, scrapeVars, registryVars
<1>5. ASSUME NEW p \in Pools, Drop(p) PROVE MetricsTypeOK' /\ HistoryType'
  BY <1>5 DEF Drop, MetricsTypeOK, HistoryType, scrapeVars, registryVars
<1>6. ASSUME NEW p \in Pools, Swap(p) PROVE MetricsTypeOK' /\ HistoryType'
  <2>1. block \in [Pools -> [Counters -> Nat]] /\ block[p][step[p]] \in Nat
    BY <1>6 DEF Swap, MetricsTypeOK
  <2>2. block' \in [Pools -> [Counters -> Nat]]
    BY <1>6, <2>1, CellWritten DEF Swap
  <2> QED
    BY <1>6, <2>1, <2>2 DEF Swap, MetricsTypeOK, HistoryType, scrapeVars, registryVars
<1>7. ASSUME NEW p \in Pools, Add(p) PROVE MetricsTypeOK' /\ HistoryType'
  <2>1. step[p] \in Counters
    BY <1>7 DEF Add, BlockInv
  <2>2. step[p] + 1 \in 1 .. NCounters + 1
    BY <2>1 DEF Counters
  <2>3. retired \in [Counters -> Nat] /\ carry \in [Pools -> Nat]
        /\ step \in [Pools -> 1 .. NCounters + 1]
    BY DEF MetricsTypeOK
  <2>4. retired[step[p]] + carry[p] \in Nat
    BY <2>1, <2>3
  <2>5. retired' \in [Counters -> Nat] /\ carry' \in [Pools -> Nat]
        /\ step' \in [Pools -> 1 .. NCounters + 1]
    BY <1>7, <2>1, <2>2, <2>3, <2>4 DEF Add
  <2> QED
    BY <1>7, <2>5 DEF Add, MetricsTypeOK, HistoryType, scrapeVars, registryVars
<1>8. ASSUME NEW p \in Pools, Free(p) PROVE MetricsTypeOK' /\ HistoryType'
  BY <1>8 DEF Free, MetricsTypeOK, HistoryType, scrapeVars, registryVars
<1>9. ASSUME NEW s \in Scrapers, Start(s) PROVE MetricsTypeOK' /\ HistoryType'
  BY <1>9 DEF Start, Zero, MetricsTypeOK, HistoryType, blockVars, registryVars
<1>10. ASSUME NEW s \in Scrapers, ReadRetired(s) PROVE MetricsTypeOK' /\ HistoryType'
  <2>1. retired \in [Counters -> Nat]
    BY DEF MetricsTypeOK
  <2>2. sum' \in [Scrapers -> [Counters -> Nat]] /\ col' \in [Scrapers -> Counters]
    BY <1>10, <2>1, Loaded DEF ReadRetired
  <2> QED
    BY <1>10, <2>2
    DEF ReadRetired, Load, MetricsTypeOK, HistoryType, blockVars, registryVars
<1>11. ASSUME NEW s \in Scrapers, Lock(s) PROVE MetricsTypeOK' /\ HistoryType'
  <2>1. at' \in 1 .. Len(registry') + 1
    BY <1>0, <1>11 DEF Lock, Acquire
  <2> QED
    BY <1>11, <2>1 DEF Lock, Acquire, MetricsTypeOK, HistoryType, blockVars
<1>12. ASSUME NEW s \in Scrapers, Upgrade(s) PROVE MetricsTypeOK' /\ HistoryType'
  <2>1. CASE Prune /\ UNCHANGED pc
    <3>1. registry' \in Seq(Pools) /\ at' \in 1 .. Len(registry') + 1
      BY <1>12, <2>1, PruneType DEF Upgrade
    <3> QED
      BY <1>12, <2>1, <3>1 DEF Upgrade, Prune, MetricsTypeOK, HistoryType, blockVars
  <2>2. CASE pc' = [pc EXCEPT ![s] = "read"] /\ UNCHANGED registryVars
    BY <1>12, <2>2 DEF Upgrade, MetricsTypeOK, HistoryType, blockVars, registryVars
  <2> QED
    BY <1>12, <2>1, <2>2 DEF Upgrade
<1>13. ASSUME NEW s \in Scrapers, ReadLive(s) PROVE MetricsTypeOK' /\ HistoryType'
  <2>1. at <= Len(registry) /\ registry[at] \in Pools
    BY <1>0, <1>13, ElementOfSeq DEF ReadLive, PruneInv, MetricsTypeOK
  <2>2. block[registry[at]] \in [Counters -> Nat]
    BY <2>1 DEF MetricsTypeOK
  <2>3. sum' \in [Scrapers -> [Counters -> Nat]] /\ col' \in [Scrapers -> Counters]
    BY <1>13, <2>2, Loaded DEF ReadLive
  <2>4. at' \in 1 .. Len(registry') + 1
    BY <1>0, <1>13, <2>1 DEF ReadLive
  <2> QED
    BY <1>13, <2>3, <2>4 DEF ReadLive, Load, MetricsTypeOK, HistoryType, blockVars
<1>14. ASSUME NEW s \in Scrapers, Unlock(s) PROVE MetricsTypeOK' /\ HistoryType'
  BY <1>14 DEF Unlock, MetricsTypeOK, HistoryType, blockVars
<1>15. CASE UNCHANGED vars
  BY <1>15 DEF vars, blockVars, registryVars, scrapeVars, MetricsTypeOK, HistoryType
<1> QED
  BY <1>1, <1>2, <1>3, <1>4, <1>5, <1>6, <1>7, <1>8, <1>9, <1>10, <1>11, <1>12,
     <1>13, <1>14, <1>15 DEF Next

-----------------------------------------------------------------------------
(* Blocks and the registry. *)

LEMMA BlockStep ==
  MetricsTypeOK /\ MutexHeld /\ BlockInv /\ [Next]_vars => BlockInv'
<1> SUFFICES ASSUME MetricsTypeOK, MutexHeld, BlockInv, [Next]_vars PROVE BlockInv'
  OBVIOUS
<1>0. /\ phase \in [Pools -> {"unborn", "joining", "live", "swap", "add", "gone"}]
      /\ block \in [Pools -> [Counters -> Nat]]
      /\ step \in [Pools -> 1 .. NCounters + 1]
      /\ carry \in [Pools -> Nat]
  BY DEF MetricsTypeOK
<1>1. ASSUME NEW p \in Pools, Enter(p) \/ Join(p) \/ Drop(p) PROVE BlockInv'
  <2>1. /\ phase[p] \in {"unborn", "joining", "live"}
        /\ phase' = [phase EXCEPT ![p] = phase'[p]]
        /\ phase'[p] = IF phase[p] = "unborn" THEN "joining"
                       ELSE IF phase[p] = "joining" THEN "live" ELSE "swap"
        /\ UNCHANGED <<block, step, carry>>
    BY <1>0, <1>1 DEF Enter, Join, Drop, MutexHeld
  <2>2. \A q \in Pools : q # p => phase'[q] = phase[q]
    BY <1>0, <2>1
  <2>3. phase'[p] = "swap" => \A c \in Counters : ~(c < step[p])
    BY <2>1 DEF BlockInv, Counters
  <2> QED
    BY <2>1, <2>2, <2>3 DEF BlockInv
<1>2. ASSUME NEW p \in Pools, NEW c \in Counters, Note(p, c) PROVE BlockInv'
  <2>1. \A q \in Pools : q # p => block'[q] = block[q]
    BY <1>0, <1>2 DEF Note
  <2> QED
    BY <1>0, <1>2, <2>1 DEF Note, BlockInv
<1>3. ASSUME NEW p \in Pools, Swap(p) PROVE BlockInv'
  <2>1. /\ block'[p][step[p]] = 0
        /\ \A q \in Pools : q # p => block'[q] = block[q]
        /\ \A c \in Counters : c # step[p] => block'[p][c] = block[p][c]
    BY <1>0, <1>3, CellWritten DEF Swap
  <2>2. /\ phase'[p] = "add" /\ step' = step
        /\ \A q \in Pools : q # p => phase'[q] = phase[q] /\ carry'[q] = carry[q]
    BY <1>0, <1>3 DEF Swap
  <2>3. \A c \in Counters : c < step[p] => block'[p][c] = 0
    BY <1>0, <1>3, <2>1 DEF Swap, BlockInv, Counters
  <2> QED
    BY <1>3, <2>1, <2>2, <2>3 DEF Swap, BlockInv
<1>4. ASSUME NEW p \in Pools, Add(p) PROVE BlockInv'
  <2>1. /\ phase'[p] = "swap" /\ step'[p] = step[p] + 1 /\ carry'[p] = 0 /\ block' = block
        /\ \A q \in Pools : q # p =>
             phase'[q] = phase[q] /\ carry'[q] = carry[q] /\ step'[q] = step[q]
    BY <1>0, <1>4 DEF Add
  <2>2. \A c \in Counters : c < step[p] + 1 => block[p][c] = 0
    BY <1>0, <1>4 DEF Add, BlockInv, Counters
  <2> QED
    BY <2>1, <2>2 DEF BlockInv
<1>5. ASSUME NEW p \in Pools, Free(p) PROVE BlockInv'
  <2>1. \A c \in Counters : block[p][c] = 0
    BY <1>0, <1>5, MetricsAssumption DEF Free, BlockInv, Counters
  <2> QED
    BY <1>0, <1>5, <2>1 DEF Free, BlockInv
<1>6. CASE UNCHANGED blockVars
  BY <1>6 DEF blockVars, BlockInv
<1> QED
  <2>1. ASSUME NEW p \in Pools, Sweep(p) PROVE BlockInv'
    BY <1>6, <2>1 DEF Sweep
  <2>2. ASSUME NEW s \in Scrapers,
               Start(s) \/ ReadRetired(s) \/ Lock(s) \/ Upgrade(s) \/ ReadLive(s) \/ Unlock(s)
        PROVE  BlockInv'
    BY <1>6, <2>2 DEF Start, ReadRetired, Lock, Upgrade, ReadLive, Unlock
  <2> QED
    BY <1>1, <1>2, <1>3, <1>4, <1>5, <1>6, <2>1, <2>2 DEF Next, vars

\* A prune: the entries before the holder stay where they are, the others keep
\* their order, and only the dead one is gone.
LEMMA Pruned ==
  ASSUME MetricsTypeOK, RegistryInv, at <= Len(registry), Prune
  PROVE  /\ Len(registry') = Len(registry) - 1
         /\ at \in 1 .. Len(registry)
         /\ \A j \in 1 .. Len(registry) - 1 :
              registry'[j] = IF j < at THEN registry[j] ELSE registry[j + 1]
         /\ \A p \in Pools : Registered(p) /\ p # registry[at] => Registered(p)'
<1>1. registry \in Seq(Pools) /\ at \in 1 .. Len(registry) /\ Len(registry) \in Nat
  BY LenProperties DEF MetricsTypeOK
<1>2. /\ Len(registry') = Len(registry) - 1
      /\ \A j \in 1 .. Len(registry) - 1 :
           registry'[j] = IF j < at THEN registry[j] ELSE registry[j + 1]
  BY <1>1, RemoveAtProperties DEF Prune
<1>3. ASSUME NEW p \in Pools, Registered(p), p # registry[at] PROVE Registered(p)'
  <2>1. PICK i \in 1 .. Len(registry) : registry[i] = p
    BY <1>3 DEF Registered
  <2>2. CASE i < at
    BY <1>1, <1>2, <2>1, <2>2 DEF Registered
  <2>3. CASE i > at
    <3>1. i - 1 \in 1 .. Len(registry) - 1 /\ ~(i - 1 < at) /\ (i - 1) + 1 = i
      BY <1>1, <2>1, <2>3
    <3> QED
      BY <1>2, <2>1, <3>1 DEF Registered
  <2> QED
    BY <1>1, <1>3, <2>1, <2>2, <2>3
<1> QED
  BY <1>1, <1>2, <1>3

LEMMA RegistryStep ==
  MetricsTypeOK /\ MutexHeld /\ RegistryInv /\ [Next]_vars => RegistryInv'
<1> SUFFICES ASSUME MetricsTypeOK, MutexHeld, RegistryInv, [Next]_vars
             PROVE  RegistryInv'
  OBVIOUS
<1>0. /\ phase \in [Pools -> {"unborn", "joining", "live", "swap", "add", "gone"}]
      /\ registry \in Seq(Pools) /\ Len(registry) \in Nat
      /\ \A i \in 1 .. Len(registry) : registry[i] \in Pools
  BY LenProperties, ElementOfSeq DEF MetricsTypeOK
<1>1. ASSUME NEW p \in Pools, Enter(p) PROVE RegistryInv'
  BY <1>0, <1>1 DEF Enter, Acquire, RegistryInv, Registered, Alive
<1>2. ASSUME Prune, at <= Len(registry), phase' = phase PROVE RegistryInv'
  <2>1. \A i, j \in 1 .. Len(registry') : registry'[i] = registry'[j] => i = j
    <3> TAKE i, j \in 1 .. Len(registry')
    <3> DEFINE Was(k) == IF k < at THEN k ELSE k + 1
    <3>1. /\ Len(registry') = Len(registry) - 1 /\ at \in 1 .. Len(registry)
          /\ registry'[i] = IF i < at THEN registry[i] ELSE registry[i + 1]
          /\ registry'[j] = IF j < at THEN registry[j] ELSE registry[j + 1]
      BY <1>2, Pruned
    <3>2. /\ Was(i) \in 1 .. Len(registry) /\ registry'[i] = registry[Was(i)]
          /\ Was(j) \in 1 .. Len(registry) /\ registry'[j] = registry[Was(j)]
          /\ Was(i) = Was(j) => i = j
      BY <1>0, <3>1
    <3> HIDE DEF Was
    <3> QED
      BY <3>2 DEF RegistryInv
  <2>2. \A i \in 1 .. Len(registry') : phase'[registry'[i]] \notin {"unborn", "joining"}
    BY <1>0, <1>2, Pruned DEF RegistryInv
  <2>3. \A p \in Pools : Alive(p)' => Registered(p)'
    BY <1>2, Pruned DEF RegistryInv, Alive, Prune
  <2> QED
    BY <2>1, <2>2, <2>3 DEF RegistryInv
<1>3. ASSUME NEW p \in Pools, Join(p) PROVE RegistryInv'
  <2>1. /\ Len(registry') = Len(registry) + 1
        /\ \A i \in 1 .. Len(registry) : registry'[i] = registry[i]
        /\ registry'[Len(registry) + 1] = p
    BY <1>0, <1>3, AppendProperties DEF Join
  <2>2. /\ phase[p] = "joining" /\ phase'[p] = "live"
        /\ \A q \in Pools : q # p => phase'[q] = phase[q]
    BY <1>0, <1>3 DEF Join, MutexHeld
  <2>3. \A i \in 1 .. Len(registry) : registry[i] # p
    BY <2>2 DEF RegistryInv
  <2>4. \A i, j \in 1 .. Len(registry') : registry'[i] = registry'[j] => i = j
    BY <1>0, <2>1, <2>3 DEF RegistryInv
  <2>5. \A i \in 1 .. Len(registry') : phase'[registry'[i]] \notin {"unborn", "joining"}
    BY <1>0, <2>1, <2>2, <2>3 DEF RegistryInv
  <2>6. \A q \in Pools : Alive(q)' => Registered(q)'
    BY <1>0, <2>1, <2>2 DEF RegistryInv, Registered, Alive
  <2> QED
    BY <2>4, <2>5, <2>6 DEF RegistryInv
<1>4. ASSUME NEW p \in Pools, Drop(p) \/ Swap(p) \/ Add(p) \/ Free(p) PROVE RegistryInv'
  BY <1>0, <1>4 DEF Drop, Swap, Add, Free, RegistryInv, Registered, Alive, registryVars
<1>5. CASE UNCHANGED <<phase, registry>>
  BY <1>5 DEF RegistryInv, Registered, Alive
<1>6. ASSUME NEW p \in Pools, Sweep(p) PROVE RegistryInv'
  BY <1>2, <1>5, <1>6 DEF Sweep, blockVars
<1>7. ASSUME NEW s \in Scrapers,
             Start(s) \/ ReadRetired(s) \/ Lock(s) \/ Upgrade(s) \/ ReadLive(s) \/ Unlock(s)
      PROVE  RegistryInv'
  BY <1>2, <1>5, <1>7
  DEF Start, ReadRetired, Lock, Acquire, Upgrade, ReadLive, Unlock, blockVars, registryVars
<1>8. ASSUME NEW p \in Pools, NEW c \in Counters, Note(p, c) PROVE RegistryInv'
  BY <1>5, <1>8 DEF Note, registryVars
<1> QED
  BY <1>1, <1>3, <1>4, <1>5, <1>6, <1>7, <1>8 DEF Next, vars, blockVars, registryVars

LEMMA PruneStep ==
  /\ MetricsTypeOK /\ MutexHeld /\ RegistryInv /\ PruneInv /\ [Next]_vars
  => PruneInv'
<1> SUFFICES ASSUME MetricsTypeOK, MutexHeld, RegistryInv, PruneInv, [Next]_vars
             PROVE  PruneInv'
  OBVIOUS
<1>0. /\ phase \in [Pools -> {"unborn", "joining", "live", "swap", "add", "gone"}]
      /\ pc \in [Scrapers -> {"idle", "retired", "lock", "walk", "read", "done"}]
      /\ registry \in Seq(Pools) /\ Len(registry) \in Nat /\ at \in 1 .. Len(registry) + 1
      /\ \A i \in 1 .. Len(registry) : registry[i] \in Pools
      /\ doomed \subseteq Pools
  BY LenProperties, ElementOfSeq DEF MetricsTypeOK
<1> USE MetricsAssumption
<1>1. ASSUME NEW a \in Pools \cup Scrapers, Acquire(a, 1),
             \A p \in Pools : phase[p] = "gone" => phase'[p] = "gone",
             \A s \in Scrapers : pc'[s] # "read"
      PROVE  PruneInv'
  BY <1>0, <1>1 DEF Acquire, PruneInv
<1>2. ASSUME Prune, lock # Nobody, at <= Len(registry), phase' = phase,
             \A s \in Scrapers : pc'[s] # "read"
      PROVE  PruneInv'
  <2>1. \A i \in 1 .. Len(registry') : i < at => registry'[i] \notin doomed
    BY <1>0, <1>2, Pruned DEF PruneInv
  <2> QED
    BY <1>2, <2>1 DEF PruneInv, Prune
<1>3. ASSUME NEW p \in Pools, Sweep(p) PROVE PruneInv'
  <2>1. \A s \in Scrapers : pc'[s] # "read"
    BY <1>3 DEF Sweep, scrapeVars, MutexHeld
  <2>2. CASE Prune
    BY <1>2, <1>3, <2>1, <2>2 DEF Sweep, blockVars
  <2>3. CASE Alive(registry[at]) /\ at' = at + 1 /\ UNCHANGED <<registry, lock, doomed>>
    <3>1. registry[at] \notin doomed
      BY <2>3 DEF PruneInv, Alive
    <3> QED
      BY <1>0, <1>3, <2>1, <2>3, <3>1 DEF Sweep, PruneInv, blockVars
  <2> QED
    BY <1>3, <2>2, <2>3 DEF Sweep
<1>4. ASSUME NEW p \in Pools, Join(p) PROVE PruneInv'
  <2>1. /\ Len(registry') = Len(registry) + 1
        /\ \A i \in 1 .. Len(registry) : registry'[i] = registry[i]
        /\ registry'[Len(registry) + 1] = p
    BY <1>0, <1>4, AppendProperties DEF Join
  <2>2. phase[p] = "joining" /\ p \notin doomed
    BY <1>4 DEF Join, MutexHeld, PruneInv
  <2>3. \A s \in Scrapers : pc[s] # "read" /\ pc'[s] = pc[s]
    BY <1>4 DEF Join, MutexHeld, scrapeVars
  <2>4. \A i \in 1 .. Len(registry') : registry'[i] \notin doomed
    BY <1>0, <1>4, <2>1, <2>2 DEF Join, PruneInv
  <2>5. \A q \in doomed : phase'[q] = "gone"
    BY <1>0, <1>4, <2>2 DEF Join, PruneInv
  <2> QED
    BY <1>4, <2>3, <2>4, <2>5 DEF Join, PruneInv
<1>5. ASSUME NEW s \in Scrapers, Upgrade(s) PROVE PruneInv'
  <2>1. lock = s /\ \A r \in Scrapers : r # s => pc[r] # "read"
    BY <1>0, <1>5 DEF Upgrade, MutexHeld
  <2>2. CASE Prune /\ UNCHANGED pc
    <3>1. \A r \in Scrapers : pc'[r] # "read"
      BY <1>5, <2>1, <2>2 DEF Upgrade
    <3> QED
      BY <1>2, <1>5, <2>1, <2>2, <3>1 DEF Upgrade, blockVars
  <2>3. CASE Alive(registry[at]) /\ pc' = [pc EXCEPT ![s] = "read"] /\ UNCHANGED registryVars
    <3>1. registry[at] \notin doomed
      BY <2>3 DEF PruneInv, Alive
    <3> QED
      BY <1>0, <1>5, <2>1, <2>3, <3>1 DEF Upgrade, PruneInv, blockVars, registryVars
  <2> QED
    BY <1>5, <2>2, <2>3 DEF Upgrade
<1>6. ASSUME NEW s \in Scrapers, ReadLive(s) PROVE PruneInv'
  <2>1. lock = s /\ \A r \in Scrapers : r # s => pc[r] # "read"
    BY <1>0, <1>6 DEF ReadLive, MutexHeld
  <2>2. at <= Len(registry) /\ registry[at] \notin doomed
    BY <1>6 DEF ReadLive, PruneInv
  <2>3. /\ \A r \in Scrapers : r # s => pc'[r] = pc[r]
        /\ col[s] = NCounters => pc'[s] = "walk"
        /\ at' = IF col[s] = NCounters THEN at + 1 ELSE at
    <3>0. at \in 1 .. Len(registry)
      <4>1. at \in 1 .. Len(registry) + 1
        BY DEF MetricsTypeOK
      <4> QED
        BY <1>0, <2>2, <4>1
    <3>a. registry[at] \in Pools
      BY <1>0, <3>0
    <3>1. col[s] \in Counters /\ block[registry[at]] \in [Counters -> Nat]
      BY <3>a DEF MetricsTypeOK
    <3>2. /\ \A r \in Scrapers : r # s => pc'[r] = pc[r]
          /\ pc'[s] = IF col[s] < NCounters THEN pc[s] ELSE "walk"
      BY <1>6, <3>1, Loaded DEF ReadLive
    <3>3. col[s] = NCounters => ~(col[s] < NCounters)
      OBVIOUS
    <3> QED
      BY <1>6, <3>2, <3>3 DEF ReadLive
  <2>4. \A i \in 1 .. Len(registry) : i < at' => registry[i] \notin doomed
    BY <1>0, <2>2, <2>3 DEF PruneInv
  <2>5. \A r \in Scrapers : pc'[r] = "read" => at' <= Len(registry) /\ registry[at'] \notin doomed
    BY <2>1, <2>2, <2>3
  <2> QED
    BY <1>6, <2>1, <2>4, <2>5 DEF ReadLive, PruneInv, blockVars
<1>7. ASSUME NEW s \in Scrapers, Unlock(s) PROVE PruneInv'
  BY <1>0, <1>7 DEF Unlock, PruneInv, MutexHeld, blockVars
<1>8. ASSUME NEW s \in Scrapers, Start(s) \/ ReadRetired(s) PROVE PruneInv'
  <2>1. \A r \in Scrapers : pc'[r] = "read" => pc[r] = "read"
    BY <1>0, <1>8 DEF Start, ReadRetired, Load
  <2> QED
    BY <1>8, <2>1 DEF Start, ReadRetired, PruneInv, blockVars, registryVars
<1>9. ASSUME NEW p \in Pools, Drop(p) \/ Swap(p) \/ Add(p) \/ Free(p) PROVE PruneInv'
  <2>1. \A q \in doomed : phase'[q] = "gone"
    BY <1>0, <1>9 DEF Drop, Swap, Add, Free, PruneInv
  <2> QED
    BY <1>9, <2>1 DEF Drop, Swap, Add, Free, PruneInv, registryVars, scrapeVars
<1>10. ASSUME NEW p \in Pools, Enter(p) PROVE PruneInv'
  <2>1. \A s \in Scrapers : pc'[s] # "read"
    BY <1>10 DEF Enter, Acquire, MutexHeld, scrapeVars
  <2>2. \A q \in Pools : phase[q] = "gone" => phase'[q] = "gone"
    BY <1>0, <1>10 DEF Enter
  <2> QED
    BY <1>1, <1>10, <2>1, <2>2 DEF Enter
<1>11. ASSUME NEW s \in Scrapers, Lock(s) PROVE PruneInv'
  <2>1. \A r \in Scrapers : pc'[r] # "read"
    BY <1>0, <1>11 DEF Lock, Acquire, MutexHeld
  <2> QED
    BY <1>1, <1>11, <2>1 DEF Lock, blockVars
<1>12. CASE UNCHANGED vars \/ \E p \in Pools, c \in Counters : Note(p, c)
  BY <1>12 DEF vars, Note, PruneInv, blockVars, registryVars, scrapeVars
<1> QED
  BY <1>3, <1>4, <1>5, <1>6, <1>7, <1>8, <1>9, <1>10, <1>11, <1>12 DEF Next

-----------------------------------------------------------------------------
(* Events: what a step does to the totals. *)

LEMMA ShareType ==
  ASSUME NEW c \in Counters
  PROVE  /\ MetricsTypeOK => Share(c) \in [Pools -> Nat]
         /\ MetricsTypeOK' => Share(c)' \in [Pools -> Nat]
<1>1. MetricsTypeOK => \A p \in Pools : block[p][c] \in Nat /\ carry[p] \in Nat
  BY DEF MetricsTypeOK
<1>2. MetricsTypeOK' => \A p \in Pools : block'[p][c] \in Nat /\ carry'[p] \in Nat
  BY DEF MetricsTypeOK
<1> QED
  BY <1>1, <1>2 DEF Share

\* Every step leaves the events where they are, notes one in a live block, or
\* moves what p carries to the retired block.
Quiet == UNCHANGED <<noted, retired>> /\ \A c \in Counters : Share(c)' = Share(c)
OnlyShare(p, c) ==
  /\ \A q \in Pools : q # p => Share(c)'[q] = Share(c)[q]
  /\ \A d \in Counters : d # c => Share(d)' = Share(d)
OneNoted(p, c) ==
  /\ OnlyShare(p, c)
  /\ Share(c)'[p] = Share(c)[p] + 1
  /\ noted'[c] = noted[c] + 1
  /\ \A d \in Counters : d # c => noted'[d] = noted[d]
  /\ retired' = retired
CarryAdded(p, c) ==
  /\ phase[p] = "add"
  /\ OnlyShare(p, c)
  /\ Share(c)'[p] <= Share(c)[p]
  /\ retired'[c] + Share(c)'[p] = retired[c] + Share(c)[p]
  /\ \A d \in Counters : d # c => retired'[d] = retired[d]
  /\ noted' = noted
EventMove ==
  \/ Quiet
  \/ \E p \in Pools, c \in Counters : OneNoted(p, c) \/ CarryAdded(p, c)

LEMMA EventMoves ==
  MetricsTypeOK /\ BlockInv /\ [Next]_vars => EventMove
<1> SUFFICES ASSUME MetricsTypeOK, BlockInv, [Next]_vars PROVE EventMove
  OBVIOUS
<1>0. /\ phase \in [Pools -> {"unborn", "joining", "live", "swap", "add", "gone"}]
      /\ block \in [Pools -> [Counters -> Nat]]
      /\ step \in [Pools -> 1 .. NCounters + 1]
      /\ carry \in [Pools -> Nat]
      /\ retired \in [Counters -> Nat] /\ noted \in [Counters -> Nat]
  BY DEF MetricsTypeOK
<1>1. CASE UNCHANGED <<block, step, carry, retired, noted>>
  BY <1>1 DEF EventMove, Quiet, Share
<1>2. ASSUME NEW p \in Pools, NEW c \in Counters, Note(p, c) PROVE EventMove
  <2>0. block[p][c] \in Nat /\ block[p][c] + 1 \in Nat
    BY <1>0
  <2>1. /\ block'[p][c] = block[p][c] + 1
        /\ \A q \in Pools : q # p => block'[q] = block[q]
        /\ \A d \in Counters : d # c => block'[p][d] = block[p][d]
    BY <1>0, <1>2, <2>0, CellWritten DEF Note
  <2>2. carry[p] = 0 /\ step' = step /\ carry' = carry /\ retired' = retired
    BY <1>2 DEF Note, BlockInv
  <2>3. Share(c)'[p] = Share(c)[p] + 1
    BY <2>0, <2>1, <2>2 DEF Share
  <2>4. OnlyShare(p, c)
    <3>1. \A q \in Pools : q # p => Share(c)'[q] = Share(c)[q]
      BY <2>1, <2>2 DEF Share
    <3>2. \A d \in Counters : d # c => Share(d)' = Share(d)
      BY <2>1, <2>2 DEF Share
    <3> QED
      BY <3>1, <3>2 DEF OnlyShare
  <2>5. noted'[c] = noted[c] + 1 /\ \A d \in Counters : d # c => noted'[d] = noted[d]
    BY <1>0, <1>2 DEF Note
  <2> QED
    BY <2>2, <2>3, <2>4, <2>5 DEF EventMove, OneNoted
<1>3. ASSUME NEW p \in Pools, Swap(p) PROVE EventMove
  <2>1. /\ block'[p][step[p]] = 0
        /\ \A q \in Pools : q # p => block'[q] = block[q]
        /\ \A c \in Counters : c # step[p] => block'[p][c] = block[p][c]
    BY <1>0, <1>3, CellWritten DEF Swap
  <2>2. /\ carry[p] = 0 /\ carry'[p] = block[p][step[p]] /\ step' = step
        /\ \A q \in Pools : q # p => carry'[q] = carry[q]
        /\ UNCHANGED <<noted, retired>>
    BY <1>0, <1>3 DEF Swap, BlockInv
  <2>3. \A c \in Counters, q \in Pools : Share(c)'[q] = Share(c)[q]
    <3> TAKE c \in Counters, q \in Pools
    <3>1. CASE q # p
      BY <2>1, <2>2, <3>1 DEF Share
    <3>2. CASE q = p /\ c = step[p]
      <4>1. block[p][c] \in Nat
        BY <1>0
      <4> QED
        BY <2>1, <2>2, <3>2, <4>1 DEF Share
    <3>3. CASE q = p /\ c # step[p]
      BY <2>1, <2>2, <3>3 DEF Share
    <3> QED
      BY <3>1, <3>2, <3>3
  <2>4. \A c \in Counters : Share(c)' = Share(c)
    BY <2>3 DEF Share
  <2> QED
    BY <2>2, <2>4 DEF EventMove, Quiet
<1>4. ASSUME NEW p \in Pools, Add(p) PROVE EventMove
  <2>0. PICK c \in Counters : c = step[p]
    BY <1>4 DEF Add, BlockInv
  <2>1. block[p][c] = 0 /\ phase[p] = "add"
    BY <1>4, <2>0 DEF Add, BlockInv
  <2>2. c \in Int /\ step'[p] # c
    BY <1>0, <1>4, <2>0 DEF Add, Counters
  <2>3. /\ carry'[p] = 0 /\ block' = block /\ noted' = noted
        /\ \A q \in Pools : q # p => carry'[q] = carry[q] /\ step'[q] = step[q]
        /\ retired'[c] = retired[c] + carry[p]
        /\ \A d \in Counters : d # c => retired'[d] = retired[d]
    BY <1>0, <1>4, <2>0 DEF Add
  <2>4. carry[p] \in Nat /\ retired[c] \in Nat
    BY <1>0
  <2>5. Share(c)[p] = carry[p] /\ Share(c)'[p] = 0
    <3>1. Share(c)[p] = block[p][c] + carry[p]
      BY <2>0 DEF Share
    <3>2. Share(c)'[p] = block'[p][c] + 0
      BY <2>2 DEF Share
    <3> QED
      BY <2>1, <2>3, <2>4, <3>1, <3>2
  <2>6. OnlyShare(p, c)
    <3>1. ASSUME NEW q \in Pools, q # p PROVE Share(c)'[q] = Share(c)[q]
      <4>1. block'[q][c] = block[q][c] /\ carry'[q] = carry[q] /\ step'[q] = step[q]
        BY <2>3, <3>1
      <4> QED
        BY <4>1 DEF Share
    <3>2. ASSUME NEW d \in Counters, d # c PROVE Share(d)' = Share(d)
      <4>1. Share(d)'[p] = Share(d)[p]
        <5>1. block[p][d] \in Nat
          BY <1>0
        <5> QED
          BY <2>0, <2>3, <3>2, <5>1 DEF Share
      <4>2. \A q \in Pools : q # p => Share(d)'[q] = Share(d)[q]
        BY <2>3 DEF Share
      <4> QED
        BY <4>1, <4>2 DEF Share
    <3> QED
      BY <3>1, <3>2 DEF OnlyShare
  <2>7. CarryAdded(p, c)
    BY <2>1, <2>3, <2>4, <2>5, <2>6 DEF CarryAdded
  <2> QED
    BY <2>1, <2>7 DEF EventMove
<1>5. ASSUME NEW p \in Pools, Enter(p) \/ Sweep(p) \/ Join(p) \/ Drop(p) \/ Free(p)
      PROVE  EventMove
  BY <1>1, <1>5 DEF Enter, Sweep, Join, Drop, Free, blockVars
<1>6. ASSUME NEW s \in Scrapers,
             Start(s) \/ ReadRetired(s) \/ Lock(s) \/ Upgrade(s) \/ ReadLive(s) \/ Unlock(s)
      PROVE  EventMove
  BY <1>1, <1>6 DEF Start, ReadRetired, Lock, Upgrade, ReadLive, Unlock, blockVars
<1>7. CASE UNCHANGED vars
  BY <1>1, <1>7 DEF vars, blockVars
<1> QED
  BY <1>2, <1>3, <1>4, <1>5, <1>6, <1>7 DEF Next

\* One pool's share changes, and the total of any set it is in with it.
LEMMA TotalChange ==
  ASSUME NEW S, IsFiniteSet(S), NEW f \in [S -> Nat], NEW g \in [S -> Nat],
         NEW p \in S, \A q \in S : q # p => g[q] = f[q], NEW T \in SUBSET S
  PROVE  /\ Total(f, T) \in Nat /\ Total(g, T) \in Nat
         /\ p \in T => Total(g, T) + f[p] = Total(f, T) + g[p]
         /\ p \notin T => Total(g, T) = Total(f, T)
<1>1. Total(f, T) \in Nat /\ Total(g, T) \in Nat
  BY TotalType
<1>2. ASSUME p \in T PROVE Total(g, T) + f[p] = Total(f, T) + g[p]
  <2>1. IsFiniteSet(T) /\ (\A q \in T : f[q] \in Nat) /\ (\A q \in T : g[q] \in Nat)
    BY FS_Subset
  <2>2. Total(f, T) = f[p] + Total(f, T \ {p})
    BY <1>2, <2>1, TotalSplit
  <2>3. Total(g, T) = g[p] + Total(g, T \ {p})
    BY <1>2, <2>1, TotalSplit
  <2>4. Total(f, T \ {p}) = Total(g, T \ {p})
    <3>1. \A q \in T \ {p} : f[q] = g[q]
      OBVIOUS
    <3> QED
      BY <3>1, TotalCongruent
  <2>5. Total(f, T \ {p}) \in Nat /\ f[p] \in Nat /\ g[p] \in Nat
    <3>1. T \ {p} \in SUBSET S
      OBVIOUS
    <3> QED
      BY <3>1, TotalType
  <2> QED
    BY <2>2, <2>3, <2>4, <2>5
<1>3. ASSUME p \notin T PROVE Total(g, T) = Total(f, T)
  <2>1. \A q \in T : g[q] = f[q]
    BY <1>3
  <2> QED
    BY <2>1, TotalCongruent
<1> QED
  BY <1>1, <1>2, <1>3

LEMMA TotalStep ==
  MetricsTypeOK /\ MetricsTypeOK' /\ TotalInv /\ EventMove => TotalInv'
<1> SUFFICES ASSUME MetricsTypeOK, MetricsTypeOK', TotalInv, EventMove,
                    NEW d \in Counters
             PROVE  noted'[d] = retired'[d] + Total(Share(d)', Pools)
  BY DEF TotalInv
<1>0. /\ noted[d] \in Nat /\ retired[d] \in Nat /\ retired'[d] \in Nat
      /\ Share(d) \in [Pools -> Nat] /\ Share(d)' \in [Pools -> Nat]
      /\ noted[d] = retired[d] + Total(Share(d), Pools)
  <2>1. noted[d] \in Nat /\ retired[d] \in Nat /\ retired'[d] \in Nat
    BY DEF MetricsTypeOK
  <2> QED
    BY <2>1, ShareType DEF TotalInv
<1>1. CASE Quiet
  BY <1>0, <1>1 DEF Quiet
<1>2. ASSUME NEW p \in Pools, NEW c \in Counters, OneNoted(p, c) \/ CarryAdded(p, c)
      PROVE  noted'[d] = retired'[d] + Total(Share(d)', Pools)
  <2>1. CASE d # c
    BY <1>0, <1>2, <2>1 DEF OneNoted, CarryAdded, OnlyShare
  <2>2. CASE d = c
    <3>1. \A q \in Pools : q # p => Share(d)'[q] = Share(d)[q]
      BY <1>2, <2>2 DEF OneNoted, CarryAdded, OnlyShare
    <3>2. /\ Total(Share(d), Pools) \in Nat /\ Total(Share(d)', Pools) \in Nat
          /\ Total(Share(d)', Pools) + Share(d)[p] = Total(Share(d), Pools) + Share(d)'[p]
      BY <1>0, <3>1, TotalChange, MetricsAssumption
    <3>3. Share(d)[p] \in Nat /\ Share(d)'[p] \in Nat
      BY <1>0
    <3> QED
      BY <1>0, <1>2, <2>2, <3>2, <3>3 DEF OneNoted, CarryAdded
  <2> QED
    BY <2>1, <2>2
<1> QED
  BY <1>1, <1>2 DEF EventMove

-----------------------------------------------------------------------------
(* Scrapes. *)

OwnStep(s) ==
  Start(s) \/ ReadRetired(s) \/ Lock(s) \/ Upgrade(s) \/ ReadLive(s) \/ Unlock(s)

\* A step of anyone else leaves a scraper, and what it has walked, alone.
Still(s) ==
  /\ pc'[s] = pc[s] /\ col'[s] = col[s] /\ sum'[s] = sum[s]
  /\ \A c \in Counters : Walked(s, c)' = Walked(s, c)

LEMMA OthersStill ==
  ASSUME MetricsTypeOK, MutexHeld, [Next]_vars, NEW s \in Scrapers, ~OwnStep(s)
  PROVE  Still(s)
<1>0. /\ pc \in [Scrapers -> {"idle", "retired", "lock", "walk", "read", "done"}]
      /\ col \in [Scrapers -> Counters] /\ sum \in [Scrapers -> [Counters -> Nat]]
  BY DEF MetricsTypeOK
<1> USE MetricsAssumption
<1>1. ASSUME pc'[s] = pc[s], col'[s] = col[s], sum'[s] = sum[s],
             pc[s] \in {"walk", "read"} => UNCHANGED <<registry, at>>
      PROVE  Still(s)
  <2>1. \A c \in Counters : Walked(s, c)' = Walked(s, c)
    BY <1>1 DEF Walked
  <2> QED
    BY <1>1, <2>1 DEF Still
<1>2. ASSUME NEW p \in Pools, Enter(p) \/ Sweep(p) \/ Join(p) PROVE Still(s)
  BY <1>1, <1>2 DEF Enter, Acquire, Sweep, Join, MutexHeld, scrapeVars
<1>3. ASSUME NEW p \in Pools, Drop(p) \/ Swap(p) \/ Add(p) \/ Free(p) PROVE Still(s)
  BY <1>1, <1>3 DEF Drop, Swap, Add, Free, scrapeVars, registryVars
<1>4. ASSUME NEW p \in Pools, NEW c \in Counters, Note(p, c) PROVE Still(s)
  BY <1>1, <1>4 DEF Note, scrapeVars, registryVars
<1>5. ASSUME NEW r \in Scrapers, r # s, OwnStep(r) PROVE Still(s)
  <2>1. pc'[s] = pc[s] /\ col'[s] = col[s] /\ sum'[s] = sum[s]
    BY <1>0, <1>5
    DEF OwnStep, Start, ReadRetired, Load, Lock, Upgrade, ReadLive, Unlock
  <2>2. pc[s] \in {"walk", "read"} => UNCHANGED <<registry, at>>
    BY <1>5 DEF OwnStep, Start, ReadRetired, Lock, Acquire, Upgrade, ReadLive, Unlock,
                MutexHeld, registryVars
  <2> QED
    BY <1>1, <2>1, <2>2
<1>6. CASE UNCHANGED vars
  BY <1>1, <1>6 DEF vars, scrapeVars, registryVars
<1> QED
  BY <1>2, <1>3, <1>4, <1>5, <1>6 DEF Next, OwnStep

\* What is ahead of a scrape grows by no more than what is noted meanwhile, and
\* shrinks only when a carry is added.
LEMMA AheadMoves ==
  ASSUME MetricsTypeOK, MetricsTypeOK', EventMove, NEW c \in Counters,
         NEW T \in SUBSET Pools
  PROVE  /\ Total(Share(c), T) \in Nat /\ Total(Share(c)', T) \in Nat
         /\ noted[c] \in Nat /\ noted'[c] \in Nat /\ noted[c] <= noted'[c]
         /\ Total(Share(c)', T) + noted[c] <= Total(Share(c), T) + noted'[c]
         /\ (\A p \in Pools : phase[p] # "add") => Total(Share(c), T) <= Total(Share(c)', T)
<1>0. Share(c) \in [Pools -> Nat] /\ Share(c)' \in [Pools -> Nat]
  BY ShareType
<1>1. Total(Share(c), T) \in Nat /\ Total(Share(c)', T) \in Nat
  BY <1>0, TotalType, MetricsAssumption
<1>2. noted[c] \in Nat /\ noted'[c] \in Nat
  BY DEF MetricsTypeOK
<1>3. CASE Share(c)' = Share(c) /\ noted'[c] = noted[c]
  BY <1>1, <1>2, <1>3
<1>4. ASSUME NEW p \in Pools, OneNoted(p, c) \/ CarryAdded(p, c)
      PROVE  /\ noted[c] <= noted'[c]
             /\ Total(Share(c)', T) + noted[c] <= Total(Share(c), T) + noted'[c]
             /\ (\A q \in Pools : phase[q] # "add")
                  => Total(Share(c), T) <= Total(Share(c)', T)
  <2>1. \A q \in Pools : q # p => Share(c)'[q] = Share(c)[q]
    BY <1>4 DEF OneNoted, CarryAdded, OnlyShare
  <2>2. /\ p \in T => Total(Share(c)', T) + Share(c)[p] = Total(Share(c), T) + Share(c)'[p]
        /\ p \notin T => Total(Share(c)', T) = Total(Share(c), T)
    BY <1>0, <2>1, TotalChange, MetricsAssumption
  <2>3. Share(c)[p] \in Nat /\ Share(c)'[p] \in Nat
    BY <1>0
  <2>4. CASE OneNoted(p, c)
    BY <1>1, <1>2, <2>2, <2>3, <2>4 DEF OneNoted
  <2>5. CASE CarryAdded(p, c)
    BY <1>1, <1>2, <2>2, <2>3, <2>5 DEF CarryAdded
  <2> QED
    BY <1>4, <2>4, <2>5
<1>5. ASSUME NEW p \in Pools, NEW d \in Counters, d # c, OneNoted(p, d) \/ CarryAdded(p, d)
      PROVE  Share(c)' = Share(c) /\ noted'[c] = noted[c]
  BY <1>5 DEF OneNoted, CarryAdded, OnlyShare
<1>6. CASE Quiet
  BY <1>3, <1>6, <1>1, <1>2 DEF Quiet
<1> QED
  BY <1>1, <1>2, <1>3, <1>4, <1>5, <1>6 DEF EventMove

\* A scraper that stands still keeps what it has.
LEMMA StillScrape ==
  ASSUME MetricsTypeOK, MetricsTypeOK', HistoryType, EventMove, CalmInv,
         NEW s \in Scrapers, Still(s), NEW c \in Counters, Scraped(s, c),
         hist'[s].noted = hist[s].noted, hist'[s].calm => hist[s].calm
  PROVE  Scraped(s, c)'
<1>0. PICK T \in SUBSET Pools : T = Pools \ Walked(s, c)
  OBVIOUS
<1> DEFINE u == Total(Share(c), T)
           v == Total(Share(c)', T)
<1>1. Ahead(s, c) = u /\ Ahead(s, c)' = v
  BY <1>0 DEF Ahead, Still
<1>2. /\ u \in Nat /\ v \in Nat /\ noted[c] \in Nat /\ noted'[c] \in Nat
      /\ noted[c] <= noted'[c] /\ v + noted[c] <= u + noted'[c]
      /\ (\A p \in Pools : phase[p] # "add") => u <= v
  BY AheadMoves
<1>3. ReadsRetired(s, c)' = ReadsRetired(s, c)
  BY DEF ReadsRetired, Still
<1>4. /\ sum[s][c] \in Nat /\ hist[s].noted[c] \in Nat /\ sum'[s][c] = sum[s][c]
      /\ pc'[s] = pc[s] /\ col'[s] = col[s]
  BY DEF MetricsTypeOK, HistoryType, Still
<1>5. hist[s].calm => \A p \in Pools : phase[p] # "add"
  BY DEF CalmInv
<1> HIDE DEF u, v
<1> QED
  BY <1>1, <1>2, <1>3, <1>4, <1>5 DEF Scraped

\* What a scraper's own step leaves alone.
LEMMA OwnQuiet ==
  ASSUME NEW s \in Scrapers, OwnStep(s)
  PROVE  /\ UNCHANGED <<phase, block, step, carry, retired, noted>>
         /\ \A c \in Counters : Share(c)' = Share(c)
<1>1. UNCHANGED <<phase, block, step, carry, retired, noted>>
  BY DEF OwnStep, Start, ReadRetired, Lock, Upgrade, ReadLive, Unlock, blockVars
<1> QED
  BY <1>1 DEF Share

\* A scraper's step that adds nothing up and walks nothing.
LEMMA IdleScrape ==
  ASSUME MetricsTypeOK, NEW s \in Scrapers, OwnStep(s), NEW c \in Counters,
         Scraped(s, c), hist' = hist, sum'[s] = sum[s],
         Walked(s, c)' = Walked(s, c), ReadsRetired(s, c), ReadsRetired(s, c)',
         pc'[s] \in {"walk", "read"}, pc'[s] = "walk" => col'[s] = 1
  PROVE  Scraped(s, c)'
<1>1. Ahead(s, c)' = Ahead(s, c) /\ noted' = noted
  BY OwnQuiet DEF Ahead
<1> QED
  BY <1>1 DEF Scraped

LEMMA StartScrape ==
  ASSUME MetricsTypeOK, HistoryType, NEW s \in Scrapers, NEW c \in Counters, Start(s)
  PROVE  Scraped(s, c)'
<1>1. /\ pc'[s] = "retired" /\ col'[s] = 1 /\ sum'[s] = Zero
      /\ noted' = noted
  BY DEF Start, MetricsTypeOK
<1>2. hist'[s].noted = noted
  BY DEF Start, HistoryType
<1>3. c \in Nat /\ c >= 1 /\ noted[c] \in Nat
  <2>1. c \in Nat /\ c >= 1
    BY MetricsAssumption DEF Counters
  <2> QED
    BY <2>1 DEF MetricsTypeOK
<1>4. ~ReadsRetired(s, c)'
  BY <1>1, <1>3 DEF ReadsRetired
<1>5. sum'[s][c] = 0
  BY <1>1 DEF Zero
<1> QED
  BY <1>1, <1>2, <1>3, <1>4, <1>5 DEF Scraped

LEMMA ReadRetiredScrape ==
  ASSUME MetricsTypeOK, HistoryType, TotalInv, NEW s \in Scrapers, NEW c \in Counters,
         Scraped(s, c), ReadRetired(s)
  PROVE  Scraped(s, c)'
<1>0. PICK k \in Counters : k = col[s]
  BY DEF MetricsTypeOK
<1>1. /\ sum'[s][k] = sum[s][k] + retired[k]
      /\ c # k => sum'[s][c] = sum[s][c]
      /\ col'[s] = IF k < NCounters THEN k + 1 ELSE 1
      /\ pc'[s] = IF k < NCounters THEN pc[s] ELSE "lock"
  <2>1. retired \in [Counters -> Nat] /\ Load(s, retired, "lock")
    BY DEF MetricsTypeOK, ReadRetired
  <2> QED
    BY <1>0, <2>1, Loaded
<1>2. hist' = hist /\ noted' = noted /\ pc[s] = "retired"
  BY DEF ReadRetired
<1>3. Share(c)' = Share(c)
  BY OwnQuiet DEF OwnStep
<1>4. Walked(s, c) = {} /\ Walked(s, c)' = {}
  BY <1>1, <1>2 DEF Walked
<1>5. Ahead(s, c) = Total(Share(c), Pools) /\ Ahead(s, c)' = Total(Share(c), Pools)
  BY <1>3, <1>4 DEF Ahead
<1>6. /\ noted[c] = retired[c] + Total(Share(c), Pools)
      /\ retired[c] \in Nat /\ noted[c] \in Nat /\ sum[s][c] \in Nat
      /\ hist[s].noted[c] \in Nat
  BY DEF MetricsTypeOK, TotalInv, HistoryType
<1>7. c \in Nat /\ k \in Nat /\ 1 <= c /\ c <= NCounters /\ k <= NCounters /\ NCounters \in Nat
  BY MetricsAssumption DEF Counters
<1>8. CASE c = k
  <2>1. sum[s][c] = 0
    BY <1>0, <1>2, <1>7, <1>8 DEF Scraped
  <2>2. sum'[s][c] = retired[c]
    BY <1>1, <1>6, <1>8, <2>1
  <2>3. hist[s].noted[c] <= noted[c]
    BY DEF Scraped
  <2> QED
    BY <1>1, <1>2, <1>5, <1>6, <1>7, <1>8, <2>2, <2>3 DEF Scraped
<1>9. CASE c < k
  <2>1. ReadsRetired(s, c)
    BY <1>0, <1>2, <1>9 DEF ReadsRetired
  <2>2. sum'[s][c] = sum[s][c] /\ (c < col'[s] \/ pc'[s] = "lock")
    BY <1>1, <1>7, <1>9
  <2> QED
    BY <1>0, <1>1, <1>2, <1>5, <1>6, <1>7, <1>9, <2>1, <2>2 DEF Scraped
<1>10. CASE c > k
  <2>1. sum[s][c] = 0 /\ sum'[s][c] = 0
    BY <1>0, <1>1, <1>2, <1>7, <1>10 DEF Scraped
  <2>2. pc'[s] = "retired" /\ ~ReadsRetired(s, c)'
    BY <1>1, <1>2, <1>7, <1>10 DEF ReadsRetired
  <2> QED
    BY <1>2, <2>1, <2>2 DEF Scraped
<1> QED
  BY <1>7, <1>8, <1>9, <1>10

LEMMA LockScrape ==
  ASSUME MetricsTypeOK, NEW s \in Scrapers, NEW c \in Counters, Scraped(s, c), Lock(s)
  PROVE  Scraped(s, c)'
<1>1. /\ pc[s] = "lock" /\ pc'[s] = "walk" /\ col' = col /\ sum' = sum /\ hist' = hist
      /\ at' = 1 /\ registry' = registry
  BY DEF Lock, Acquire, MetricsTypeOK
<1>2. Walked(s, c) = {} /\ Walked(s, c)' = {}
  BY <1>1 DEF Walked
<1>3. ReadsRetired(s, c) /\ ReadsRetired(s, c)' /\ col[s] = 1
  BY <1>1 DEF ReadsRetired, Scraped
<1> QED
  BY <1>1, <1>2, <1>3, IdleScrape DEF OwnStep

LEMMA UpgradeScrape ==
  ASSUME MetricsTypeOK, RegistryInv, NEW s \in Scrapers, NEW c \in Counters,
         Scraped(s, c), Upgrade(s)
  PROVE  Scraped(s, c)'
<1>1. /\ pc[s] = "walk" /\ col' = col /\ sum' = sum /\ hist' = hist
      /\ at <= Len(registry) /\ registry \in Seq(Pools) /\ Len(registry) \in Nat
      /\ at \in 1 .. Len(registry)
  BY LenProperties DEF Upgrade, MetricsTypeOK
<1>2. col[s] = 1
  BY <1>1 DEF Scraped
<1>3. CASE Prune /\ UNCHANGED pc
  <2>1. at' = at /\ pc'[s] = "walk"
    BY <1>1, <1>3 DEF Prune
  <2>2. /\ Len(registry') = Len(registry) - 1
        /\ \A j \in 1 .. Len(registry) - 1 : j < at => registry'[j] = registry[j]
    BY <1>1, <1>3, Pruned
  <2>3. \A j : (j \in 1 .. Len(registry') /\ j < at) <=> (j \in 1 .. Len(registry) /\ j < at)
    BY <1>1, <2>2
  <2>4. Walked(s, c)' = Walked(s, c)
    <3>1. Walked(s, c) = {registry[i] : i \in {j \in 1 .. Len(registry) : j < at}}
      BY <1>1 DEF Walked
    <3>2. Walked(s, c)' = {registry'[i] : i \in {j \in 1 .. Len(registry') : j < at}}
      BY <2>1 DEF Walked
    <3>3. {j \in 1 .. Len(registry') : j < at} = {j \in 1 .. Len(registry) : j < at}
      BY <2>3
    <3>4. \A j \in {i \in 1 .. Len(registry) : i < at} : registry'[j] = registry[j]
      BY <1>1, <2>2
    <3> QED
      BY <3>1, <3>2, <3>3, <3>4
  <2> QED
    BY <1>1, <1>2, <2>1, <2>4, IdleScrape DEF OwnStep, ReadsRetired
<1>4. CASE pc' = [pc EXCEPT ![s] = "read"] /\ UNCHANGED registryVars
  <2>1. pc'[s] = "read" /\ registry' = registry /\ at' = at
    BY <1>4 DEF MetricsTypeOK, registryVars
  <2>2. ~(c < col[s])
    BY <1>2 DEF Counters
  <2>3. Walked(s, c)' = Walked(s, c)
    BY <1>1, <2>1, <2>2 DEF Walked
  <2> QED
    BY <1>1, <2>1, <2>3, IdleScrape DEF OwnStep, ReadsRetired
<1> QED
  BY <1>3, <1>4 DEF Upgrade

LEMMA ReadLiveScrape ==
  ASSUME MetricsTypeOK, HistoryType, BlockInv, RegistryInv, PruneInv, CalmInv,
         NEW s \in Scrapers, NEW c \in Counters, Scraped(s, c), ReadLive(s)
  PROVE  Scraped(s, c)'
<1>0. PICK k \in Counters : k = col[s]
  BY DEF MetricsTypeOK
<1>1. /\ pc[s] = "read" /\ registry' = registry /\ noted' = noted /\ hist' = hist
      /\ registry \in Seq(Pools) /\ Len(registry) \in Nat /\ at \in 1 .. Len(registry)
      /\ at' = IF k = NCounters THEN at + 1 ELSE at
  BY <1>0, LenProperties DEF ReadLive, MetricsTypeOK, PruneInv
<1>2. PICK x \in Pools : x = registry[at]
  BY <1>1, ElementOfSeq
<1>3. /\ sum'[s][k] = sum[s][k] + block[x][k]
      /\ c # k => sum'[s][c] = sum[s][c]
      /\ col'[s] = IF k < NCounters THEN k + 1 ELSE 1
      /\ pc'[s] = IF k < NCounters THEN "read" ELSE "walk"
  <2>1. block[x] \in [Counters -> Nat] /\ Load(s, block[x], "walk")
    BY <1>2 DEF MetricsTypeOK, ReadLive
  <2> QED
    BY <1>0, <1>1, <2>1, Loaded
<1>4. c \in Nat /\ k \in Nat /\ 1 <= c /\ c <= NCounters /\ k <= NCounters /\ NCounters \in Nat
  BY MetricsAssumption DEF Counters
<1>5. Share(c)' = Share(c)
  BY OwnQuiet DEF OwnStep
<1>6. ReadsRetired(s, c) /\ ReadsRetired(s, c)'
  BY <1>1, <1>3 DEF ReadsRetired
<1> DEFINE I == {j \in 1 .. Len(registry) : j < at \/ (j = at /\ c < k)}
           J == {j \in 1 .. Len(registry) : j < at \/ (j = at /\ c <= k)}
<1>7. Walked(s, c) = {registry[i] : i \in I}
  BY <1>0, <1>1 DEF Walked
<1>8. Walked(s, c)' = {registry[i] : i \in J}
  <2>1. CASE k < NCounters
    <3>1. pc'[s] = "read" /\ at' = at /\ col'[s] = k + 1 /\ (c < k + 1 <=> c <= k)
      BY <1>1, <1>3, <1>4, <2>1
    <3> QED
      BY <1>1, <3>1 DEF Walked
  <2>2. CASE ~(k < NCounters)
    <3>1. pc'[s] = "walk" /\ at' = at + 1 /\ c <= k
      BY <1>1, <1>3, <1>4, <2>2
    <3>2. {j \in 1 .. Len(registry) : j < at + 1} = J
      BY <1>1, <3>1
    <3>3. Walked(s, c)' = {registry[i] : i \in {j \in 1 .. Len(registry) : j < at + 1}}
      BY <1>1, <3>1 DEF Walked
    <3> QED
      BY <3>2, <3>3
  <2> QED
    BY <2>1, <2>2
<1>9. CASE c # k
  <2>1. I = J
    BY <1>4, <1>9
  <2>2. Ahead(s, c)' = Ahead(s, c)
    BY <1>5, <1>7, <1>8, <2>1 DEF Ahead
  <2> QED
    BY <1>1, <1>3, <1>6, <1>9, <2>2 DEF Scraped
<1>10. CASE c = k
  <2>1. Walked(s, c)' = Walked(s, c) \cup {x}
    <3>1. J = I \cup {at}
      BY <1>1, <1>4, <1>10
    <3> QED
      BY <1>2, <1>7, <1>8, <3>1
  <2>2. x \notin Walked(s, c)
    <3>1. I \subseteq 1 .. Len(registry) /\ at \notin I
      BY <1>1, <1>4, <1>10
    <3> QED
      BY <1>1, <1>2, <1>7, <3>1 DEF RegistryInv
  <2>3. PICK T \in SUBSET Pools : T = Pools \ Walked(s, c)
    OBVIOUS
  <2>4. x \in T /\ Pools \ Walked(s, c)' = T \ {x}
    BY <2>1, <2>2, <2>3
  <2> DEFINE u == Total(Share(c), T)
             v == Total(Share(c), T \ {x})
  <2>5. Ahead(s, c) = u /\ Ahead(s, c)' = v
    BY <1>5, <2>3, <2>4 DEF Ahead
  <2>6. u = Share(c)[x] + v /\ u \in Nat /\ v \in Nat
    <3>1. Share(c) \in [Pools -> Nat]
      BY ShareType
    <3>2. IsFiniteSet(T) /\ (\A q \in T : Share(c)[q] \in Nat)
      BY <3>1, FS_Subset, MetricsAssumption
    <3>3. u = Share(c)[x] + v
      BY <2>4, <3>2, TotalSplit
    <3>4. T \ {x} \in SUBSET T /\ T \in SUBSET T
      OBVIOUS
    <3> QED
      BY <3>2, <3>3, <3>4, TotalType
  <2>7. /\ block[x][c] \in Nat /\ Share(c)[x] \in Nat /\ block[x][c] <= Share(c)[x]
        /\ hist[s].calm => block[x][c] = Share(c)[x]
    <3>1. block[x][c] \in Nat /\ carry[x] \in Nat
      BY DEF MetricsTypeOK
    <3>2. hist[s].calm => carry[x] = 0
      BY DEF CalmInv, BlockInv
    <3> QED
      BY <3>1, <3>2 DEF Share
  <2>8. /\ sum[s][c] \in Nat /\ noted[c] \in Nat /\ hist[s].noted[c] \in Nat
        /\ sum'[s][c] = sum[s][c] + block[x][c]
    BY <1>3, <1>10 DEF MetricsTypeOK, HistoryType
  <2> HIDE DEF u, v
  <2>9. /\ sum[s][c] + u <= noted[c] /\ hist[s].noted[c] <= noted[c]
        /\ hist[s].calm => sum[s][c] + u >= hist[s].noted[c]
    BY <1>6, <2>5 DEF Scraped
  <2>10. /\ sum'[s][c] + v <= noted[c]
         /\ hist[s].calm => sum'[s][c] + v >= hist[s].noted[c]
    BY <2>6, <2>7, <2>8, <2>9
  <2> QED
    BY <1>1, <1>3, <1>6, <2>5, <2>9, <2>10 DEF Scraped
<1> QED
  BY <1>9, <1>10

LEMMA UnlockScrape ==
  ASSUME MetricsTypeOK, HistoryType, BlockInv, RegistryInv, CalmInv,
         NEW s \in Scrapers, NEW c \in Counters, Scraped(s, c), Unlock(s)
  PROVE  Scraped(s, c)'
<1>1. /\ pc[s] = "walk" /\ pc'[s] = "done" /\ noted' = noted /\ hist' = hist /\ sum' = sum
      /\ registry \in Seq(Pools) /\ Len(registry) \in Nat /\ at > Len(registry) /\ at \in Nat
  BY LenProperties DEF Unlock, MetricsTypeOK
<1>2. sum[s][c] \in Nat /\ noted[c] \in Nat /\ hist[s].noted[c] \in Nat
  BY DEF MetricsTypeOK, HistoryType
<1>3. Ahead(s, c) \in Nat
  <2>1. Share(c) \in [Pools -> Nat]
    BY ShareType
  <2>2. Pools \ Walked(s, c) \in SUBSET Pools
    OBVIOUS
  <2> QED
    BY <2>1, <2>2, TotalType, MetricsAssumption DEF Ahead
<1>4. ASSUME hist[s].calm PROVE Ahead(s, c) = 0
  <2>1. ASSUME NEW p \in Pools \ Walked(s, c) PROVE Share(c)[p] = 0
    <3>1. ~Registered(p)
      BY <1>1, <2>1 DEF Registered, Walked
    <3>2. phase[p] \in {"unborn", "joining", "gone"}
      BY <3>1 DEF RegistryInv, Alive, MetricsTypeOK
    <3>3. block[p][c] = 0 /\ carry[p] = 0
      BY <3>2 DEF BlockInv
    <3> QED
      BY <3>3 DEF Share
  <2> QED
    BY <2>1, TotalZero DEF Ahead
<1>5. ReadsRetired(s, c) /\ ~ReadsRetired(s, c)'
  BY <1>1 DEF ReadsRetired
<1> QED
  BY <1>1, <1>2, <1>3, <1>4, <1>5 DEF Scraped

\* A scrape stays calm only while no pool drops, and only a scraper starts its own.
LEMMA CalmStep ==
  MetricsTypeOK /\ HistoryType /\ CalmInv /\ [Next]_vars =>
    /\ CalmInv'
    /\ \A s \in Scrapers : ~Start(s) =>
         hist'[s].noted = hist[s].noted /\ (hist'[s].calm => hist[s].calm)
<1> DEFINE Goal ==
      /\ CalmInv'
      /\ \A s \in Scrapers : ~Start(s) =>
           hist'[s].noted = hist[s].noted /\ (hist'[s].calm => hist[s].calm)
<1> SUFFICES ASSUME MetricsTypeOK, HistoryType, CalmInv, [Next]_vars PROVE Goal
  OBVIOUS
<1>0. /\ phase \in [Pools -> {"unborn", "joining", "live", "swap", "add", "gone"}]
      /\ hist \in [Scrapers -> [noted : [Counters -> Nat], before : [Counters -> Nat],
                                calm : BOOLEAN]]
  BY DEF MetricsTypeOK, HistoryType
<1>1. ASSUME hist' = hist,
             \A p \in Pools : phase'[p] \in {"swap", "add"} => phase[p] \in {"swap", "add"}
      PROVE  Goal
  BY <1>1 DEF CalmInv
<1>2. ASSUME NEW p \in Pools, Drop(p) PROVE Goal
  <2>1. \A s \in Scrapers : hist'[s].noted = hist[s].noted /\ hist'[s].calm = FALSE
    BY <1>0, <1>2 DEF Drop
  <2> QED
    BY <2>1 DEF CalmInv
<1>3. ASSUME NEW p \in Pools,
             Enter(p) \/ Sweep(p) \/ Join(p) \/ Swap(p) \/ Add(p) \/ Free(p)
      PROVE  Goal
  <2>1. hist' = hist
    BY <1>3 DEF Enter, Sweep, Join, Swap, Add, Free
  <2>2. \A q \in Pools : phase'[q] \in {"swap", "add"} => phase[q] \in {"swap", "add"}
    BY <1>0, <1>3 DEF Enter, Sweep, Join, Swap, Add, Free, blockVars
  <2> QED
    BY <1>1, <2>1, <2>2
<1>4. ASSUME NEW s \in Scrapers, Start(s) PROVE Goal
  <2>1. /\ phase' = phase
        /\ \A r \in Scrapers : r # s => hist'[r] = hist[r]
        /\ hist'[s].calm = \A p \in Pools : phase[p] \notin {"swap", "add"}
    BY <1>0, <1>4 DEF Start, blockVars
  <2> QED
    BY <1>4, <2>1 DEF CalmInv
<1>5. ASSUME NEW s \in Scrapers,
             ReadRetired(s) \/ Lock(s) \/ Upgrade(s) \/ ReadLive(s) \/ Unlock(s)
      PROVE  Goal
  BY <1>1, <1>5 DEF ReadRetired, Lock, Upgrade, ReadLive, Unlock, blockVars
<1>6. CASE UNCHANGED vars \/ \E p \in Pools, c \in Counters : Note(p, c)
  BY <1>1, <1>6 DEF Note, vars, blockVars
<1> HIDE DEF Goal
<1> QED
  BY <1>2, <1>3, <1>4, <1>5, <1>6 DEF Next

LEMMA ScrapeStep ==
  MetricsInv /\ MetricsTypeOK' /\ EventMove /\ [Next]_vars => ScrapeInv'
<1> SUFFICES ASSUME MetricsInv, MetricsTypeOK', EventMove, [Next]_vars,
                    NEW s \in Scrapers, NEW c \in Counters
             PROVE  Scraped(s, c)'
  BY DEF ScrapeInv
<1>1. /\ MetricsTypeOK /\ HistoryType /\ MutexHeld /\ BlockInv /\ RegistryInv
      /\ PruneInv /\ TotalInv /\ CalmInv /\ Scraped(s, c)
  BY DEF MetricsInv, ScrapeInv
<1>2. CASE ~OwnStep(s)
  <2>1. Still(s)
    BY <1>1, <1>2, OthersStill
  <2>2. hist'[s].noted = hist[s].noted /\ (hist'[s].calm => hist[s].calm)
    BY <1>1, <1>2, CalmStep DEF OwnStep
  <2> QED
    BY <1>1, <2>1, <2>2, StillScrape
<1>3. CASE OwnStep(s)
  BY <1>1, <1>3, StartScrape, ReadRetiredScrape, LockScrape, UpgradeScrape,
     ReadLiveScrape, UnlockScrape DEF OwnStep
<1> QED
  BY <1>2, <1>3

-----------------------------------------------------------------------------
(* The theorems. *)

LEMMA MetricsInit == Init => MetricsInv
<1> SUFFICES ASSUME Init PROVE MetricsInv
  OBVIOUS
<1>1. MetricsTypeOK /\ HistoryType /\ MutexHeld
  BY TypeInit
<1>2. \A p \in Pools : /\ phase[p] = "unborn" /\ step[p] = 1 /\ carry[p] = 0
                       /\ \A c \in Counters : block[p][c] = 0
  BY DEF Init, Zero
<1>3. Len(registry) = 0 /\ 1 .. 0 = {}
  BY DEF Init
<1>4. BlockInv
  BY <1>2 DEF BlockInv
<1>5. RegistryInv
  BY <1>2, <1>3 DEF RegistryInv, Alive
<1>6. PruneInv
  BY <1>3 DEF PruneInv, Init
<1>7. TotalInv
  <2> SUFFICES ASSUME NEW c \in Counters
               PROVE  noted[c] = retired[c] + Total(Share(c), Pools)
    BY DEF TotalInv
  <2>1. \A p \in Pools : Share(c)[p] = 0
    BY <1>2 DEF Share
  <2>2. noted[c] = 0 /\ retired[c] = 0
    BY DEF Init, Zero
  <2> QED
    BY <2>1, <2>2, TotalZero
<1>8. ScrapeInv
  <2> SUFFICES ASSUME NEW s \in Scrapers, NEW c \in Counters PROVE Scraped(s, c)
    BY DEF ScrapeInv
  <2>1. pc[s] = "idle" /\ sum[s][c] = 0 /\ noted[c] = 0 /\ hist[s].noted[c] = 0
    BY DEF Init, Zero
  <2> QED
    BY <2>1 DEF Scraped, ReadsRetired
<1>9. CalmInv
  BY <1>2 DEF CalmInv
<1> QED
  BY <1>1, <1>4, <1>5, <1>6, <1>7, <1>8, <1>9 DEF MetricsInv

LEMMA MetricsStep == MetricsInv /\ [Next]_vars => MetricsInv'
<1> SUFFICES ASSUME MetricsInv, [Next]_vars PROVE MetricsInv'
  OBVIOUS
<1>1. MetricsTypeOK' /\ HistoryType' /\ MutexHeld'
  BY TypeStep, MutexStep DEF MetricsInv
<1>2. EventMove
  BY EventMoves DEF MetricsInv
<1>3. BlockInv' /\ RegistryInv' /\ PruneInv'
  BY BlockStep, RegistryStep, PruneStep DEF MetricsInv
<1>4. TotalInv' /\ CalmInv'
  BY <1>1, <1>2, TotalStep, CalmStep DEF MetricsInv
<1>5. ScrapeInv'
  BY <1>1, <1>2, ScrapeStep
<1> QED
  BY <1>1, <1>3, <1>4, <1>5 DEF MetricsInv

LEMMA MetricsInductive == Spec => []MetricsInv
  BY MetricsInit, MetricsStep, PTL DEF Spec

\* Every counter, sum and history stays a natural number, the registry a sequence
\* of pools with the mutex holder's retain inside it.
THEOREM MetricsTypeSafe == Spec => []MetricsTypeOK
<1>1. MetricsInv => MetricsTypeOK
  BY DEF MetricsInv
<1> QED
  BY <1>1, MetricsInductive, PTL

\* retire_into loses no event and doubles none, however many pools drop at once.
THEOREM TotalsAreKept == Spec => []TotalsSurvive
<1>1. MetricsInv => TotalsSurvive
  <2> SUFFICES ASSUME MetricsInv, NEW c \in Counters
               PROVE  noted[c] = retired[c] + SumFunction(Share(c))
    BY DEF TotalsSurvive
  <2>1. Share(c) \in [Pools -> Nat]
    BY ShareType DEF MetricsInv
  <2>2. SumFunction(Share(c)) = Total(Share(c), Pools)
    BY <2>1, SumIsTotal, MetricsAssumption
  <2> QED
    BY <2>2 DEF MetricsInv, TotalInv
<1> QED
  BY <1>1, MetricsInductive, PTL

\* No scrape of Pool::statistics counts an event both in its block and in the
\* retired totals, wherever it meets retire_into.
THEOREM NeverCountsTwice == Spec => []NeverBoth
<1>1. MetricsInv => NeverBoth
  <2> SUFFICES ASSUME MetricsInv, NEW s \in Scrapers, NEW c \in Counters
               PROVE  sum[s][c] <= noted[c]
    BY DEF NeverBoth
  <2>1. MetricsTypeOK /\ Scraped(s, c)
    BY DEF MetricsInv, ScrapeInv
  <2>2. sum[s][c] \in Nat /\ noted[c] \in Nat /\ col[s] \in Counters
        /\ pc[s] \in {"idle", "retired", "lock", "walk", "read", "done"}
    BY <2>1 DEF MetricsTypeOK
  <2>3. Ahead(s, c) \in Nat
    <3>1. Share(c) \in [Pools -> Nat] /\ Pools \ Walked(s, c) \in SUBSET Pools
      BY <2>1, ShareType
    <3> QED
      BY <3>1, TotalType, MetricsAssumption DEF Ahead
  <2>4. c \in Nat /\ col[s] \in Nat
    BY <2>2, CountersType
  <2> QED
    BY <2>1, <2>2, <2>3, <2>4 DEF Scraped, ReadsRetired
<1> QED
  BY <1>1, MetricsInductive, PTL

\* A scrape that no dropping pool overlapped returns every event noted before it.
THEOREM CalmScrapesComplete == Spec => []CalmScrapeComplete
<1>1. MetricsInv => CalmScrapeComplete
  BY DEF MetricsInv, ScrapeInv, Scraped, CalmScrapeComplete
<1> QED
  BY <1>1, MetricsInductive, PTL

\* A referenced block is registered exactly once, and no holder of the mutex
\* leaves an entry that was dead when it came.
THEOREM RegistryStaysExact == Spec => []RegistryExact
<1>1. MetricsInv => RegistryExact
  <2> SUFFICES ASSUME MetricsInv PROVE RegistryExact
    OBVIOUS
  <2>0. DOMAIN registry = 1 .. Len(registry)
    BY DEF MetricsInv, MetricsTypeOK
  <2>1. ASSUME NEW p \in Pools, Alive(p)
        PROVE  Cardinality({i \in DOMAIN registry : registry[i] = p}) = 1
    <3>1. PICK i \in 1 .. Len(registry) : registry[i] = p
      BY <2>1 DEF MetricsInv, RegistryInv, Registered
    <3>2. {j \in DOMAIN registry : registry[j] = p} = {i}
      BY <2>0, <3>1 DEF MetricsInv, RegistryInv
    <3> QED
      BY <3>2, FS_Singleton
  <2>2. lock = Nobody => \A i \in DOMAIN registry : registry[i] \notin doomed
    BY <2>0 DEF MetricsInv, PruneInv
  <2> QED
    BY <2>1, <2>2 DEF RegistryExact
<1> QED
  BY <1>1, MetricsInductive, PTL
=============================================================================
