------------------------------ MODULE CoreSet ------------------------------
(***************************************************************************)
(* Choosing cores (src/src/cpu.rs): the permitted cores, their topology as *)
(* sysfs shows it, and the chain of filters and orders a program applies   *)
(* before it hands the selection to PerCore.                               *)
(*                                                                         *)
(* A host is what the kernel shows at start-up: the ids get_core_ids       *)
(* returns, and the sysfs attributes of each cpu, {} for a file that is    *)
(* absent or unreadable and {n} for one that holds n.                      *)
(***************************************************************************)
EXTENDS Integers, Sequences, FiniteSets, SequencesExt

CONSTANTS
  Hosts,      \* bound: [mask : Seq(id), core, package, node : id -> {} or {n}]
  RowLists,   \* bound: the rows callers hand to from_infos
  Nodes,      \* bound: the node and package numbers filtered on
  WordBits    \* bits in a word of an affinity mask: 32 in the code

\* A row of a selection; id and attributes are usize.
Info == [id : Nat, core : Nat, package : Nat, numa_node : Nat]

\* from_infos takes whatever rows it is given.
ASSUME RowsAssumption == RowLists \subseteq Seq(Info)

\* An id and an attribute are usize; a file holds one number or is not there.
ASSUME HostsAssumption ==
  \A h \in Hosts :
    /\ h.mask \in Seq(Nat)
    /\ \A id \in ToSet(h.mask), attribute \in {h.core, h.package, h.node} :
         attribute[id] \subseteq Nat /\ \A m, n \in attribute[id] : m = n

VARIABLES
  host,       \* the machine the process finds itself on
  seed,       \* how the selection began: "permitted" or "explicit" (from_infos)
  infos       \* CoreSet::infos, in selection order

coreVars == <<host, seed, infos>>

-----------------------------------------------------------------------------
(* Orders. *)

\* The members of a finite set, the k-th being the one with k - 1 before it.
InOrder(S, before) ==
  [k \in 1 .. Cardinality(S) |->
     CHOOSE x \in S : Cardinality({y \in S : <<y, x>> \in before}) = k - 1]

\* Lexicographic order of two tuples of equal length.
Before(x, y) ==
  \E i \in DOMAIN x : x[i] < y[i] /\ \A j \in 1 .. i - 1 : x[j] = y[j]

\* The order of the indices of key in a stable sort by it.
ByKey(key) ==
  {p \in (DOMAIN key) \X (DOMAIN key) :
     Before(key[p[1]], key[p[2]]) \/ (key[p[1]] = key[p[2]] /\ p[1] < p[2])}
Increasing(S) == {p \in S \X S : p[1] < p[2]}

\* slice::sort_by_key, with the key of each element; Vec::retain, with the
\* indices the predicate holds at.
sort_by_key(s, key) == LET at == InOrder(DOMAIN s, ByKey(key)) IN [k \in DOMAIN at |-> s[at[k]]]
retain(s, I) == LET at == InOrder(I, Increasing(I)) IN [k \in DOMAIN at |-> s[at[k]]]

-----------------------------------------------------------------------------
(* Enumeration and topology. *)

unwrap_or(opt, default) == IF opt = {} THEN default ELSE CHOOSE n \in opt : TRUE

CoresTwice(h) == sort_by_key(h.mask, [i \in DOMAIN h.mask |-> <<h.mask[i]>>])

\* cores(): sorted by id, duplicates removed.
cores(h) == InOrder(ToSet(h.mask), Increasing(ToSet(h.mask)))

\* One row of topology_for, with the fallbacks for what sysfs does not show.
topology_of(h, id) ==
  [id |-> id, core |-> unwrap_or(h.core[id], id),
   package |-> unwrap_or(h.package[id], 0), numa_node |-> unwrap_or(h.node[id], 0)]

permitted(h) == [i \in DOMAIN cores(h) |-> topology_of(h, cores(h)[i])]

MaskLeastFirst(cpu) ==
  LET words == cpu \div WordBits + 1
  IN  [k \in 1 .. words |->
         IF k - 1 = cpu \div WordBits THEN 2 ^ (cpu % WordBits) ELSE 0]

\* affinity_mask: the words, most significant first.
affinity_mask(cpu) ==
  LET words == cpu \div WordBits + 1
  IN  [k \in 1 .. words |->
         IF words - k = cpu \div WordBits THEN 2 ^ (cpu % WordBits) ELSE 0]

-----------------------------------------------------------------------------
(* Filters and orders. *)

SameCore(a, b) == a.package = b.package /\ a.core = b.core

DropByCoreId(s) ==
  retain(s, {i \in DOMAIN s : \A j \in 1 .. i - 1 : s[j].core # s[i].core})

\* retain(|c| seen.insert((c.package, c.core)))
physical_only(s) ==
  retain(s, {i \in DOMAIN s : \A j \in 1 .. i - 1 : ~SameCore(s[j], s[i])})

\* Where s[i] is in its package's column, which spread sorts and then drains.
Row(s, i) ==
  LET key == [j \in DOMAIN s |-> <<s[j].numa_node, s[j].core, s[j].id>>]
  IN  Cardinality({j \in DOMAIN s : s[j].package = s[i].package /\ <<j, i>> \in ByKey(key)}) + 1

SpreadByColumns(s) == sort_by_key(s, [i \in DOMAIN s |-> <<s[i].package, Row(s, i)>>])

\* Round r takes the r-th core of every package that still has one.
spread(s) == sort_by_key(s, [i \in DOMAIN s |-> <<Row(s, i), s[i].package>>])

PackByCore(s) ==
  sort_by_key(s, [i \in DOMAIN s |-> <<s[i].core, s[i].package, s[i].numa_node, s[i].id>>])

pack(s) ==
  sort_by_key(s, [i \in DOMAIN s |-> <<s[i].package, s[i].numa_node, s[i].core, s[i].id>>])

-----------------------------------------------------------------------------
(* The chain. *)

\* CoreSet::permitted, or from_infos with rows of the caller's own: repeated ids,
\* ids outside the mask and topologies no host has among them.
ChooseHost ==
  /\ host \in Hosts
  /\ \/ seed = "permitted" /\ infos = permitted(host)
     \/ seed = "explicit" /\ infos \in RowLists

PhysicalOnly == infos' = physical_only(infos)
OnNumaNode(n) == infos' = retain(infos, {i \in DOMAIN infos : infos[i].numa_node = n})
OnPackage(p) == infos' = retain(infos, {i \in DOMAIN infos : infos[i].package = p})
\* pred may hold at any rows: it is an FnMut.
Filter(I) == infos' = retain(infos, I)
Spread == infos' = spread(infos)
Pack == infos' = pack(infos)
Take(n) == infos' = SubSeq(infos, 1, IF n < Len(infos) THEN n ELSE Len(infos))

\* core_ids(), which IntoIterator hands to PerCore::new.
core_ids == [i \in DOMAIN infos |-> infos[i].id]

Chain ==
  /\ \/ PhysicalOnly \/ Spread \/ Pack
     \/ \E n \in Nodes : OnNumaNode(n) \/ OnPackage(n)
     \/ \E I \in SUBSET DOMAIN infos : Filter(I)
     \/ \E n \in 0 .. Len(infos) : Take(n)
  /\ UNCHANGED <<host, seed>>

-----------------------------------------------------------------------------
(* What the selection promises. *)

\* A selection that began with permitted() "can never name a core the process is
\* not allowed to use", and no chain of filters and orders names one twice.
OnlyPermitted ==
  seed = "permitted" =>
    /\ ToSet(core_ids) \subseteq ToSet(host.mask)
    /\ \A i, j \in DOMAIN infos : i # j => infos[i].id # infos[j].id

\* cpu.rs:251: "a missing core_id falls back to the cpu id (so the core is treated
\* as its own physical core - no false SMT grouping)": of a selection that began
\* with permitted(), physical_only drops a cpu only for another that the host shows
\* as a thread of the same core.
NoFalseSiblings ==
  [][PhysicalOnly /\ seed = "permitted" => \A i \in DOMAIN infos :
       \E k \in DOMAIN infos' :
         \/ infos'[k].id = infos[i].id
         \/ /\ host.core[infos[i].id] # {}
            /\ host.core[infos'[k].id] = host.core[infos[i].id]
            /\ infos'[k].package = infos[i].package]_coreVars

\* physical_only keeps exactly one thread of every core that was there, and for
\* a selection that began with permitted() the lowest-id one, whatever orders
\* and filters came before it.
OneThreadPerCore ==
  [][PhysicalOnly => \A i \in DOMAIN infos :
       \E k \in DOMAIN infos' :
         /\ SameCore(infos'[k], infos[i])
         /\ seed = "permitted" => infos'[k].id <= infos[i].id
         /\ \A m \in DOMAIN infos' : SameCore(infos'[m], infos[i]) => m = k]_coreVars

\* However many cores are taken after spread, the packages' shares differ by at
\* most one, except for a package that has no more to give; and no core is lost.
SpreadBalances ==
  [][Spread =>
       /\ ToSet(infos') = ToSet(infos) /\ Len(infos') = Len(infos)
       /\ \A n \in 1 .. Len(infos'), p, q \in {infos[i].package : i \in DOMAIN infos} :
            LET share(x) == Cardinality({i \in 1 .. n : infos'[i].package = x})
                all(x) == Cardinality({i \in DOMAIN infos : infos[i].package = x})
            IN  share(p) <= share(q) + 1 \/ share(q) = all(q)]_coreVars

\* After pack, a core, a NUMA node of a package and a package are each finished
\* before the next is begun; and no core is lost.
PackFills ==
  [][Pack =>
       /\ ToSet(infos') = ToSet(infos) /\ Len(infos') = Len(infos)
       /\ \A i, j, k \in DOMAIN infos' : i < j /\ j < k =>
            LET s == infos'
                Unit(c) == <<c.package, c.numa_node, c.core>>
            IN  \A d \in 1 .. 3 : SubSeq(Unit(s[i]), 1, d) = SubSeq(Unit(s[k]), 1, d)
                  => SubSeq(Unit(s[j]), 1, d) = SubSeq(Unit(s[i]), 1, d)]_coreVars

\* The mask of a selected core names it and nothing else.
MaskNamesCore ==
  \A i \in DOMAIN infos :
    FoldLeft(LAMBDA acc, w : acc * 2 ^ WordBits + w, 0, affinity_mask(infos[i].id))
      = 2 ^ infos[i].id

\* cpu.rs:166: spread orders "round-robin across packages, then NUMA nodes, then
\* physical cores, with SMT siblings last": a second thread of a core comes only
\* after every core of its package has one.
SiblingsLast ==
  [][Spread => \A i, j \in DOMAIN infos' : (i < j /\ SameCore(infos'[i], infos'[j])) =>
       \A k \in DOMAIN infos' : infos'[k].package = infos'[j].package =>
         \E m \in 1 .. j - 1 : SameCore(infos'[m], infos'[k])]_coreVars
=============================================================================
