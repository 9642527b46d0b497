--------------------------- MODULE CoreSetProofs ---------------------------
(***************************************************************************)
(* Proofs about the selection of cores, for any host and any chain of      *)
(* filters and orders: what sorting and retaining do to a selection, and   *)
(* from that what each step of a chain keeps.                              *)
(***************************************************************************)
EXTENDS CoreSet, FiniteSetTheorems, SequenceTheorems, TLAPS

-----------------------------------------------------------------------------
(* Orders. *)

\* R is a strict total order of the members of S.
Orders(R, S) ==
  /\ \A x \in S : <<x, x>> \notin R
  /\ \A x, y \in S : x # y => <<x, y>> \in R \/ <<y, x>> \in R
  /\ \A x, y, z \in S : <<x, y>> \in R /\ <<y, z>> \in R => <<x, z>> \in R

Below(S, R, x) == {y \in S : <<y, x>> \in R}

LEMMA BelowCounts ==
  ASSUME NEW S, IsFiniteSet(S), NEW R, Orders(R, S), NEW x \in S
  PROVE  /\ Cardinality(Below(S, R, x)) \in 0 .. Cardinality(S) - 1
         /\ \A y \in S : <<x, y>> \in R =>
              Cardinality(Below(S, R, x)) < Cardinality(Below(S, R, y))
<1>1. /\ IsFiniteSet(S \ {x}) /\ Cardinality(S \ {x}) = Cardinality(S) - 1
      /\ Cardinality(S) \in Nat
  BY FS_RemoveElement, FS_CardinalityType
<1>2. Below(S, R, x) \subseteq S \ {x}
  BY DEF Below, Orders
<1>3. IsFiniteSet(Below(S, R, x)) /\ Cardinality(Below(S, R, x)) <= Cardinality(S) - 1
  BY <1>1, <1>2, FS_Subset
<1>4. Cardinality(Below(S, R, x)) \in Nat
  BY <1>3, FS_CardinalityType
<1>5. ASSUME NEW y \in S, <<x, y>> \in R
      PROVE  Cardinality(Below(S, R, x)) < Cardinality(Below(S, R, y))
  <2>1. /\ Below(S, R, x) \subseteq Below(S, R, y)
        /\ x \in Below(S, R, y) /\ x \notin Below(S, R, x)
    BY <1>5 DEF Below, Orders
  <2>2. Below(S, R, y) \subseteq S
    BY DEF Below
  <2>3. IsFiniteSet(Below(S, R, y))
    BY <2>2, FS_Subset
  <2>4. /\ Cardinality(Below(S, R, x)) <= Cardinality(Below(S, R, y))
        /\ Cardinality(Below(S, R, x)) # Cardinality(Below(S, R, y))
    BY <2>1, <2>3, FS_Subset
  <2>5. Cardinality(Below(S, R, y)) \in Nat
    BY <2>3, FS_CardinalityType
  <2> QED
    BY <1>4, <2>4, <2>5
<1> QED
  BY <1>1, <1>3, <1>4, <1>5

\* InOrder lists every member once, each before the ones it is before; a
\* member's place is known by how many are before it.
LEMMA InOrderLists ==
  ASSUME NEW S, IsFiniteSet(S), NEW R, Orders(R, S), NEW at, at = InOrder(S, R)
  PROVE  /\ at \in [1 .. Cardinality(S) -> S]
         /\ \A x \in S : \E k \in DOMAIN at : at[k] = x
         /\ \A k \in DOMAIN at : Cardinality(Below(S, R, at[k])) = k - 1
         /\ \A k, m \in DOMAIN at : k < m => <<at[k], at[m]>> \in R
         /\ \A k, m \in DOMAIN at : at[k] = at[m] => k = m
<1> DEFINE N == Cardinality(S)
           rank == [x \in S |-> Cardinality(Below(S, R, x)) + 1]
<1>0. N \in Nat
  BY FS_CardinalityType
<1>1. \A x \in S : Cardinality(Below(S, R, x)) \in 0 .. N - 1 /\ rank[x] \in 1 .. N
  BY <1>0, BelowCounts
<1>2. \A x, y \in S : x # y => rank[x] # rank[y]
  <2> SUFFICES ASSUME NEW x \in S, NEW y \in S, x # y PROVE rank[x] # rank[y]
    OBVIOUS
  <2>1. <<x, y>> \in R \/ <<y, x>> \in R
    BY DEF Orders
  <2>2. /\ <<x, y>> \in R => Cardinality(Below(S, R, x)) < Cardinality(Below(S, R, y))
        /\ <<y, x>> \in R => Cardinality(Below(S, R, y)) < Cardinality(Below(S, R, x))
    BY BelowCounts
  <2> QED
    BY <1>0, <1>1, <2>1, <2>2
<1>3. rank \in Injection(S, 1 .. N)
  BY <1>1, <1>2 DEF Injection, IsInjective
<1>4. IsFiniteSet(1 .. N) /\ Cardinality(1 .. N) = N
  BY <1>0, FS_Interval
<1>5. rank \in Surjection(S, 1 .. N)
  BY <1>3, <1>4, FS_Injection
<1>6. \A k \in 1 .. N : \E x \in S : Cardinality(Below(S, R, x)) = k - 1
  <2> TAKE k \in 1 .. N
  <2>1. PICK x \in S : rank[x] = k
    BY <1>5 DEF Surjection
  <2> QED
    BY <1>0, <1>1, <2>1
<1>7. at = [k \in 1 .. N |-> CHOOSE x \in S : Cardinality(Below(S, R, x)) = k - 1]
  BY DEF InOrder, Below
<1>8. \A k \in 1 .. N : at[k] \in S /\ Cardinality(Below(S, R, at[k])) = k - 1
  BY <1>6, <1>7
<1>9. at \in [1 .. N -> S]
  BY <1>7, <1>8
<1>10. \A x \in S : \E k \in 1 .. N : at[k] = x
  <2> TAKE x \in S
  <2>1. rank[x] \in 1 .. N /\ Cardinality(Below(S, R, x)) = rank[x] - 1
    BY <1>0, <1>1
  <2>2. at[rank[x]] \in S /\ Cardinality(Below(S, R, at[rank[x]])) = rank[x] - 1
    BY <1>8, <2>1
  <2>3. rank[at[rank[x]]] = rank[x]
    BY <1>0, <1>1, <2>1, <2>2
  <2>4. at[rank[x]] = x
    BY <1>2, <2>2, <2>3
  <2> QED
    BY <2>1, <2>4
<1>11. \A k, m \in 1 .. N : at[k] = at[m] => k = m
  BY <1>0, <1>8
<1>12. \A k, m \in 1 .. N : k < m => <<at[k], at[m]>> \in R
  <2> SUFFICES ASSUME NEW k \in 1 .. N, NEW m \in 1 .. N, k < m PROVE <<at[k], at[m]>> \in R
    OBVIOUS
  <2>1. at[k] \in S /\ at[m] \in S /\ at[k] # at[m]
    BY <1>8, <1>11
  <2>2. <<at[m], at[k]>> \in R => m - 1 < k - 1
    BY <1>8, <2>1, BelowCounts
  <2> QED
    BY <2>1, <2>2 DEF Orders
<1> QED
  BY <1>8, <1>9, <1>10, <1>11, <1>12

LEMMA IncreasingOrders ==
  ASSUME NEW S \in SUBSET Nat
  PROVE  Orders(Increasing(S), S)
  BY DEF Orders, Increasing

\* A finite set of naturals that has a member has a least one.
LEMMA Least ==
  ASSUME NEW S \in SUBSET Nat, IsFiniteSet(S), NEW x \in S
  PROVE  \E m \in S : \A y \in S : m <= y
<1> DEFINE R == Increasing(S)
           at == InOrder(S, R)
<1>1. /\ at \in [1 .. Cardinality(S) -> S]
      /\ \A y \in S : \E k \in DOMAIN at : at[k] = y
      /\ \A k, m \in DOMAIN at : k < m => <<at[k], at[m]>> \in R
  <2> HIDE DEF R
  <2>1. Orders(R, S)
    BY IncreasingOrders DEF R
  <2> QED
    BY <2>1, InOrderLists
<1>2. Cardinality(S) \in Nat
  BY FS_CardinalityType
<1> HIDE DEF at
<1>3. 1 \in 1 .. Cardinality(S) /\ at[1] \in S
  BY <1>1, <1>2
<1>4. \A y \in S : at[1] <= y
  <2> TAKE y \in S
  <2>1. PICK k \in 1 .. Cardinality(S) : at[k] = y
    BY <1>1
  <2>2. k # 1 => <<at[1], at[k]>> \in R
    BY <1>1, <1>2, <1>3, <2>1
  <2>3. <<at[1], at[k]>> \in R => at[1] < at[k]
    BY DEF Increasing
  <2>4. at[1] \in Nat
    BY <1>3
  <2> QED
    BY <2>1, <2>2, <2>3, <2>4
<1> QED
  BY <1>3, <1>4

\* Two tuples of d integers: Before is a strict total order of them.
Tuples(d) == [1 .. d -> Int]

LEMMA BeforeOrders ==
  ASSUME NEW d \in Nat, NEW x \in Tuples(d), NEW y \in Tuples(d), NEW z \in Tuples(d)
  PROVE  /\ ~Before(x, x)
         /\ x = y \/ Before(x, y) \/ Before(y, x)
         /\ Before(x, y) /\ Before(y, z) => Before(x, z)
<1>1. ~Before(x, x)
  BY DEF Before, Tuples
<1>2. ASSUME x # y PROVE Before(x, y) \/ Before(y, x)
  <2> DEFINE S == {i \in 1 .. d : x[i] # y[i]}
  <2>1. PICK i \in S : TRUE
    BY <1>2 DEF Tuples
  <2>2. S \subseteq Nat /\ S \subseteq 1 .. d /\ IsFiniteSet(1 .. d)
    BY FS_Interval
  <2>3. IsFiniteSet(S)
    BY <2>2, FS_Subset
  <2> HIDE DEF S
  <2>4. PICK m \in S : \A j \in S : m <= j
    BY <2>1, <2>2, <2>3, Least
  <2>5. m \in 1 .. d /\ x[m] # y[m] /\ \A j \in 1 .. m - 1 : x[j] = y[j]
    BY <2>4 DEF S
  <2>6. x[m] < y[m] \/ y[m] < x[m]
    BY <2>5 DEF Tuples
  <2> QED
    BY <2>5, <2>6 DEF Before, Tuples
<1>3. ASSUME Before(x, y), Before(y, z) PROVE Before(x, z)
  <2>1. PICK i \in 1 .. d : x[i] < y[i] /\ \A j \in 1 .. i - 1 : x[j] = y[j]
    BY <1>3 DEF Before, Tuples
  <2>2. PICK k \in 1 .. d : y[k] < z[k] /\ \A j \in 1 .. k - 1 : y[j] = z[j]
    BY <1>3 DEF Before, Tuples
  <2>3. CASE i < k
    <3>1. x[i] < z[i] /\ \A j \in 1 .. i - 1 : x[j] = z[j]
      BY <2>1, <2>2, <2>3
    <3> QED
      BY <3>1 DEF Before, Tuples
  <2>4. CASE i >= k
    <3>1. x[k] < z[k] /\ \A j \in 1 .. k - 1 : x[j] = z[j]
      BY <2>1, <2>2, <2>4 DEF Tuples
    <3> QED
      BY <3>1 DEF Before, Tuples
  <2> QED
    BY <2>3, <2>4
<1> QED
  BY <1>1, <1>2, <1>3

LEMMA ByKeyOrders ==
  ASSUME NEW d \in Nat, NEW n \in Nat, NEW key \in [1 .. n -> Tuples(d)]
  PROVE  Orders(ByKey(key), 1 .. n)
<1>1. \A i, j \in 1 .. n : <<i, j>> \in ByKey(key) <=>
        Before(key[i], key[j]) \/ (key[i] = key[j] /\ i < j)
  BY DEF ByKey
<1>2. \A i, j, k \in 1 .. n :
        /\ ~Before(key[i], key[i])
        /\ key[i] = key[j] \/ Before(key[i], key[j]) \/ Before(key[j], key[i])
        /\ Before(key[i], key[j]) /\ Before(key[j], key[k]) => Before(key[i], key[k])
  BY BeforeOrders
<1>3. \A i, j, k \in 1 .. n :
        <<i, j>> \in ByKey(key) /\ <<j, k>> \in ByKey(key) => <<i, k>> \in ByKey(key)
  BY <1>1, <1>2
<1>4. \A i, j \in 1 .. n : i # j => <<i, j>> \in ByKey(key) \/ <<j, i>> \in ByKey(key)
  BY <1>1, <1>2
<1>5. \A i \in 1 .. n : <<i, i>> \notin ByKey(key)
  BY <1>1, <1>2
<1> QED
  BY <1>3, <1>4, <1>5 DEF Orders

-----------------------------------------------------------------------------
(* Sorting and retaining. *)

\* t is the elements of s at the indices at, in that order, each index once.
Picks(s, at, t) ==
  /\ DOMAIN t = 1 .. Len(t) /\ Len(t) \in Nat
  /\ at \in [1 .. Len(t) -> DOMAIN s]
  /\ t = [k \in 1 .. Len(t) |-> s[at[k]]]
  /\ \A k, m \in 1 .. Len(t) : at[k] = at[m] => k = m

LEMMA SortPicks ==
  ASSUME NEW n \in Nat, NEW s, DOMAIN s = 1 .. n, NEW d \in Nat,
         NEW key \in [1 .. n -> Tuples(d)], NEW t, t = sort_by_key(s, key)
  PROVE  \E at : /\ Picks(s, at, t) /\ Len(t) = n
                 /\ \A i \in 1 .. n : \E k \in 1 .. n : at[k] = i
                 /\ \A k, m \in 1 .. n : k < m => <<at[k], at[m]>> \in ByKey(key)
<1> DEFINE R == ByKey(key)
           at == InOrder(1 .. n, R)
<1>1. Orders(R, 1 .. n)
  BY ByKeyOrders
<1>2. IsFiniteSet(1 .. n) /\ Cardinality(1 .. n) = n
  BY FS_Interval
<1>3. t = [k \in DOMAIN at |-> s[at[k]]]
  BY DEF sort_by_key
<1> HIDE DEF R
<1>a. PICK D : D = 1 .. n
  OBVIOUS
<1>b. at = InOrder(D, R) /\ IsFiniteSet(D) /\ Orders(R, D) /\ Cardinality(D) = n
  BY <1>1, <1>2, <1>a, Zenon
<1> HIDE DEF at
<1>c. /\ at \in [1 .. Cardinality(D) -> D]
      /\ \A i \in D : \E k \in DOMAIN at : at[k] = i
      /\ \A k, m \in DOMAIN at : k < m => <<at[k], at[m]>> \in R
      /\ \A k, m \in DOMAIN at : at[k] = at[m] => k = m
  BY <1>b, InOrderLists
<1>4. /\ at \in [1 .. n -> 1 .. n]
      /\ \A i \in 1 .. n : \E k \in DOMAIN at : at[k] = i
      /\ \A k, m \in DOMAIN at : k < m => <<at[k], at[m]>> \in R
      /\ \A k, m \in DOMAIN at : at[k] = at[m] => k = m
  BY <1>a, <1>b, <1>c, Zenon
<1>5. t = [k \in 1 .. n |-> s[at[k]]]
  BY <1>3, <1>4
<1>6. DOMAIN t = 1 .. n /\ Len(t) = n
  BY <1>5
<1>7. Picks(s, at, t)
  BY <1>4, <1>5, <1>6 DEF Picks
<1> QED
  BY <1>4, <1>6, <1>7 DEF R

LEMMA RetainPicks ==
  ASSUME NEW n \in Nat, NEW s, DOMAIN s = 1 .. n, NEW I \in SUBSET (1 .. n),
         NEW t, t = retain(s, I)
  PROVE  \E at : /\ Picks(s, at, t)
                 /\ \A k \in 1 .. Len(t) : at[k] \in I
                 /\ \A i \in I : \E k \in 1 .. Len(t) : at[k] = i
                 /\ \A k, m \in 1 .. Len(t) : k < m => at[k] < at[m]
<1> DEFINE R == Increasing(I)
           at == InOrder(I, R)
           c == Cardinality(I)
<1>1. Orders(R, I)
  BY IncreasingOrders
<1>2. IsFiniteSet(I) /\ c \in Nat
  <2>1. IsFiniteSet(1 .. n)
    BY FS_Interval
  <2>2. IsFiniteSet(I)
    BY <2>1, FS_Subset
  <2> QED
    BY <2>2, FS_CardinalityType
<1>3. t = [k \in DOMAIN at |-> s[at[k]]]
  BY DEF retain
<1> HIDE DEF R
<1>4. /\ at \in [1 .. c -> I]
      /\ \A i \in I : \E k \in DOMAIN at : at[k] = i
      /\ \A k, m \in DOMAIN at : k < m => <<at[k], at[m]>> \in R
      /\ \A k, m \in DOMAIN at : at[k] = at[m] => k = m
  BY <1>1, <1>2, InOrderLists
<1> HIDE DEF at, c
<1>5. t = [k \in 1 .. c |-> s[at[k]]]
  BY <1>3, <1>4
<1>6. DOMAIN t = 1 .. c /\ Len(t) = c
  BY <1>2, <1>5
<1>7. Picks(s, at, t)
  BY <1>2, <1>4, <1>5, <1>6 DEF Picks
<1>8. \A k, m \in 1 .. c : <<at[k], at[m]>> \in R => at[k] < at[m]
  BY DEF R, Increasing
<1> QED
  BY <1>4, <1>6, <1>7, <1>8

-----------------------------------------------------------------------------
(* The inductive invariants of a selection. *)

\* A selection is rows.
RowsType == host \in Hosts /\ infos \in Seq(Info)

\* Every row of one that began with permitted() is of a permitted core, as sysfs
\* shows it, and of another one.
RowsPermit ==
  seed = "permitted" =>
    /\ \A i \in DOMAIN infos :
         infos[i].id \in ToSet(host.mask) /\ infos[i] = topology_of(host, infos[i].id)
    /\ \A i, j \in DOMAIN infos : i # j => infos[i].id # infos[j].id

RowsInv == RowsType /\ RowsPermit

\* The threads of a core stay in the order of their ids.
SiblingsInv ==
  seed = "permitted" =>
    \A i, j \in DOMAIN infos : i < j /\ SameCore(infos[i], infos[j]) => infos[i].id < infos[j].id

LEMMA InfoFields ==
  ASSUME NEW s \in Seq(Info)
  PROVE  /\ DOMAIN s = 1 .. Len(s) /\ Len(s) \in Nat
         /\ \A i \in DOMAIN s : /\ i \in Nat /\ s[i] \in Info
                                /\ s[i].id \in Nat /\ s[i].core \in Nat
                                /\ s[i].package \in Nat /\ s[i].numa_node \in Nat
<1>1. DOMAIN s = 1 .. Len(s) /\ Len(s) \in Nat /\ \A i \in DOMAIN s : i \in Nat /\ s[i] \in Info
  OBVIOUS
<1>2. \A c \in Info : c.id \in Nat /\ c.core \in Nat /\ c.package \in Nat /\ c.numa_node \in Nat
  BY DEF Info
<1> QED
  BY <1>1, <1>2

LEMMA TopologyType ==
  ASSUME NEW h \in Hosts, NEW id \in ToSet(h.mask)
  PROVE  id \in Nat /\ topology_of(h, id) \in Info /\ topology_of(h, id).id = id
<1>1. h.mask \in Seq(Nat)
  BY HostsAssumption
<1>2. id \in Nat
  BY <1>1 DEF ToSet
<1>3. ASSUME NEW attribute \in {h.core, h.package, h.node}, NEW default \in Nat
      PROVE  unwrap_or(attribute[id], default) \in Nat
  <2>1. attribute[id] \subseteq Nat
    BY HostsAssumption
  <2> QED
    BY <2>1 DEF unwrap_or
<1>4. /\ unwrap_or(h.core[id], id) \in Nat /\ unwrap_or(h.package[id], 0) \in Nat
      /\ unwrap_or(h.node[id], 0) \in Nat
  BY <1>2, <1>3
<1> QED
  BY <1>2, <1>4 DEF topology_of, Info

LEMMA ToSetFinite ==
  ASSUME NEW T, NEW s \in Seq(T)
  PROVE  IsFiniteSet(ToSet(s)) /\ Cardinality(ToSet(s)) \in Nat
<1>1. PICK n \in Nat : DOMAIN s = 1 .. n
  OBVIOUS
<1>2. IsFiniteSet(1 .. n)
  BY FS_Interval
<1>3. [i \in 1 .. n |-> s[i]] \in Surjection(1 .. n, ToSet(s))
  BY <1>1 DEF Surjection, ToSet
<1>4. IsFiniteSet(ToSet(s))
  BY <1>2, <1>3, FS_Surjection
<1> QED
  BY <1>4, FS_CardinalityType

\* permitted() lists the cores of the mask by id.
LEMMA PermittedRows ==
  ASSUME NEW h \in Hosts, NEW s, s = permitted(h)
  PROVE  /\ s \in Seq(Info)
         /\ \A i \in DOMAIN s : s[i].id \in ToSet(h.mask) /\ s[i] = topology_of(h, s[i].id)
         /\ \A i, j \in DOMAIN s : i < j => s[i].id < s[j].id
<1> DEFINE S == ToSet(h.mask)
           R == Increasing(S)
           at == InOrder(S, R)
           c == Cardinality(S)
<1>1. h.mask \in Seq(Nat) /\ S \in SUBSET Nat
  BY HostsAssumption DEF ToSet
<1>2. IsFiniteSet(S) /\ c \in Nat
  BY <1>1, ToSetFinite
<1>3. Orders(R, S)
  BY <1>1, IncreasingOrders
<1>4. cores(h) = at
  BY DEF cores
<1> HIDE DEF R
<1>5. at \in [1 .. c -> S] /\ \A k, m \in DOMAIN at : k < m => <<at[k], at[m]>> \in R
  BY <1>2, <1>3, InOrderLists
<1>6. s = [i \in DOMAIN at |-> topology_of(h, at[i])]
  BY <1>4 DEF permitted
<1>7. \A k, m \in DOMAIN at : k < m => at[k] < at[m]
  BY <1>5 DEF R, Increasing
<1> HIDE DEF at, S, c
<1>8. \A i \in 1 .. c : /\ at[i] \in ToSet(h.mask) /\ s[i] = topology_of(h, at[i])
                         /\ s[i] \in Info /\ s[i].id = at[i]
  <2> TAKE i \in 1 .. c
  <2>1. at[i] \in ToSet(h.mask) /\ s[i] = topology_of(h, at[i])
    BY <1>5, <1>6 DEF S
  <2> QED
    BY <2>1, TopologyType
<1>9. DOMAIN s = 1 .. c /\ s \in Seq(Info)
  <2>1. DOMAIN s = 1 .. c /\ s = [i \in 1 .. c |-> s[i]]
    BY <1>5, <1>6
  <2> QED
    BY <1>2, <1>8, <2>1
<1> QED
  BY <1>5, <1>7, <1>8, <1>9

LEMMA RowsInit == ChooseHost => RowsInv /\ SiblingsInv
<1> SUFFICES ASSUME ChooseHost PROVE RowsInv /\ SiblingsInv
  OBVIOUS
<1> DEFINE s == permitted(host)
<1>0. host \in Hosts
  BY DEF ChooseHost
<1> HIDE DEF s
<1>1. /\ s \in Seq(Info)
      /\ \A i \in DOMAIN s : s[i].id \in ToSet(host.mask) /\ s[i] = topology_of(host, s[i].id)
      /\ \A i, j \in DOMAIN s : i < j => s[i].id < s[j].id
  BY <1>0, PermittedRows DEF s
<1>2. CASE seed = "permitted" /\ infos = s
  <2>0. \A i \in DOMAIN s : i \in Nat /\ s[i].id \in Nat
    BY <1>1, InfoFields
  <2>1. \A i, j \in DOMAIN s : i # j => s[i].id # s[j].id
    BY <1>1, <2>0
  <2> QED
    BY <1>0, <1>1, <1>2, <2>1 DEF RowsInv, RowsType, RowsPermit, SiblingsInv
<1>3. CASE seed = "explicit" /\ infos \in RowLists
  BY <1>0, <1>3, RowsAssumption DEF RowsInv, RowsType, RowsPermit, SiblingsInv
<1> QED
  BY <1>2, <1>3 DEF ChooseHost, s

-----------------------------------------------------------------------------
(* The orders spread and pack sort by. *)

PackKey(s) == [i \in DOMAIN s |-> <<s[i].package, s[i].numa_node, s[i].core, s[i].id>>]
ColumnKey(s) == [i \in DOMAIN s |-> <<s[i].numa_node, s[i].core, s[i].id>>]
SpreadKey(s) == [i \in DOMAIN s |-> <<Row(s, i), s[i].package>>]
Column(s, p) == {i \in DOMAIN s : s[i].package = p}

LEMMA KeyTypes ==
  ASSUME NEW s \in Seq(Info)
  PROVE  /\ PackKey(s) \in [1 .. Len(s) -> Tuples(4)]
         /\ ColumnKey(s) \in [1 .. Len(s) -> Tuples(3)]
<1>1. DOMAIN s = 1 .. Len(s)
  BY InfoFields
<1>2. \A i \in DOMAIN s : /\ s[i].id \in Int /\ s[i].core \in Int
                          /\ s[i].package \in Int /\ s[i].numa_node \in Int
  BY InfoFields
<1>3. \A a, b, c, e \in Int : <<a, b, c, e>> \in Tuples(4) /\ <<a, b, c>> \in Tuples(3)
  BY DEF Tuples
<1>4. /\ \A i \in DOMAIN s : PackKey(s)[i] \in Tuples(4)
      /\ \A i \in DOMAIN s : ColumnKey(s)[i] \in Tuples(3)
  BY <1>2, <1>3 DEF PackKey, ColumnKey
<1> QED
  BY <1>1, <1>4 DEF PackKey, ColumnKey

\* A package's column, drained in order: its rows are 1, 2, 3 and so on.
LEMMA ColumnRows ==
  ASSUME NEW s \in Seq(Info), NEW p
  PROVE  /\ IsFiniteSet(Column(s, p)) /\ Orders(ByKey(ColumnKey(s)), Column(s, p))
         /\ \A i \in Column(s, p) :
              Row(s, i) = Cardinality(Below(Column(s, p), ByKey(ColumnKey(s)), i)) + 1
<1> DEFINE R == ByKey(ColumnKey(s))
<1>1. DOMAIN s = 1 .. Len(s) /\ Len(s) \in Nat
  BY InfoFields
<1>2. Orders(R, DOMAIN s)
  BY <1>1, KeyTypes, ByKeyOrders
<1>3. IsFiniteSet(DOMAIN s)
  BY <1>1, FS_Interval
<1>4. Column(s, p) \subseteq DOMAIN s
  BY DEF Column
<1>5. IsFiniteSet(Column(s, p)) /\ Orders(R, Column(s, p))
  BY <1>2, <1>3, <1>4, FS_Subset DEF Orders
<1>6. ASSUME NEW i \in Column(s, p)
      PROVE  Row(s, i) = Cardinality(Below(Column(s, p), R, i)) + 1
  <2>1. {j \in DOMAIN s : s[j].package = s[i].package /\ <<j, i>> \in R}
          = Below(Column(s, p), R, i)
    BY <1>6 DEF Column, Below
  <2>2. Row(s, i) =
          Cardinality({j \in DOMAIN s : s[j].package = s[i].package /\ <<j, i>> \in R}) + 1
    BY DEF Row, ColumnKey
  <2> QED
    BY <2>1, <2>2
<1> QED
  BY <1>5, <1>6

LEMMA RowOrder ==
  ASSUME NEW s \in Seq(Info), NEW i \in DOMAIN s
  PROVE  /\ Row(s, i) \in Nat \ {0}
         /\ \A j \in DOMAIN s : s[j].package = s[i].package /\ <<i, j>> \in ByKey(ColumnKey(s))
                                => Row(s, i) < Row(s, j)
<1> DEFINE R == ByKey(ColumnKey(s))
           C == Column(s, s[i].package)
<1>1. /\ IsFiniteSet(C) /\ Orders(R, C)
      /\ \A j \in C : Row(s, j) = Cardinality(Below(C, R, j)) + 1
  BY ColumnRows
<1>2. i \in C /\ \A j \in DOMAIN s : s[j].package = s[i].package => j \in C
  BY DEF Column
<1> HIDE DEF R, C
<1>3. \A j \in C : Cardinality(Below(C, R, j)) \in Nat
  <2> TAKE j \in C
  <2>1. Cardinality(Below(C, R, j)) \in 0 .. Cardinality(C) - 1
    BY <1>1, BelowCounts
  <2> QED
    BY <1>1, <2>1, FS_CardinalityType
<1>4. \A j \in C : <<i, j>> \in R => Cardinality(Below(C, R, i)) < Cardinality(Below(C, R, j))
  BY <1>1, <1>2, BelowCounts
<1>5. \A j \in C : <<i, j>> \in R => Row(s, i) < Row(s, j)
  BY <1>1, <1>2, <1>3, <1>4
<1> QED
  BY <1>1, <1>2, <1>3, <1>5 DEF R

LEMMA SpreadKeyType ==
  ASSUME NEW s \in Seq(Info)
  PROVE  SpreadKey(s) \in [1 .. Len(s) -> Tuples(2)]
<1>1. DOMAIN s = 1 .. Len(s)
  BY InfoFields
<1>2. \A i \in DOMAIN s : s[i].package \in Int /\ Row(s, i) \in Int
  BY InfoFields, RowOrder
<1>3. \A a, b \in Int : <<a, b>> \in Tuples(2)
  BY DEF Tuples
<1> QED
  BY <1>1, <1>2, <1>3 DEF SpreadKey

\* What a pair of pack's keys says of the rows.
LEMMA PackOrder ==
  ASSUME NEW s \in Seq(Info), NEW i \in DOMAIN s, NEW j \in DOMAIN s,
         <<i, j>> \in ByKey(PackKey(s))
  PROVE  \/ s[i].package < s[j].package
         \/ /\ s[i].package = s[j].package
            /\ \/ s[i].numa_node < s[j].numa_node
               \/ /\ s[i].numa_node = s[j].numa_node
                  /\ \/ s[i].core < s[j].core
                     \/ s[i].core = s[j].core /\ s[i].id <= s[j].id
<1> DEFINE x == <<s[i].package, s[i].numa_node, s[i].core, s[i].id>>
           y == <<s[j].package, s[j].numa_node, s[j].core, s[j].id>>
<1>0. /\ s[i].package \in Nat /\ s[i].numa_node \in Nat /\ s[i].core \in Nat /\ s[i].id \in Nat
      /\ s[j].package \in Nat /\ s[j].numa_node \in Nat /\ s[j].core \in Nat /\ s[j].id \in Nat
  BY InfoFields
<1>1. PackKey(s)[i] = x /\ PackKey(s)[j] = y
  BY DEF PackKey
<1>2. Before(x, y) \/ x = y
  BY <1>1 DEF ByKey
<1>3. /\ x[1] = s[i].package /\ x[2] = s[i].numa_node /\ x[3] = s[i].core /\ x[4] = s[i].id
      /\ y[1] = s[j].package /\ y[2] = s[j].numa_node /\ y[3] = s[j].core /\ y[4] = s[j].id
      /\ DOMAIN x = 1 .. 4
  OBVIOUS
<1> HIDE DEF x, y
<1>4. ASSUME NEW e \in 1 .. 4, x[e] < y[e], \A c \in 1 .. e - 1 : x[c] = y[c]
      PROVE  \/ x[1] < y[1]
             \/ x[1] = y[1] /\ x[2] < y[2]
             \/ x[1] = y[1] /\ x[2] = y[2] /\ x[3] < y[3]
             \/ x[1] = y[1] /\ x[2] = y[2] /\ x[3] = y[3] /\ x[4] < y[4]
  <2>1. CASE e = 1
    BY <1>4, <2>1
  <2>2. CASE e = 2
    BY <1>4, <2>2
  <2>3. CASE e = 3
    BY <1>4, <2>3
  <2>4. CASE e = 4
    BY <1>4, <2>4
  <2> QED
    BY <2>1, <2>2, <2>3, <2>4
<1> QED
  BY <1>0, <1>2, <1>3, <1>4 DEF Before

\* Both orders, as permutations of the selection.
LEMMA OrderPicks ==
  ASSUME NEW s \in Seq(Info), NEW key \in {PackKey(s), SpreadKey(s)},
         NEW t, t = sort_by_key(s, key)
  PROVE  \E at : /\ Picks(s, at, t) /\ Len(t) = Len(s)
                 /\ \A i \in DOMAIN s : \E k \in DOMAIN s : at[k] = i
                 /\ \A k, m \in DOMAIN s : k < m => <<at[k], at[m]>> \in ByKey(key)
<1>1. DOMAIN s = 1 .. Len(s) /\ Len(s) \in Nat
  BY InfoFields
<1>2. PICK d \in Nat : key \in [1 .. Len(s) -> Tuples(d)]
  BY KeyTypes, SpreadKeyType
<1>3. PICK n \in Nat : n = Len(s)
  BY <1>1
<1>4. DOMAIN s = 1 .. n /\ key \in [1 .. n -> Tuples(d)]
  BY <1>1, <1>2, <1>3, Zenon
<1>5. \E at : /\ Picks(s, at, t) /\ Len(t) = n
              /\ \A i \in 1 .. n : \E k \in 1 .. n : at[k] = i
              /\ \A k, m \in 1 .. n : k < m => <<at[k], at[m]>> \in ByKey(key)
  BY <1>4, SortPicks
<1> QED
  BY <1>3, <1>4, <1>5, Zenon

LEMMA PackSorts == ASSUME NEW s PROVE pack(s) = sort_by_key(s, PackKey(s))
  BY DEF pack, PackKey
LEMMA SpreadSorts == ASSUME NEW s PROVE spread(s) = sort_by_key(s, SpreadKey(s))
  BY DEF spread, SpreadKey

\* The threads of a core keep the order of their ids in both, if they are on
\* one NUMA node.
LEMMA SiblingOrder ==
  ASSUME NEW s \in Seq(Info), NEW key \in {PackKey(s), SpreadKey(s)},
         NEW i \in DOMAIN s, NEW j \in DOMAIN s, <<i, j>> \in ByKey(key),
         SameCore(s[i], s[j]), s[i].numa_node = s[j].numa_node, s[i].id # s[j].id
  PROVE  s[i].id < s[j].id
<1>0. /\ s[i].package = s[j].package /\ s[i].core = s[j].core
      /\ s[i].id \in Nat /\ s[j].id \in Nat /\ s[j].package \in Nat
      /\ s[j].numa_node \in Nat /\ s[j].core \in Nat
  BY InfoFields DEF SameCore
<1>1. ASSUME ~(s[i].id < s[j].id) PROVE FALSE
  <2>1. s[j].id < s[i].id
    BY <1>0, <1>1
  <2>2. CASE key = PackKey(s)
    BY <1>0, <2>1, <2>2, PackOrder
  <2>3. CASE key = SpreadKey(s)
    <3> DEFINE x == <<s[i].numa_node, s[i].core, s[i].id>>
               y == <<s[j].numa_node, s[j].core, s[j].id>>
    <3>1. DOMAIN ColumnKey(s) = DOMAIN s /\ ColumnKey(s)[i] = x /\ ColumnKey(s)[j] = y
      BY DEF ColumnKey
    <3>a. y[1] = x[1] /\ y[2] = x[2] /\ y[3] < x[3] /\ DOMAIN y = 1 .. 3
      BY <1>0, <2>1
    <3> HIDE DEF x, y
    <3>2. Before(y, x)
      <4>1. 3 \in DOMAIN y /\ \A e \in 1 .. 3 - 1 : y[e] = x[e]
        BY <3>a
      <4> QED
        BY <3>a, <4>1 DEF Before
    <3>3. <<j, i>> \in ByKey(ColumnKey(s))
      BY <3>1, <3>2 DEF ByKey
    <3>4. Row(s, j) < Row(s, i) /\ Row(s, i) \in Nat /\ Row(s, j) \in Nat
      BY <1>0, <3>3, RowOrder
    <3>5. DOMAIN key = DOMAIN s /\ key[i] = <<Row(s, i), s[i].package>>
          /\ key[j] = <<Row(s, j), s[j].package>>
      BY <2>3 DEF SpreadKey
    <3>6. \/ Before(<<Row(s, i), s[i].package>>, <<Row(s, j), s[j].package>>)
          \/ <<Row(s, i), s[i].package>> = <<Row(s, j), s[j].package>>
      BY <3>5 DEF ByKey
    <3> QED
      BY <1>0, <3>4, <3>6 DEF Before
  <2> QED
    BY <2>2, <2>3
<1> QED
  BY <1>1

-----------------------------------------------------------------------------
(* Steps of a chain. *)

\* The filters and take keep the order of what they keep.
Narrows(s, at, t) == Picks(s, at, t) /\ \A k, m \in 1 .. Len(t) : k < m => at[k] < at[m]

LEMMA RetainNarrows ==
  ASSUME NEW s \in Seq(Info), NEW I, I \subseteq DOMAIN s, NEW t, t = retain(s, I)
  PROVE  \E at : Narrows(s, at, t)
<1>1. PICK n \in Nat : DOMAIN s = 1 .. n
  BY InfoFields
<1>2. I \in SUBSET (1 .. n)
  BY <1>1
<1>3. \E at : Picks(s, at, t) /\ \A k, m \in 1 .. Len(t) : k < m => at[k] < at[m]
  BY <1>1, <1>2, RetainPicks
<1> QED
  BY <1>3 DEF Narrows

LEMMA TakeNarrows ==
  ASSUME infos \in Seq(Info), NEW n \in Nat, Take(n)
  PROVE  \E at : Narrows(infos, at, infos')
<1>0. DOMAIN infos = 1 .. Len(infos) /\ Len(infos) \in Nat
  BY InfoFields
<1>1. PICK m \in 0 .. Len(infos) : infos' = SubSeq(infos, 1, m)
  <2> DEFINE m == IF n < Len(infos) THEN n ELSE Len(infos)
  <2>1. m \in 0 .. Len(infos) /\ infos' = SubSeq(infos, 1, m)
    BY <1>0 DEF Take
  <2> QED
    BY <2>1
<1>2. infos' = [k \in 1 .. m |-> infos[k]]
  BY <1>0, <1>1
<1>3. DOMAIN infos' = 1 .. m /\ Len(infos') = m /\ \A k \in 1 .. m : infos'[k] = infos[k]
  BY <1>0, <1>2
<1> DEFINE at == [k \in 1 .. m |-> k]
<1>4. at \in [1 .. m -> DOMAIN infos] /\ \A k \in 1 .. m : at[k] = k
  BY <1>0
<1> HIDE DEF at
<1>a. infos' = [k \in 1 .. m |-> infos[at[k]]]
  BY <1>2, <1>4
<1>5. Narrows(infos, at, infos')
  BY <1>0, <1>3, <1>4, <1>a DEF Narrows, Picks
<1> QED
  BY <1>5

LEMMA ChainMoves ==
  ASSUME infos \in Seq(Info), Chain
  PROVE  \/ Spread \/ Pack
         \/ \E at : Narrows(infos, at, infos')
<1>1. CASE PhysicalOnly
  <2>1. PICK I : I \subseteq DOMAIN infos /\ infos' = retain(infos, I)
    BY <1>1 DEF PhysicalOnly, physical_only
  <2> QED
    BY <2>1, RetainNarrows
<1>2. CASE \E n \in Nodes : OnNumaNode(n) \/ OnPackage(n)
  <2>1. PICK I : I \subseteq DOMAIN infos /\ infos' = retain(infos, I)
    BY <1>2 DEF OnNumaNode, OnPackage
  <2> QED
    BY <2>1, RetainNarrows
<1>3. CASE \E I \in SUBSET DOMAIN infos : Filter(I)
  <2>1. PICK I : I \subseteq DOMAIN infos /\ infos' = retain(infos, I)
    BY <1>3 DEF Filter
  <2> QED
    BY <2>1, RetainNarrows
<1>4. CASE \E n \in 0 .. Len(infos) : Take(n)
  <2>1. PICK n \in Nat : Take(n)
    BY <1>4, InfoFields
  <2> QED
    BY <2>1, TakeNarrows
<1> QED
  BY <1>1, <1>2, <1>3, <1>4 DEF Chain

LEMMA OrderMoves ==
  ASSUME infos \in Seq(Info), Spread \/ Pack
  PROVE  \E key \in {PackKey(infos), SpreadKey(infos)} : \E at :
           /\ Picks(infos, at, infos') /\ Len(infos') = Len(infos)
           /\ \A i \in DOMAIN infos : \E k \in DOMAIN infos : at[k] = i
           /\ \A k, m \in DOMAIN infos : k < m => <<at[k], at[m]>> \in ByKey(key)
<1>1. PICK key \in {PackKey(infos), SpreadKey(infos)} : infos' = sort_by_key(infos, key)
  BY PackSorts, SpreadSorts DEF Spread, Pack
<1> QED
  BY <1>1, OrderPicks

LEMMA RowsStep ==
  ASSUME RowsInv, Chain
  PROVE  RowsInv'
<1>0. host' = host /\ seed' = seed /\ infos \in Seq(Info) /\ DOMAIN infos = 1 .. Len(infos)
  BY InfoFields DEF Chain, RowsInv, RowsType
<1>1. PICK at : Picks(infos, at, infos')
  BY <1>0, ChainMoves, OrderMoves DEF Narrows
<1>2. /\ DOMAIN infos' = 1 .. Len(infos') /\ Len(infos') \in Nat
      /\ \A k \in DOMAIN infos' : at[k] \in DOMAIN infos /\ infos'[k] = infos[at[k]]
      /\ \A k, m \in DOMAIN infos' : at[k] = at[m] => k = m
  BY <1>1 DEF Picks
<1>3. \A k \in DOMAIN infos' : infos'[k] \in Info
  BY <1>0, <1>2, InfoFields
<1>4. infos' \in Seq(Info)
  <2>1. infos' = [k \in 1 .. Len(infos') |-> infos[at[k]]]
    BY <1>1 DEF Picks
  <2> QED
    BY <1>2, <1>3, <2>1
<1>5. ASSUME seed = "permitted"
      PROVE  /\ \A i \in DOMAIN infos' : /\ infos'[i].id \in ToSet(host.mask)
                                        /\ infos'[i] = topology_of(host, infos'[i].id)
             /\ \A i, j \in DOMAIN infos' : i # j => infos'[i].id # infos'[j].id
  BY <1>2, <1>5 DEF RowsInv, RowsPermit
<1> QED
  BY <1>0, <1>4, <1>5 DEF RowsInv, RowsType, RowsPermit

\* The threads of one core are on one NUMA node.
OneNodePerCore(h) ==
  \A a, b \in ToSet(h.mask) :
    SameCore(topology_of(h, a), topology_of(h, b)) =>
      topology_of(h, a).numa_node = topology_of(h, b).numa_node

LEMMA SiblingsStep ==
  ASSUME RowsInv, SiblingsInv, OneNodePerCore(host), Chain
  PROVE  SiblingsInv'
<1>0. seed' = seed /\ infos \in Seq(Info) /\ DOMAIN infos = 1 .. Len(infos)
  BY InfoFields DEF Chain, RowsInv, RowsType
<1> SUFFICES ASSUME seed = "permitted", NEW k \in DOMAIN infos', NEW m \in DOMAIN infos',
                    k < m, SameCore(infos'[k], infos'[m])
             PROVE  infos'[k].id < infos'[m].id
  BY <1>0 DEF SiblingsInv
<1>1. CASE \E at : Narrows(infos, at, infos')
  <2>1. PICK at : Narrows(infos, at, infos')
    BY <1>1
  <2>2. /\ at[k] \in DOMAIN infos /\ at[m] \in DOMAIN infos /\ at[k] < at[m]
        /\ infos'[k] = infos[at[k]] /\ infos'[m] = infos[at[m]]
    BY <2>1 DEF Narrows, Picks
  <2> QED
    BY <2>2 DEF SiblingsInv
<1>2. CASE Spread \/ Pack
  <2>0. PICK key \in {PackKey(infos), SpreadKey(infos)} : \E at :
          /\ Picks(infos, at, infos') /\ Len(infos') = Len(infos)
          /\ \A i, j \in DOMAIN infos : i < j => <<at[i], at[j]>> \in ByKey(key)
    BY <1>0, <1>2, OrderMoves
  <2>1. PICK at :
          /\ Picks(infos, at, infos') /\ Len(infos') = Len(infos)
          /\ \A i, j \in DOMAIN infos : i < j => <<at[i], at[j]>> \in ByKey(key)
    BY <2>0
  <2>2. DOMAIN infos' = DOMAIN infos
    BY <1>0, <2>1 DEF Picks
  <2>3. /\ at[k] \in DOMAIN infos /\ at[m] \in DOMAIN infos /\ at[k] # at[m]
        /\ infos'[k] = infos[at[k]] /\ infos'[m] = infos[at[m]]
    BY <1>0, <2>1, <2>2 DEF Picks
  <2>4. <<at[k], at[m]>> \in ByKey(key)
    BY <2>1, <2>2
  <2>5. /\ infos[at[k]].id # infos[at[m]].id
        /\ infos[at[k]].numa_node = infos[at[m]].numa_node
    BY <2>3 DEF RowsInv, RowsPermit, OneNodePerCore
  <2> QED
    BY <1>0, <2>3, <2>4, <2>5, SiblingOrder
<1> QED
  BY <1>0, <1>1, <1>2, ChainMoves

-----------------------------------------------------------------------------
(* What a selection promises. *)

\* What the workers take from a selection.
LEMMA IdsType == RowsInv => core_ids \in Seq(Nat)
<1> SUFFICES ASSUME RowsInv PROVE core_ids \in Seq(Nat)
  OBVIOUS
<1>1. infos \in Seq(Info)
  BY DEF RowsInv, RowsType
<1>2. DOMAIN infos = 1 .. Len(infos) /\ Len(infos) \in Nat /\ \A i \in DOMAIN infos : infos[i].id \in Nat
  BY <1>1, InfoFields
<1>3. core_ids = [i \in 1 .. Len(infos) |-> infos[i].id]
  BY <1>2 DEF core_ids
<1> QED
  BY <1>2, <1>3

LEMMA RowsPermitted == RowsInv => OnlyPermitted
<1> SUFFICES ASSUME RowsInv, seed = "permitted" PROVE OnlyPermitted
  BY DEF OnlyPermitted
<1>1. ToSet(core_ids) \subseteq ToSet(host.mask)
  BY DEF ToSet, RowsInv, RowsPermit, core_ids
<1> QED
  BY <1>1 DEF OnlyPermitted, RowsInv, RowsPermit

\* physical_only keeps the first row of every core, and it alone.
LEMMA FirstOfCore ==
  ASSUME RowsInv, SiblingsInv, PhysicalOnly, NEW i \in DOMAIN infos
  PROVE  \E k \in DOMAIN infos' :
           /\ SameCore(infos'[k], infos[i])
           /\ seed = "permitted" => infos'[k].id <= infos[i].id
           /\ \A m \in DOMAIN infos' : SameCore(infos'[m], infos[i]) => m = k
<1> DEFINE Firsts == {c \in DOMAIN infos : \A j \in 1 .. c - 1 : ~SameCore(infos[j], infos[c])}
           Mates == {c \in DOMAIN infos : SameCore(infos[c], infos[i])}
<1>0. infos \in Seq(Info)
  BY DEF RowsInv, RowsType
<1>a. DOMAIN infos = 1 .. Len(infos) /\ Len(infos) \in Nat /\ \A c \in DOMAIN infos : infos[c].id \in Nat
  BY <1>0, InfoFields
<1>1. i \in Mates
  BY DEF SameCore
<1>2. Mates \in SUBSET Nat /\ IsFiniteSet(Mates)
  <2>1. Mates \subseteq 1 .. Len(infos) /\ Mates \subseteq Nat
    BY <1>a
  <2>2. IsFiniteSet(1 .. Len(infos))
    BY <1>a, FS_Interval
  <2> QED
    BY <2>1, <2>2, FS_Subset
<1> HIDE DEF Mates
<1>3. PICK c \in Mates : \A j \in Mates : c <= j
  BY <1>1, <1>2, Least
<1>4. c \in DOMAIN infos /\ c \in Nat /\ SameCore(infos[c], infos[i]) /\ c <= i
  BY <1>1, <1>2, <1>3 DEF Mates
<1>5. c \in Firsts
  <2> SUFFICES ASSUME NEW j \in 1 .. c - 1, SameCore(infos[j], infos[c]) PROVE FALSE
    BY <1>4
  <2>1. j \in DOMAIN infos /\ ~(c <= j)
    BY <1>a, <1>4
  <2>2. j \in Mates
    BY <1>4, <2>1 DEF Mates, SameCore
  <2> QED
    BY <1>3, <2>1, <2>2
<1>6. infos' = retain(infos, Firsts)
  BY DEF PhysicalOnly, physical_only
<1>7. PICK at : /\ Picks(infos, at, infos')
                /\ \A k \in 1 .. Len(infos') : at[k] \in Firsts
                /\ \A f \in Firsts : \E k \in 1 .. Len(infos') : at[k] = f
  <2>1. PICK n \in Nat : n = Len(infos)
    BY <1>a
  <2>2. DOMAIN infos = 1 .. n /\ Firsts \in SUBSET (1 .. n)
    BY <1>a, <2>1
  <2> HIDE DEF Firsts
  <2> QED
    BY <1>6, <2>2, RetainPicks
<1> HIDE DEF Firsts
<1>8. PICK k \in DOMAIN infos' : at[k] = c
  BY <1>5, <1>7 DEF Picks
<1>9. \A m \in DOMAIN infos' : /\ infos'[m] = infos[at[m]] /\ at[m] \in DOMAIN infos /\ at[m] \in Firsts
                               /\ at[m] = at[k] => m = k
  BY <1>7 DEF Picks
<1>10. SameCore(infos'[k], infos[i])
  BY <1>4, <1>8, <1>9
<1>11. seed = "permitted" => infos'[k].id <= infos[i].id
  BY <1>a, <1>4, <1>8, <1>9 DEF SiblingsInv
<1>12. ASSUME NEW m \in DOMAIN infos', SameCore(infos'[m], infos[i]) PROVE m = k
  <2>1. at[m] \in DOMAIN infos /\ at[m] \in Firsts /\ SameCore(infos[at[m]], infos[i])
    BY <1>9, <1>12
  <2>2. SameCore(infos[c], infos[at[m]]) /\ SameCore(infos[at[m]], infos[c])
    BY <1>4, <2>1 DEF SameCore
  <2>3. c <= at[m]
    BY <1>3, <2>1 DEF Mates
  <2>4. ~(c < at[m])
    <3> SUFFICES ASSUME c < at[m] PROVE FALSE
      OBVIOUS
    <3>1. c \in 1 .. at[m] - 1
      BY <1>a, <1>4, <2>1
    <3> QED
      BY <2>1, <2>2, <3>1 DEF Firsts
  <2>5. at[m] = c
    BY <1>a, <1>4, <2>1, <2>3, <2>4
  <2> QED
    BY <1>8, <1>9, <2>5
<1> QED
  BY <1>10, <1>11, <1>12

\* Sorting loses nothing.
LEMMA SortKeeps ==
  ASSUME infos \in Seq(Info), NEW at, Picks(infos, at, infos'), Len(infos') = Len(infos),
         \A i \in DOMAIN infos : \E k \in DOMAIN infos : at[k] = i
  PROVE  ToSet(infos') = ToSet(infos) /\ DOMAIN infos' = DOMAIN infos
<1>1. DOMAIN infos' = DOMAIN infos
  BY InfoFields DEF Picks
<1>2. \A k \in DOMAIN infos' : at[k] \in DOMAIN infos /\ infos'[k] = infos[at[k]]
  BY DEF Picks
<1> QED
  BY <1>1, <1>2 DEF ToSet

LEMMA EqualUpTo ==
  ASSUME NEW x \in Seq(Nat), NEW y \in Seq(Nat), NEW d \in Nat, d <= Len(x), d <= Len(y)
  PROVE  SubSeq(x, 1, d) = SubSeq(y, 1, d) <=> \A e \in 1 .. d : x[e] = y[e]
<1>1. /\ SubSeq(x, 1, d) = [e \in 1 .. d |-> x[e]]
      /\ SubSeq(y, 1, d) = [e \in 1 .. d |-> y[e]]
  OBVIOUS
<1> QED
  BY <1>1

\* In pack's order, what two rows share, every row between them has too.
Level(a) == <<a.package, a.numa_node, a.core>>
LEMMA PackBetween ==
  ASSUME NEW s \in Seq(Info), NEW i \in DOMAIN s, NEW j \in DOMAIN s, NEW k \in DOMAIN s,
         <<i, j>> \in ByKey(PackKey(s)), <<j, k>> \in ByKey(PackKey(s)), NEW d \in 1 .. 3,
         SubSeq(Level(s[i]), 1, d) = SubSeq(Level(s[k]), 1, d)
  PROVE  SubSeq(Level(s[j]), 1, d) = SubSeq(Level(s[i]), 1, d)
<1> DEFINE x == Level(s[i])
           y == Level(s[j])
           z == Level(s[k])
<1>0. /\ s[i].package \in Nat /\ s[i].numa_node \in Nat /\ s[i].core \in Nat
      /\ s[j].package \in Nat /\ s[j].numa_node \in Nat /\ s[j].core \in Nat
      /\ s[k].package \in Nat /\ s[k].numa_node \in Nat /\ s[k].core \in Nat
  BY InfoFields
<1>1. /\ x \in Seq(Nat) /\ y \in Seq(Nat) /\ z \in Seq(Nat)
      /\ Len(x) = 3 /\ Len(y) = 3 /\ Len(z) = 3
  BY <1>0 DEF Level
<1>2. /\ x[1] = s[i].package /\ x[2] = s[i].numa_node /\ x[3] = s[i].core
      /\ y[1] = s[j].package /\ y[2] = s[j].numa_node /\ y[3] = s[j].core
      /\ z[1] = s[k].package /\ z[2] = s[k].numa_node /\ z[3] = s[k].core
  BY DEF Level
<1>3. SubSeq(x, 1, d) = SubSeq(z, 1, d)
  OBVIOUS
<1> HIDE DEF x, y, z
<1>4. /\ \A e \in 1 .. d : x[e] = z[e]
      /\ SubSeq(y, 1, d) = SubSeq(x, 1, d) <=> \A e \in 1 .. d : y[e] = x[e]
  BY <1>1, <1>3, EqualUpTo
<1>5. /\ \/ x[1] < y[1]
         \/ x[1] = y[1] /\ x[2] < y[2]
         \/ x[1] = y[1] /\ x[2] = y[2] /\ x[3] <= y[3]
      /\ \/ y[1] < z[1]
         \/ y[1] = z[1] /\ y[2] < z[2]
         \/ y[1] = z[1] /\ y[2] = z[2] /\ y[3] <= z[3]
  <2>1. ASSUME NEW a \in DOMAIN s, NEW b \in DOMAIN s, <<a, b>> \in ByKey(PackKey(s)),
               s[a].core \in Nat, s[b].core \in Nat
        PROVE  \/ s[a].package < s[b].package
               \/ s[a].package = s[b].package /\ s[a].numa_node < s[b].numa_node
               \/ /\ s[a].package = s[b].package /\ s[a].numa_node = s[b].numa_node
                  /\ s[a].core <= s[b].core
    BY <2>1, PackOrder
  <2>2. /\ \/ s[i].package < s[j].package
           \/ s[i].package = s[j].package /\ s[i].numa_node < s[j].numa_node
           \/ /\ s[i].package = s[j].package /\ s[i].numa_node = s[j].numa_node
              /\ s[i].core <= s[j].core
        /\ \/ s[j].package < s[k].package
           \/ s[j].package = s[k].package /\ s[j].numa_node < s[k].numa_node
           \/ /\ s[j].package = s[k].package /\ s[j].numa_node = s[k].numa_node
              /\ s[j].core <= s[k].core
    BY <1>0, <2>1
  <2> QED
    BY <1>2, <2>2
<1>6. \A e \in 1 .. d : y[e] = x[e]
  <2>0. /\ x[1] \in Nat /\ x[2] \in Nat /\ x[3] \in Nat
        /\ y[1] \in Nat /\ y[2] \in Nat /\ y[3] \in Nat
        /\ z[1] \in Nat /\ z[2] \in Nat /\ z[3] \in Nat
    BY <1>0, <1>2
  <2>1. CASE d = 1
    <3>1. x[1] = z[1]
      BY <1>4, <2>1
    <3>2. y[1] = x[1]
      BY <1>5, <2>0, <3>1
    <3> QED
      BY <2>1, <3>2
  <2>2. CASE d = 2
    <3>1. x[1] = z[1] /\ x[2] = z[2]
      BY <1>4, <2>2
    <3>2. y[1] = x[1] /\ y[2] = x[2]
      BY <1>5, <2>0, <3>1
    <3> QED
      BY <2>2, <3>2
  <2>3. CASE d = 3
    <3>1. x[1] = z[1] /\ x[2] = z[2] /\ x[3] = z[3]
      BY <1>4, <2>3
    <3>2. y[1] = x[1] /\ y[2] = x[2] /\ y[3] = x[3]
      BY <1>5, <2>0, <3>1
    <3> QED
      BY <2>3, <3>2
  <2> QED
    BY <2>1, <2>2, <2>3
<1> QED
  BY <1>4, <1>6 DEF x, y

PackDone ==
  /\ ToSet(infos') = ToSet(infos) /\ Len(infos') = Len(infos)
  /\ \A i, j, k \in DOMAIN infos' : i < j /\ j < k =>
       \A d \in 1 .. 3 : SubSeq(Level(infos'[i]), 1, d) = SubSeq(Level(infos'[k]), 1, d)
         => SubSeq(Level(infos'[j]), 1, d) = SubSeq(Level(infos'[i]), 1, d)

LEMMA PackStep ==
  ASSUME infos \in Seq(Info), Pack
  PROVE  PackDone
<1>1. infos' = sort_by_key(infos, PackKey(infos))
  BY PackSorts DEF Pack
<1>2. PICK at : /\ Picks(infos, at, infos') /\ Len(infos') = Len(infos)
                /\ \A i \in DOMAIN infos : \E k \in DOMAIN infos : at[k] = i
                /\ \A k, m \in DOMAIN infos : k < m => <<at[k], at[m]>> \in ByKey(PackKey(infos))
  BY <1>1, OrderPicks
<1>3. ToSet(infos') = ToSet(infos) /\ DOMAIN infos' = DOMAIN infos
  BY <1>2, SortKeeps
<1>4. \A k \in DOMAIN infos' : at[k] \in DOMAIN infos /\ infos'[k] = infos[at[k]]
  BY <1>2 DEF Picks
<1>5. ASSUME NEW i \in DOMAIN infos', NEW j \in DOMAIN infos', NEW k \in DOMAIN infos',
             i < j, j < k, NEW d \in 1 .. 3,
             SubSeq(Level(infos'[i]), 1, d) = SubSeq(Level(infos'[k]), 1, d)
      PROVE  SubSeq(Level(infos'[j]), 1, d) = SubSeq(Level(infos'[i]), 1, d)
  <2>1. /\ <<at[i], at[j]>> \in ByKey(PackKey(infos))
        /\ <<at[j], at[k]>> \in ByKey(PackKey(infos))
    BY <1>2, <1>3, <1>5
  <2>2. /\ infos'[i] = infos[at[i]] /\ infos'[j] = infos[at[j]] /\ infos'[k] = infos[at[k]]
        /\ at[i] \in DOMAIN infos /\ at[j] \in DOMAIN infos /\ at[k] \in DOMAIN infos
    BY <1>4
  <2>3. SubSeq(Level(infos[at[i]]), 1, d) = SubSeq(Level(infos[at[k]]), 1, d)
    BY <1>5, <2>2
  <2>4. SubSeq(Level(infos[at[j]]), 1, d) = SubSeq(Level(infos[at[i]]), 1, d)
    BY <2>1, <2>2, <2>3, PackBetween
  <2> QED
    BY <2>2, <2>4
<1> QED
  BY <1>2, <1>3, <1>5 DEF PackDone

\* spread's order: the rows of the columns one after the other.
LEMMA SpreadOrder ==
  ASSUME NEW s \in Seq(Info), NEW i \in DOMAIN s, NEW j \in DOMAIN s,
         <<i, j>> \in ByKey(SpreadKey(s))
  PROVE  Row(s, i) <= Row(s, j)
<1> DEFINE x == <<Row(s, i), s[i].package>>
           y == <<Row(s, j), s[j].package>>
<1>1. Row(s, i) \in Nat /\ Row(s, j) \in Nat
  BY RowOrder
<1>2. Before(x, y) \/ x = y
  BY DEF ByKey, SpreadKey
<1>3. x[1] = Row(s, i) /\ y[1] = Row(s, j) /\ DOMAIN x = 1 .. 2
  OBVIOUS
<1> HIDE DEF x, y
<1>4. ASSUME NEW e \in 1 .. 2, x[e] < y[e], \A c \in 1 .. e - 1 : x[c] = y[c]
      PROVE  x[1] <= y[1]
  <2>1. CASE e = 1
    BY <1>1, <1>3, <1>4, <2>1
  <2>2. CASE e = 2
    BY <1>1, <1>3, <1>4, <2>2
  <2> QED
    BY <2>1, <2>2
<1> QED
  BY <1>1, <1>2, <1>3, <1>4 DEF Before

\* Two rows of a package are different rows, and a package that has row r has
\* every row before it.
LEMMA RowsOfPackage ==
  ASSUME NEW s \in Seq(Info), NEW i \in DOMAIN s
  PROVE  /\ \A j \in DOMAIN s : s[j].package = s[i].package /\ Row(s, j) = Row(s, i) => i = j
         /\ \A r \in 1 .. Row(s, i) - 1 :
              \E j \in DOMAIN s : s[j].package = s[i].package /\ Row(s, j) = r
<1> DEFINE C == Column(s, s[i].package)
           R == ByKey(ColumnKey(s))
           at == InOrder(C, R)
<1>1. /\ IsFiniteSet(C) /\ Orders(R, C)
      /\ \A j \in C : Row(s, j) = Cardinality(Below(C, R, j)) + 1
  BY ColumnRows
<1>2. i \in C /\ \A j \in DOMAIN s : s[j].package = s[i].package <=> j \in C
  BY DEF Column
<1>a. C \subseteq DOMAIN s
  BY DEF Column
<1> HIDE DEF C, R
<1>3. /\ at \in [1 .. Cardinality(C) -> C]
      /\ \A j \in C : \E k \in DOMAIN at : at[k] = j
      /\ \A k \in DOMAIN at : Cardinality(Below(C, R, at[k])) = k - 1
  BY <1>1, InOrderLists
<1>4. Cardinality(C) \in Nat
  BY <1>1, FS_CardinalityType
<1> HIDE DEF at
<1>5. \A k \in 1 .. Cardinality(C) : at[k] \in C /\ Row(s, at[k]) = k
  BY <1>1, <1>3, <1>4
<1>6. PICK m \in 1 .. Cardinality(C) : at[m] = i
  BY <1>2, <1>3
<1>7. Row(s, i) = m
  BY <1>5, <1>6
<1>8. ASSUME NEW j \in DOMAIN s, s[j].package = s[i].package, Row(s, j) = Row(s, i) PROVE i = j
  <2>1. PICK k \in 1 .. Cardinality(C) : at[k] = j
    BY <1>2, <1>3, <1>8
  <2> QED
    BY <1>5, <1>6, <1>7, <1>8, <2>1
<1>9. ASSUME NEW r \in 1 .. Row(s, i) - 1
      PROVE  \E j \in DOMAIN s : s[j].package = s[i].package /\ Row(s, j) = r
  <2>1. r \in 1 .. Cardinality(C)
    BY <1>4, <1>7
  <2>2. at[r] \in C /\ Row(s, at[r]) = r
    BY <1>5, <2>1
  <2> QED
    BY <1>2, <1>a, <2>2
<1> QED
  BY <1>8, <1>9

LEMMA IntervalSize ==
  ASSUME NEW n \in Nat
  PROVE  IsFiniteSet(1 .. n) /\ Cardinality(1 .. n) = n
  BY FS_Interval

\* How many of the first n cores of t are of package x.
Share(t, n, x) == Cardinality({i \in 1 .. n : t[i].package = x})

\* The shares of two packages after n cores of a spread selection t.
LEMMA Shares ==
  ASSUME NEW s \in Seq(Info), NEW t, NEW at, Picks(s, at, t), Len(t) = Len(s),
         \A i \in DOMAIN s : \E k \in DOMAIN s : at[k] = i,
         \A k, m \in DOMAIN s : k < m => <<at[k], at[m]>> \in ByKey(SpreadKey(s)),
         NEW n \in 1 .. Len(t), NEW p, NEW q
  PROVE  \/ Share(t, n, p) <= Share(t, n, q) + 1
         \/ Share(t, n, q) = Cardinality(Column(s, q))
<1> DEFINE P == {i \in 1 .. n : t[i].package = p}
           Q == {i \in 1 .. n : t[i].package = q}
           L == {i \in DOMAIN s : t[i].package = q /\ n < i}
<1>s. Share(t, n, p) = Cardinality(P) /\ Share(t, n, q) = Cardinality(Q)
  BY DEF Share
<1>0. DOMAIN s = 1 .. Len(s) /\ Len(s) \in Nat /\ n \in Nat /\ 1 .. n \subseteq DOMAIN s
  BY InfoFields
<1>1. \A k \in DOMAIN s : at[k] \in DOMAIN s /\ t[k] = s[at[k]]
  BY <1>0 DEF Picks
<1>2. \A k, m \in DOMAIN s : at[k] = at[m] => k = m
  BY <1>0 DEF Picks
<1>3. \A k, m \in DOMAIN s : k < m => Row(s, at[k]) <= Row(s, at[m])
  BY <1>1, SpreadOrder
<1>4. \A k \in DOMAIN s : Row(s, at[k]) \in Nat \ {0}
  BY <1>1, RowOrder
<1>5. IsFiniteSet(P) /\ IsFiniteSet(Q) /\ IsFiniteSet(L)
  <2>1. P \subseteq 1 .. n /\ Q \subseteq 1 .. n /\ L \subseteq DOMAIN s
    OBVIOUS
  <2>2. IsFiniteSet(1 .. n) /\ IsFiniteSet(DOMAIN s)
    BY <1>0, FS_Interval
  <2> QED
    BY <2>1, <2>2, FS_Subset
<1>6. Cardinality(P) \in Nat /\ Cardinality(Q) \in Nat
  BY <1>5, FS_CardinalityType
<1>7. CASE L = {}
  <2> DEFINE f == [i \in Q |-> at[i]]
  <2>1. \A i \in DOMAIN s : t[i].package = q => i \in Q
    BY <1>0, <1>7
  <2>2. f \in [Q -> Column(s, q)]
    BY <1>0, <1>1 DEF Column
  <2>3. \A c \in Column(s, q) : \E i \in Q : f[i] = c
    <3> TAKE c \in Column(s, q)
    <3>1. c \in DOMAIN s /\ s[c].package = q
      BY DEF Column
    <3>2. PICK k \in DOMAIN s : at[k] = c
      BY <3>1
    <3>3. k \in Q
      BY <1>1, <2>1, <3>1, <3>2
    <3> QED
      BY <3>2, <3>3
  <2>4. \A i, j \in Q : f[i] = f[j] => i = j
    BY <1>0, <1>2
  <2>5. f \in Bijection(Q, Column(s, q))
    BY <2>2, <2>3, <2>4 DEF Bijection, Injection, Surjection, IsInjective
  <2>6. Cardinality(Column(s, q)) = Cardinality(Q)
    BY <1>5, <2>5, FS_Bijection DEF ExistsBijection
  <2> QED
    BY <1>s, <2>6
<1>8. CASE L # {}
  <2>0. L \in SUBSET Nat
    BY <1>0
  <2>1. PICK m \in L : \A j \in L : m <= j
    BY <1>5, <1>8, <2>0, Least
  <2>2. m \in DOMAIN s /\ m \in Nat /\ n < m /\ t[m].package = q
    BY <2>0
  <2> DEFINE R == [k \in 1 .. Len(s) |-> Row(s, at[k])]
  <2>r. \A k \in DOMAIN s : R[k] = Row(s, at[k])
    BY <1>0
  <2>R. R \in [1 .. Len(s) -> Nat \ {0}]
    BY <1>0, <1>4
  <2>o. \A k, l \in 1 .. Len(s) : k < l => R[k] <= R[l]
    BY <1>0, <1>3, <2>r
  <2> HIDE DEF R
  <2>3. PICK r \in Nat \ {0} : r = R[m]
    BY <1>0, <2>2, <2>R
  <2>4. Cardinality(P) <= r
    <3> DEFINE h == [i \in P |-> R[i]]
    <3>1. \A i \in P : i \in DOMAIN s /\ i \in 1 .. Len(s) /\ i < m /\ t[i].package = p
      BY <1>0, <2>2
    <3>2. \A i \in P : R[i] \in 1 .. r
      <4> TAKE i \in P
      <4>1. i \in 1 .. Len(s) /\ m \in 1 .. Len(s) /\ i < m
        BY <1>0, <2>2, <3>1
      <4>2. R[i] <= R[m] /\ R[i] \in Nat \ {0}
        BY <4>1, <2>o, <2>R
      <4> QED
        BY <4>2, <2>3
    <3>3. \A i, j \in P : R[i] = R[j] => i = j
      <4> TAKE i, j \in P
      <4>1. /\ at[i] \in DOMAIN s /\ at[j] \in DOMAIN s
            /\ s[at[i]].package = s[at[j]].package
        BY <1>1, <3>1
      <4>2. Row(s, at[i]) = Row(s, at[j]) => at[i] = at[j]
        BY <4>1, RowsOfPackage
      <4> QED
        BY <1>2, <2>r, <3>1, <4>2
    <3> HIDE DEF P
    <3>4. h \in Injection(P, 1 .. r)
      BY <3>2, <3>3 DEF Injection, IsInjective
    <3>5. IsFiniteSet(1 .. r) /\ Cardinality(1 .. r) = r
      BY IntervalSize
    <3> HIDE DEF h
    <3> QED
      BY <3>4, <3>5, FS_Injection
  <2>5. r - 1 <= Cardinality(Q)
    <3>1. \A c \in 1 .. r - 1 : \E i \in Q : R[i] = c
      <4> TAKE c \in 1 .. r - 1
      <4>1. PICK j \in DOMAIN s : s[j].package = s[at[m]].package /\ Row(s, j) = c
        <5>1. at[m] \in DOMAIN s /\ Row(s, at[m]) = r
          BY <1>1, <2>2, <2>3, <2>r
        <5>2. c \in 1 .. Row(s, at[m]) - 1
          BY <5>1
        <5> QED
          BY <5>1, <5>2, RowsOfPackage
      <4>2. PICK i \in DOMAIN s : at[i] = j
        BY <4>1
      <4>3. t[i].package = q /\ R[i] = c
        BY <1>1, <2>2, <2>r, <4>1, <4>2
      <4>x. i \in 1 .. Len(s) /\ m \in 1 .. Len(s) /\ i \in Nat
        BY <1>0, <2>2
      <4>y. c < r /\ c \in Nat
        OBVIOUS
      <4>4. i # m /\ ~(m < i)
        <5>1. i # m
          BY <2>3, <4>3, <4>y
        <5>2. ~(R[m] <= R[i])
          <6>1. ~(r <= c)
            BY <4>y
          <6> QED
            BY <2>3, <4>3, <6>1, Zenon
        <5>3. m < i => R[m] <= R[i]
          BY <2>o, <4>x
        <5> QED
          BY <5>1, <5>2, <5>3
      <4>5. i < m
        BY <2>2, <4>4, <4>x
      <4>6. i \notin L
        <5> HIDE DEF L
        <5> QED
          BY <2>1, <2>2, <4>5, <4>x
      <4>7. ~(n < i)
        BY <4>3, <4>6
      <4>8. i \in 1 .. n
        BY <1>0, <4>7, <4>x
      <4> QED
        BY <4>3, <4>8
    <3> DEFINE g == [c \in 1 .. r - 1 |-> CHOOSE i \in Q : R[i] = c]
    <3> HIDE DEF Q
    <3>2. \A c \in 1 .. r - 1 : g[c] \in Q /\ R[g[c]] = c
      BY <3>1
    <3>3. g \in Injection(1 .. r - 1, Q)
      <4>1. g \in [1 .. r - 1 -> Q]
        BY <3>2
      <4>2. \A a, b \in 1 .. r - 1 : g[a] = g[b] => a = b
        BY <3>2
      <4> HIDE DEF g
      <4> QED
        BY <4>1, <4>2 DEF Injection, IsInjective
    <3>4. PICK b \in Nat : b = r - 1
      OBVIOUS
    <3>5. Cardinality(1 .. b) = b
      BY IntervalSize
    <3> HIDE DEF g
    <3> QED
      BY <1>5, <3>3, <3>4, <3>5, FS_Injection
  <2> HIDE DEF P, Q
  <2>6. Cardinality(P) <= Cardinality(Q) + 1
    BY <1>6, <2>3, <2>4, <2>5
  <2> QED
    BY <1>s, <2>6
<1> QED
  BY <1>7, <1>8

SpreadDone ==
  /\ ToSet(infos') = ToSet(infos) /\ Len(infos') = Len(infos)
  /\ \A n \in 1 .. Len(infos') : \A p, q :
       \/ Share(infos', n, p) <= Share(infos', n, q) + 1
       \/ Share(infos', n, q) = Cardinality(Column(infos, q))

LEMMA SpreadStep ==
  ASSUME infos \in Seq(Info), Spread
  PROVE  SpreadDone
<1>1. infos' = sort_by_key(infos, SpreadKey(infos))
  BY SpreadSorts DEF Spread
<1>2. PICK at : /\ Picks(infos, at, infos') /\ Len(infos') = Len(infos)
                /\ \A i \in DOMAIN infos : \E k \in DOMAIN infos : at[k] = i
                /\ \A k, m \in DOMAIN infos : k < m => <<at[k], at[m]>> \in ByKey(SpreadKey(infos))
  BY <1>1, OrderPicks
<1>3. ToSet(infos') = ToSet(infos)
  BY <1>2, SortKeeps
<1>4. ASSUME NEW n \in 1 .. Len(infos'), NEW p, NEW q
      PROVE  \/ Share(infos', n, p) <= Share(infos', n, q) + 1
             \/ Share(infos', n, q) = Cardinality(Column(infos, q))
  BY <1>2, Shares
<1> QED
  BY <1>2, <1>3, <1>4 DEF SpreadDone
====
