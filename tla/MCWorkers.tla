----------------------------- MODULE MCWorkers -----------------------------
(* Core selection and the harness, on five small machines, for TLC. *)
EXTENDS Workers

Absent(ids) == [i \in ids |-> {}]
Const(ids, n) == [i \in ids |-> {n}]

MCHosts == {
  \* One socket, two cores of two threads: (0, 2) and (1, 3).
  [mask |-> <<2, 0, 3, 1, 0>>, core |-> [i \in 0 .. 3 |-> {i % 2}],
   package |-> Const(0 .. 3, 0), node |-> Const(0 .. 3, 0)],
  \* Two sockets that number their cores alike; one thread of the first is not
  \* in the affinity mask.
  [mask |-> <<0, 1, 3, 4, 5>>, core |-> [i \in 0 .. 5 |-> {i \div 4}],
   package |-> [i \in 0 .. 5 |-> {i % 2}], node |-> [i \in 0 .. 5 |-> {i % 2}]],
  \* One socket, two NUMA nodes.
  [mask |-> <<0, 1, 2, 3>>, core |-> [i \in 0 .. 3 |-> {i}],
   package |-> Const(0 .. 3, 0), node |-> [i \in 0 .. 3 |-> {i % 2}]],
  \* A stripped container: no topology at all.
  [mask |-> <<1, 2, 4>>, core |-> Absent(1 .. 4),
   package |-> Absent(1 .. 4), node |-> Absent(1 .. 4)],
  \* Two cores of two threads, (0, 1) and (2, 3); the core_id of cpu 1 is missing.
  [mask |-> <<0, 1, 2, 3>>, core |-> [i \in 0 .. 3 |-> IF i = 1 THEN {} ELSE {i \div 2}],
   package |-> Const(0 .. 3, 0), node |-> Const(0 .. 3, 0)] }

\* Rows of a caller's own: <<id, core, package, node>>.
Rows(s) == [i \in DOMAIN s |-> [id |-> s[i][1], core |-> s[i][2], package |-> s[i][3],
                                numa_node |-> s[i][4]]]
MCRowLists == {
  \* Two sockets of two cores of two threads, the high threads first.
  Rows(<< <<5, 0, 0, 0>>, <<7, 1, 1, 1>>, <<4, 0, 0, 0>>, <<6, 1, 1, 1>>, <<1, 1, 0, 0>> >>),
  \* One cpu named three times, one outside every mask.
  Rows(<< <<2, 0, 0, 0>>, <<9, 3, 1, 0>>, <<2, 0, 0, 0>>, <<2, 1, 1, 1>> >>),
  \* Three packages of unequal size, a core that claims two NUMA nodes.
  Rows(<< <<0, 0, 2, 0>>, <<1, 0, 0, 1>>, <<2, 0, 0, 0>>, <<3, 1, 0, 0>>, <<0, 0, 1, 1>> >>),
  << >> }

MCNodes == {0, 1}
=============================================================================
