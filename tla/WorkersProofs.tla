--------------------------- MODULE WorkersProofs ---------------------------
(***************************************************************************)
(* Proofs about the per-core harness, for any host, selection and number   *)
(* of workers: no bind finds the address taken, join hands back every      *)
(* worker's own result in spawn order, every chain of filters and orders   *)
(* keeps what CoreSet promises of a selection, and so the workers are one  *)
(* per permitted core.                                                     *)
(***************************************************************************)
EXTENDS Workers, CoreSetProofs

-----------------------------------------------------------------------------
(* The inductive invariant. *)

Phases ==
  {"select", "unsupported", "spawning", "spawn_error", "running", "joining", "joined",
   "detached"}
Stages ==
  {"born", "pinned", "body", "socket", "listening", "in_use", "returned", "panicked"}
Worker ==
  [core : {core_ids[i] : i \in Nat}, pinned : BOOLEAN, reuse : BOOLEAN, at : Stages]

WorkersType ==
  /\ phase \in Phases
  /\ wk \in Seq(Worker)
  /\ joined \in Seq(Ended)

\* The selection is settled before the first thread starts; spawn_each gave its
\* threads the cores in order, and returned Ok when it ran out of them.
SpawnInv ==
  /\ phase \in {"select", "unsupported"} => wk = << >>
  /\ phase \notin {"select", "unsupported"} => core_ids # << >>
  /\ \A i \in DOMAIN wk : wk[i].core = core_ids[i]
  /\ core_ids \in Seq(Nat) => Len(wk) <= Len(core_ids)
  /\ phase \in {"running", "joining", "joined", "detached"} => Len(wk) = Len(core_ids)

\* Both options are set on every socket that was opened.
ReuseInv ==
  \A i \in DOMAIN wk : /\ wk[i].at \in {"socket", "listening"} => wk[i].reuse
                       /\ wk[i].at # "in_use"

\* join has the results of the first workers, each of which has ended.
JoinInv ==
  /\ phase \notin {"joining", "joined"} => joined = << >>
  /\ phase = "joining" => Len(wk) = 0 \/ Len(joined) < Len(wk)
  /\ phase = "joined" => Len(joined) = Len(wk)
  /\ \A i \in DOMAIN joined : i \in DOMAIN wk => wk[i].at \in Ended /\ joined[i] = wk[i].at

WorkersInv == WorkersType /\ SpawnInv /\ ReuseInv /\ JoinInv

-----------------------------------------------------------------------------

LEMMA WorkersInit == Init => WorkersInv
<1> SUFFICES ASSUME Init PROVE WorkersInv
  OBVIOUS
<1>1. phase = "select" /\ wk = << >> /\ joined = << >>
  BY DEF Init
<1>2. WorkersType
  BY <1>1 DEF WorkersType, Phases
<1>3. SpawnInv
  BY <1>1 DEF SpawnInv
<1>4. ReuseInv /\ JoinInv
  BY <1>1 DEF ReuseInv, JoinInv
<1> QED
  BY <1>2, <1>3, <1>4 DEF WorkersInv

\* The main thread's steps that leave the threads alone.
LEMMA SelectStep ==
  ASSUME WorkersInv, Select
  PROVE  WorkersInv'
<1>1. phase = "select" /\ phase' = phase /\ wk' = wk /\ joined' = joined
  BY DEF Select, workerVars
<1>2. wk = << >> /\ joined = << >>
  BY <1>1 DEF WorkersInv, SpawnInv, JoinInv
<1>3. WorkersType'
  BY <1>1, <1>2 DEF WorkersType, Phases
<1>4. SpawnInv'
  BY <1>1, <1>2 DEF SpawnInv
<1>5. ReuseInv' /\ JoinInv'
  BY <1>1, <1>2 DEF ReuseInv, JoinInv
<1> QED
  BY <1>3, <1>4, <1>5 DEF WorkersInv

\* The cores are the same after a step that does not select.
LEMMA SameCores ==
  ASSUME UNCHANGED coreVars
  PROVE  core_ids' = core_ids /\ Worker' = Worker
  BY DEF coreVars, core_ids, Worker, Stages

LEMMA MainStep ==
  ASSUME WorkersInv, New \/ Spawned \/ CallJoin \/ Detach
  PROVE  WorkersInv'
<1>1. wk' = wk /\ joined' = joined /\ UNCHANGED coreVars
  BY DEF New, Spawned, CallJoin, Detach
<1>2. core_ids' = core_ids /\ Worker' = Worker
  BY <1>1, SameCores
<1>3. phase \in {"select", "spawning", "running"} /\ joined = << >>
  <2>1. phase \in {"select", "spawning", "running"}
    BY DEF New, Spawned, CallJoin, Detach
  <2> QED
    BY <2>1 DEF WorkersInv, JoinInv
<1>4. phase' \in Phases \ {"select", "joined"}
  BY DEF New, Spawned, CallJoin, Detach, Phases
<1>5. WorkersType'
  BY <1>1, <1>2, <1>4 DEF WorkersInv, WorkersType, Phases, Ended
<1>6. SpawnInv'
  <2>1. CASE New
    BY <1>1, <1>2, <2>1 DEF New, WorkersInv, SpawnInv
  <2>2. CASE Spawned \/ CallJoin \/ Detach
    BY <1>1, <1>2, <2>2 DEF Spawned, CallJoin, Detach, WorkersInv, SpawnInv
  <2> QED
    BY <2>1, <2>2
<1>7. ReuseInv'
  BY <1>1 DEF WorkersInv, ReuseInv
<1>8. JoinInv'
  <2>1. Len(joined) = 0 /\ DOMAIN joined = {} /\ Len(wk) \in Nat
    BY <1>3 DEF WorkersInv, WorkersType
  <2> QED
    BY <1>1, <1>3, <1>4, <2>1 DEF JoinInv
<1> QED
  BY <1>5, <1>6, <1>7, <1>8 DEF WorkersInv

\* A thread starts, or spawn_each gives up.
LEMMA SpawnStep ==
  ASSUME WorkersInv, SpawnOne
  PROVE  WorkersInv'
<1>1. /\ phase = "spawning" /\ joined' = joined /\ UNCHANGED coreVars
      /\ Len(wk) < Len(core_ids)
      /\ \/ wk' = Append(wk, Born(Len(wk) + 1)) /\ phase' = phase
         \/ phase' = "spawn_error" /\ wk' = wk
  BY DEF SpawnOne
<1>2. core_ids' = core_ids /\ Worker' = Worker
  BY <1>1, SameCores
<1>3. joined = << >> /\ wk \in Seq(Worker) /\ Len(wk) \in Nat /\ core_ids # << >>
  BY <1>1 DEF WorkersInv, WorkersType, SpawnInv, JoinInv
<1>4. CASE phase' = "spawn_error" /\ wk' = wk
  BY <1>1, <1>2, <1>3, <1>4
    DEF WorkersInv, WorkersType, SpawnInv, ReuseInv, JoinInv, Phases, Ended
<1>5. CASE wk' = Append(wk, Born(Len(wk) + 1)) /\ phase' = phase
  <2> DEFINE w == Born(Len(wk) + 1)
             n == Len(wk) + 1
  <2>1. w \in Worker /\ w.core = core_ids[n] /\ w.at = "born"
    <3>1. n \in Nat
      BY <1>3
    <3> QED
      BY <3>1 DEF Born, Worker, Stages
  <2> HIDE DEF w
  <2>2. wk' = Append(wk, w)
    BY <1>5 DEF w
  <2>3. /\ wk' \in Seq(Worker) /\ Len(wk') = n /\ wk'[n] = w
        /\ \A i \in 1 .. Len(wk) : wk'[i] = wk[i]
    BY <1>3, <2>1, <2>2, AppendProperties
  <2>4. \A i \in DOMAIN wk' : (i \in DOMAIN wk /\ wk'[i] = wk[i]) \/ (i = n /\ wk'[i] = w)
    <3>1. DOMAIN wk' = 1 .. n /\ DOMAIN wk = 1 .. Len(wk)
      BY <1>3, <2>3
    <3>2. \A i \in 1 .. n : i \in 1 .. Len(wk) \/ i = n
      BY <1>3
    <3> QED
      BY <2>3, <3>1, <3>2
  <2>5. WorkersType'
    BY <1>1, <1>2, <1>5, <2>3 DEF WorkersInv, WorkersType
  <2>6. SpawnInv'
    <3>1. \A i \in DOMAIN wk' : wk'[i].core = core_ids[i]
      BY <2>1, <2>4 DEF WorkersInv, SpawnInv
    <3>2. ASSUME core_ids \in Seq(Nat) PROVE Len(wk') <= Len(core_ids)
      <4>1. Len(core_ids) \in Nat
        BY <3>2
      <4> QED
        BY <1>1, <1>3, <2>3, <4>1
    <3> QED
      BY <1>1, <1>2, <1>3, <1>5, <3>1, <3>2 DEF SpawnInv
  <2>7. ReuseInv'
    BY <2>1, <2>4 DEF WorkersInv, ReuseInv
  <2>8. JoinInv'
    <3>1. DOMAIN joined = {}
      BY <1>3
    <3> QED
      BY <1>1, <1>3, <1>5, <3>1 DEF JoinInv
  <2> QED
    BY <2>5, <2>6, <2>7, <2>8 DEF WorkersInv
<1> QED
  BY <1>1, <1>4, <1>5

\* join takes the result of the next worker.
LEMMA JoinStep ==
  ASSUME WorkersInv, Join
  PROVE  WorkersInv'
<1> DEFINE n == Len(joined) + 1
<1>1. /\ phase = "joining" /\ wk' = wk /\ UNCHANGED coreVars
      /\ wk[n].at \in Ended /\ joined' = Append(joined, wk[n].at)
      /\ phase' = IF n = Len(wk) THEN "joined" ELSE "joining"
  BY DEF Join
<1>2. core_ids' = core_ids /\ Worker' = Worker
  BY <1>1, SameCores
<1>3. /\ wk \in Seq(Worker) /\ joined \in Seq(Ended)
      /\ Len(wk) \in Nat /\ Len(joined) \in Nat
      /\ Len(wk) = 0 \/ Len(joined) < Len(wk)
  BY <1>1 DEF WorkersInv, WorkersType, JoinInv
<1>4. /\ joined' \in Seq(Ended) /\ Len(joined') = n /\ joined'[n] = wk[n].at
      /\ \A i \in 1 .. Len(joined) : joined'[i] = joined[i]
  BY <1>1, <1>3, AppendProperties
<1>5. \A i \in DOMAIN joined' : i \in DOMAIN joined \/ i = n
  <2>1. DOMAIN joined' = 1 .. n /\ DOMAIN joined = 1 .. Len(joined)
    BY <1>3, <1>4
  <2> QED
    BY <1>3, <2>1
<1>6. WorkersType'
  BY <1>1, <1>2, <1>3, <1>4 DEF WorkersType, Phases, Ended
<1>7. SpawnInv'
  BY <1>1, <1>2 DEF WorkersInv, SpawnInv
<1>8. ReuseInv'
  BY <1>1 DEF WorkersInv, ReuseInv
<1>9. JoinInv'
  <2>1. ASSUME NEW i \in DOMAIN joined', i \in DOMAIN wk
        PROVE  wk[i].at \in Ended /\ joined'[i] = wk[i].at
    <3>1. CASE i = n
      BY <1>1, <1>4, <3>1
    <3>2. CASE i \in DOMAIN joined
      <4>1. i \in 1 .. Len(joined)
        BY <1>3, <3>2
      <4> QED
        BY <1>4, <2>1, <3>2, <4>1 DEF WorkersInv, JoinInv
    <3> QED
      BY <1>5, <2>1, <3>1, <3>2
  <2>2. CASE n = Len(wk)
    BY <1>1, <1>4, <2>1, <2>2 DEF JoinInv
  <2>3. CASE n # Len(wk)
    <3>1. Len(wk) = 0 \/ n < Len(wk)
      BY <1>3, <2>3
    <3> QED
      BY <1>1, <1>4, <2>1, <2>3, <3>1 DEF JoinInv
  <2> QED
    BY <2>2, <2>3
<1> QED
  BY <1>6, <1>7, <1>8, <1>9 DEF WorkersInv

-----------------------------------------------------------------------------
(* A worker's own steps. *)

\* A worker that goes on keeps its core and has not ended; what it becomes has
\* the options set wherever they are needed.
LEMMA MoveStep ==
  ASSUME WorkersInv, NEW i \in DOMAIN wk, NEW from, NEW w \in Worker, Move(i, from, w),
         from \notin Ended, w.core = wk[i].core,
         w.at \in {"socket", "listening"} => w.reuse, w.at # "in_use"
  PROVE  WorkersInv'
<1>1. /\ wk[i].at = from /\ wk' = [wk EXCEPT ![i] = w]
      /\ phase' = phase /\ joined' = joined /\ UNCHANGED coreVars
  BY DEF Move
<1>2. core_ids' = core_ids /\ Worker' = Worker
  BY <1>1, SameCores
<1>3. wk \in Seq(Worker) /\ joined \in Seq(Ended) /\ phase \in Phases
  BY DEF WorkersInv, WorkersType
<1>4. /\ wk' \in Seq(Worker) /\ Len(wk') = Len(wk) /\ DOMAIN wk' = DOMAIN wk
      /\ wk'[i] = w /\ \A j \in DOMAIN wk : j # i => wk'[j] = wk[j]
  BY <1>1, <1>3
<1>5. WorkersType'
  BY <1>1, <1>2, <1>3, <1>4 DEF WorkersType
<1>6. SpawnInv'
  <2>1. wk # << >> /\ wk' # << >>
    BY <1>3, <1>4
  <2>2. \A j \in DOMAIN wk' : wk'[j].core = core_ids[j]
    BY <1>4 DEF WorkersInv, SpawnInv
  <2> QED
    BY <1>1, <1>2, <1>4, <2>1, <2>2 DEF WorkersInv, SpawnInv
<1>7. ReuseInv'
  BY <1>4 DEF WorkersInv, ReuseInv
<1>8. JoinInv'
  <2>1. ASSUME NEW j \in DOMAIN joined, j \in DOMAIN wk
        PROVE  wk'[j].at \in Ended /\ joined[j] = wk'[j].at
    <3>1. wk[j].at \in Ended /\ joined[j] = wk[j].at
      BY <2>1 DEF WorkersInv, JoinInv
    <3>2. j # i
      BY <1>1, <3>1
    <3> QED
      BY <1>4, <2>1, <3>1, <3>2
  <2> QED
    BY <1>1, <1>4, <2>1 DEF WorkersInv, JoinInv
<1> QED
  BY <1>5, <1>6, <1>7, <1>8 DEF WorkersInv

LEMMA WorkerFields ==
  ASSUME WorkersInv, NEW i \in DOMAIN wk
  PROVE  wk[i] \in Worker
  BY DEF WorkersInv, WorkersType

\* Pin, BuildRuntime, OpenSocket and Finish.
LEMMA OwnStep ==
  ASSUME WorkersInv, NEW i \in DOMAIN wk,
         Pin(i) \/ BuildRuntime(i) \/ OpenSocket(i) \/ Finish(i)
  PROVE  WorkersInv'
<1>0. wk[i] \in Worker
  BY WorkerFields
<1>1. ASSUME NEW from, NEW at \in {"pinned", "body", "panicked", "returned"},
             from \notin Ended, Move(i, from, [wk[i] EXCEPT !.at = at])
      PROVE  WorkersInv'
  <2> DEFINE w == [wk[i] EXCEPT !.at = at]
  <2>1. w \in Worker /\ w.core = wk[i].core /\ w.at = at
    BY <1>0 DEF Worker, Stages
  <2>2. Move(i, from, w)
    BY <1>1
  <2> HIDE DEF w
  <2> QED
    BY <1>1, <2>1, <2>2, MoveStep
<1>2. CASE Pin(i)
  <2>1. PICK ok \in BOOLEAN : Move(i, "born", [wk[i] EXCEPT !.pinned = ok, !.at = "pinned"])
    BY <1>2 DEF Pin
  <2> DEFINE w == [wk[i] EXCEPT !.pinned = ok, !.at = "pinned"]
  <2>2. w \in Worker /\ w.core = wk[i].core /\ w.at = "pinned"
    BY <1>0 DEF Worker, Stages
  <2>3. Move(i, "born", w)
    BY <2>1
  <2> HIDE DEF w
  <2> QED
    BY <2>2, <2>3, MoveStep DEF Ended
<1>3. CASE BuildRuntime(i)
  <2>1. PICK next \in {"body", "panicked"} : Move(i, "pinned", [wk[i] EXCEPT !.at = next])
    BY <1>3 DEF BuildRuntime
  <2> QED
    BY <1>1, <2>1 DEF Ended
<1>4. CASE OpenSocket(i)
  <2>1. CASE Move(i, "body", [wk[i] EXCEPT !.reuse = TRUE, !.at = "socket"])
    <3> DEFINE w == [wk[i] EXCEPT !.reuse = TRUE, !.at = "socket"]
    <3>1. w \in Worker /\ w.core = wk[i].core /\ w.at = "socket" /\ w.reuse
      BY <1>0 DEF Worker, Stages
    <3>2. Move(i, "body", w)
      BY <2>1
    <3> HIDE DEF w
    <3> QED
      BY <3>1, <3>2, MoveStep DEF Ended
  <2>2. CASE Move(i, "body", [wk[i] EXCEPT !.at = "panicked"])
    BY <1>1, <2>2 DEF Ended
  <2> QED
    BY <1>4, <2>1, <2>2 DEF OpenSocket
<1>5. CASE Finish(i)
  <2>1. PICK end \in Ended : Move(i, "listening", [wk[i] EXCEPT !.at = end])
    BY <1>5 DEF Finish
  <2> QED
    BY <1>1, <2>1 DEF Ended
<1> QED
  BY <1>2, <1>3, <1>4, <1>5

\* Every listener and every socket that is about to listen may share.
LEMMA BindStep ==
  ASSUME WorkersInv, NEW i \in DOMAIN wk, Bind(i)
  PROVE  WorkersInv'
<1>0. wk[i] \in Worker
  BY WorkerFields
<1>1. CASE Move(i, "socket", [wk[i] EXCEPT !.at = IF MayShare(i) THEN "listening" ELSE "in_use"])
  <2>1. wk[i].at = "socket" /\ wk[i].reuse
    BY <1>1 DEF Move, WorkersInv, ReuseInv
  <2>2. MayShare(i)
    BY <2>1 DEF MayShare, Listening, WorkersInv, ReuseInv
  <2> DEFINE w == [wk[i] EXCEPT !.at = "listening"]
  <2>3. w \in Worker /\ w.core = wk[i].core /\ w.at = "listening" /\ w.reuse = wk[i].reuse
    BY <1>0 DEF Worker, Stages
  <2>4. Move(i, "socket", w)
    BY <1>1, <2>2
  <2> HIDE DEF w
  <2> QED
    BY <2>1, <2>3, <2>4, MoveStep DEF Ended
<1>2. CASE Move(i, "socket", [wk[i] EXCEPT !.at = "panicked"])
  <2> DEFINE w == [wk[i] EXCEPT !.at = "panicked"]
  <2>1. w \in Worker /\ w.core = wk[i].core /\ w.at = "panicked"
    BY <1>0 DEF Worker, Stages
  <2>2. Move(i, "socket", w)
    BY <1>2
  <2> HIDE DEF w
  <2> QED
    BY <2>1, <2>2, MoveStep DEF Ended
<1> QED
  BY <1>1, <1>2 DEF Bind

-----------------------------------------------------------------------------
(* Theorems. *)

LEMMA WorkersStep == WorkersInv /\ [Next]_vars => WorkersInv'
<1> SUFFICES ASSUME WorkersInv, [Next]_vars PROVE WorkersInv'
  OBVIOUS
<1>1. ASSUME NEW i \in DOMAIN wk, WorkerStep(i) PROVE WorkersInv'
  BY <1>1, OwnStep, BindStep DEF WorkerStep
<1>2. CASE UNCHANGED vars
  <2>1. /\ phase' = phase /\ wk' = wk /\ joined' = joined
        /\ core_ids' = core_ids /\ Worker' = Worker
    BY <1>2, SameCores DEF vars, workerVars
  <2>2. WorkersType'
    BY <2>1 DEF WorkersInv, WorkersType, Ended
  <2>3. SpawnInv' /\ ReuseInv'
    BY <2>1 DEF WorkersInv, SpawnInv, ReuseInv
  <2>4. JoinInv'
    BY <2>1 DEF WorkersInv, JoinInv
  <2> QED
    BY <2>2, <2>3, <2>4 DEF WorkersInv
<1> QED
  BY <1>1, <1>2, SelectStep, MainStep, SpawnStep, JoinStep DEF Next

LEMMA WorkersAlways == Spec => []WorkersInv
  BY WorkersInit, WorkersStep, PTL DEF Spec

\* bind_reuseport sets both options on every socket before it is bound, so no
\* worker's bind is refused because another worker listens on the address.
THEOREM EveryoneBinds == Spec => []AddressShared
<1>1. WorkersInv => AddressShared
  BY DEF WorkersInv, ReuseInv, AddressShared
<1> QED
  BY <1>1, WorkersAlways, PTL

\* When Workers::join returns, every worker has ended, panicked ones included,
\* and result i is what became of worker i.
THEOREM JoinGathersAll == Spec => []JoinComplete
<1>1. WorkersInv => JoinComplete
  <2> SUFFICES ASSUME WorkersInv, phase = "joined" PROVE JoinComplete
    BY DEF JoinComplete
  <2>1. Len(joined) = Len(wk) /\ wk \in Seq(Worker) /\ joined \in Seq(Ended)
    BY DEF WorkersInv, WorkersType, JoinInv
  <2>2. DOMAIN joined = DOMAIN wk
    BY <2>1
  <2> QED
    BY <2>1, <2>2 DEF WorkersInv, JoinInv, JoinComplete
<1> QED
  BY <1>1, WorkersAlways, PTL

-----------------------------------------------------------------------------
(* The selection. *)

\* Only a step of the chain touches the selection.
LEMMA SelectionStep ==
  ASSUME Next
  PROVE  Chain \/ UNCHANGED coreVars
<1>1. CASE Select
  BY <1>1 DEF Select
<1>2. CASE New \/ SpawnOne \/ Spawned \/ CallJoin \/ Detach \/ Join
  BY <1>2 DEF New, SpawnOne, Spawned, CallJoin, Detach, Join
<1>3. CASE \E i \in DOMAIN wk : WorkerStep(i)
  BY <1>3 DEF WorkerStep, Pin, BuildRuntime, OpenSocket, Bind, Finish, Move
<1> QED
  BY <1>1, <1>2, <1>3 DEF Next

LEMMA RowsAlways == Spec => []RowsInv
<1>1. Init => RowsInv
  BY RowsInit DEF Init
<1>2. RowsInv /\ [Next]_vars => RowsInv'
  <2> SUFFICES ASSUME RowsInv, [Next]_vars PROVE RowsInv'
    OBVIOUS
  <2>1. CASE Chain
    BY <2>1, RowsStep
  <2>2. CASE UNCHANGED coreVars
    BY <2>2 DEF coreVars, RowsInv, RowsType, RowsPermit
  <2> QED
    BY <2>1, <2>2, SelectionStep DEF vars
<1> QED
  BY <1>1, <1>2, PTL DEF Spec

\* Rows of one core stand in the order of their ids in a selection that began
\* with permitted(), on hosts that put both threads of a core on one NUMA node.
LEMMA SiblingsAlways ==
  (\A h \in Hosts : OneNodePerCore(h)) => (Spec => []SiblingsInv)
<1> SUFFICES ASSUME \A h \in Hosts : OneNodePerCore(h) PROVE Spec => []SiblingsInv
  OBVIOUS
<1>1. Init => SiblingsInv
  BY RowsInit DEF Init
<1>2. RowsInv /\ SiblingsInv /\ [Next]_vars => SiblingsInv'
  <2> SUFFICES ASSUME RowsInv, SiblingsInv, [Next]_vars PROVE SiblingsInv'
    OBVIOUS
  <2>1. OneNodePerCore(host)
    BY DEF RowsInv, RowsType
  <2>2. CASE Chain
    BY <2>1, <2>2, SiblingsStep
  <2>3. CASE UNCHANGED coreVars
    BY <2>3 DEF coreVars, SiblingsInv
  <2> QED
    BY <2>2, <2>3, SelectionStep DEF vars
<1> QED
  BY <1>1, <1>2, RowsAlways, PTL DEF Spec

\* A selection that began with permitted() "can never name a core the process is
\* not allowed to use", nor one core twice: for every host, whatever cores()
\* enumerates, and every chain of physical_only, on_numa_node, on_package, filter
\* with any predicate, spread, pack and take.
THEOREM SelectionPermitted == Spec => []OnlyPermitted
BY RowsAlways, RowsPermitted, PTL

\* physical_only keeps one thread of every core, the lowest-id one when the
\* selection began with permitted(), whatever orders and filters came before it,
\* on every host whose cores lie each in one NUMA node.
THEOREM PhysicalKeepsLowest ==
  (\A h \in Hosts : OneNodePerCore(h)) => (Spec => OneThreadPerCore)
<1> SUFFICES ASSUME \A h \in Hosts : OneNodePerCore(h) PROVE Spec => OneThreadPerCore
  OBVIOUS
<1> DEFINE Kept ==
      PhysicalOnly => \A i \in DOMAIN infos :
        \E k \in DOMAIN infos' :
          /\ SameCore(infos'[k], infos[i])
          /\ seed = "permitted" => infos'[k].id <= infos[i].id
          /\ \A m \in DOMAIN infos' : SameCore(infos'[m], infos[i]) => m = k
<1>1. RowsInv /\ SiblingsInv => Kept
  BY FirstOfCore
<1>2. Spec => []SiblingsInv
  BY SiblingsAlways
<1> HIDE DEF Kept
<1>3. Spec => [][Kept]_coreVars
  BY <1>1, <1>2, RowsAlways, PTL
<1> QED
  BY <1>3 DEF Kept, OneThreadPerCore

\* However many cores are taken after spread, the packages' shares differ by at
\* most one, except for a package with no more to give, and no core is lost:
\* for any number of packages of any sizes.
THEOREM SpreadIsBalanced == Spec => SpreadBalances
<1> DEFINE Balanced ==
      Spread =>
        /\ ToSet(infos') = ToSet(infos) /\ Len(infos') = Len(infos)
        /\ \A n \in 1 .. Len(infos'), p, q \in {infos[i].package : i \in DOMAIN infos} :
             LET share(x) == Cardinality({i \in 1 .. n : infos'[i].package = x})
                 all(x) == Cardinality({i \in DOMAIN infos : infos[i].package = x})
             IN  share(p) <= share(q) + 1 \/ share(q) = all(q)
<1>1. RowsInv => Balanced
  <2> SUFFICES ASSUME RowsInv, Spread PROVE Balanced
    OBVIOUS
  <2>1. SpreadDone
    BY SpreadStep DEF RowsInv, RowsType
  <2>2. ToSet(infos') = ToSet(infos) /\ Len(infos') = Len(infos)
    BY <2>1 DEF SpreadDone
  <2> SUFFICES ASSUME NEW n \in 1 .. Len(infos'),
                      NEW p \in {infos[i].package : i \in DOMAIN infos},
                      NEW q \in {infos[i].package : i \in DOMAIN infos}
               PROVE  \/ Share(infos', n, p) <= Share(infos', n, q) + 1
                      \/ Share(infos', n, q) = Cardinality(Column(infos, q))
    BY <2>2 DEF Share, Column
  <2> QED
    BY <2>1 DEF SpreadDone
<1> HIDE DEF Balanced
<1>2. Spec => [][Balanced]_coreVars
  BY <1>1, RowsAlways, PTL
<1> QED
  BY <1>2, PTL DEF Balanced, SpreadBalances

\* After pack a core, a NUMA node of a package and a package are each finished
\* before the next is begun, and no core is lost: for any topology.
THEOREM PackIsFilled == Spec => PackFills
<1> DEFINE Filled ==
      Pack =>
        /\ ToSet(infos') = ToSet(infos) /\ Len(infos') = Len(infos)
        /\ \A i, j, k \in DOMAIN infos' : i < j /\ j < k =>
             LET s == infos'
                 Unit(c) == <<c.package, c.numa_node, c.core>>
             IN  \A d \in 1 .. 3 : SubSeq(Unit(s[i]), 1, d) = SubSeq(Unit(s[k]), 1, d)
                   => SubSeq(Unit(s[j]), 1, d) = SubSeq(Unit(s[i]), 1, d)
<1>1. RowsInv => Filled
  BY PackStep DEF RowsInv, RowsType, PackDone, Level
<1> HIDE DEF Filled
<1>2. Spec => [][Filled]_coreVars
  BY <1>1, RowsAlways, PTL
<1> QED
  BY <1>2 DEF Filled, PackFills

\* spawn_each returns Ok with one worker per core it was given, in order, and
\* no two of them pinned to one cpu if the selection began with permitted(), after
\* any chain of filters and orders.
THEOREM WorkersMatchCores == Spec => []OneWorkerPerCore
<1>1. WorkersInv /\ RowsInv => OneWorkerPerCore
  <2> SUFFICES ASSUME WorkersInv, RowsInv PROVE OneWorkerPerCore
    OBVIOUS
  <2>1. /\ core_ids \in Seq(Nat) /\ Len(core_ids) \in Nat /\ wk \in Seq(Worker)
        /\ Len(wk) \in Nat /\ Len(wk) <= Len(core_ids)
        /\ \A i \in DOMAIN wk : wk[i].core = core_ids[i]
    BY IdsType DEF WorkersInv, WorkersType, SpawnInv
  <2>2. ASSUME phase \in {"running", "joining", "joined", "detached"}
        PROVE  Len(wk) = Len(core_ids) /\ wk # << >>
    <3>1. Len(wk) = Len(core_ids) /\ core_ids # << >>
      BY <2>2 DEF WorkersInv, SpawnInv
    <3> QED
      BY <2>1, <3>1
  <2>3. ASSUME NEW i \in DOMAIN wk, NEW j \in DOMAIN wk, i # j,
               seed = "permitted"
        PROVE  wk[i].core # wk[j].core
    <3>1. DOMAIN core_ids = DOMAIN infos /\ \A n \in DOMAIN infos : core_ids[n] = infos[n].id
      BY DEF core_ids
    <3>2. i \in DOMAIN core_ids /\ j \in DOMAIN core_ids
      BY <2>1, <2>3
    <3> QED
      BY <2>1, <2>3, <3>1, <3>2 DEF RowsInv, RowsPermit
  <2> QED
    BY <2>1, <2>2, <2>3 DEF OneWorkerPerCore
<1> QED
  BY <1>1, WorkersAlways, RowsAlways, PTL
=============================================================================
