------------------------------ MODULE Workers ------------------------------
(***************************************************************************)
(* One pinned thread per selected core (src/src/workers.rs, `PerCore` and  *)
(* `Workers`), each of which binds its own SO_REUSEPORT listener on the    *)
(* shared address (src/src/listener.rs) and serves until its body ends.    *)
(* The main thread spawns and joins; the workers run in between, in any    *)
(* interleaving.  A failed bind panics, as the examples' `expect` does.    *)
(***************************************************************************)
EXTENDS CoreSet

CONSTANT MaxWorkers   \* bound: cores the harness is started on

VARIABLES
  phase,    \* the main thread: selecting, spawning, then what became of Workers
  wk,       \* the threads spawned so far, in order
  joined    \* Workers::join: the results so far

workerVars == <<phase, wk, joined>>
vars == <<coreVars, workerVars>>

Ended == {"returned", "panicked"}
Listening == {i \in DOMAIN wk : wk[i].at = "listening"}

Init ==
  /\ ChooseHost
  /\ phase = "select"
  /\ wk = << >>
  /\ joined = << >>

Select ==
  /\ phase = "select"
  /\ Chain
  /\ UNCHANGED workerVars

-----------------------------------------------------------------------------
(* PerCore. *)

\* PerCore::new(set), and spawn_each's refusal of an empty list.
New ==
  /\ phase = "select"
  /\ Len(infos) <= MaxWorkers
  /\ phase' = IF core_ids = << >> THEN "unsupported" ELSE "spawning"
  /\ UNCHANGED <<coreVars, wk, joined>>

Born(i) == [core |-> core_ids[i], pinned |-> FALSE, reuse |-> FALSE, at |-> "born"]

\* One turn of spawn_each's loop: a thread starts, or `?` returns the error, the
\* handles are dropped and the threads already started run on.
SpawnGoesOn ==
  /\ phase = "spawning"
  /\ Len(wk) < Len(core_ids)
  /\ \/ wk' = Append(wk, Born(Len(wk) + 1)) /\ UNCHANGED phase
     \/ phase' = "running" /\ UNCHANGED wk
  /\ UNCHANGED <<coreVars, joined>>

SpawnOne ==
  /\ phase = "spawning"
  /\ Len(wk) < Len(core_ids)
  /\ \/ wk' = Append(wk, Born(Len(wk) + 1)) /\ UNCHANGED phase
     \/ phase' = "spawn_error" /\ UNCHANGED wk
  /\ UNCHANGED <<coreVars, joined>>

\* Ok(Workers { handles })
Spawned ==
  /\ phase = "spawning"
  /\ Len(wk) = Len(core_ids)
  /\ phase' = "running"
  /\ UNCHANGED <<coreVars, wk, joined>>

\* The caller joins, or drops the handles (into_handles, or plain drop).
CallJoin == phase = "running" /\ phase' = "joining" /\ UNCHANGED <<coreVars, wk, joined>>
Detach == phase = "running" /\ phase' = "detached" /\ UNCHANGED <<coreVars, wk, joined>>

JoinUntilPanic ==
  /\ phase = "joining"
  /\ LET i == Len(joined) + 1
     IN  /\ wk[i].at \in Ended
         /\ joined' = Append(joined, wk[i].at)
         /\ phase' = IF i = Len(wk) \/ wk[i].at = "panicked" THEN "joined" ELSE "joining"
  /\ UNCHANGED <<coreVars, wk>>

JoinInAnyOrder ==
  /\ phase = "joining"
  /\ \E i \in DOMAIN wk :
       /\ wk[i].at = "returned"
       /\ joined' = Append(joined, wk[i].at)
       /\ phase' = IF Len(joined') = Len(wk) THEN "joined" ELSE "joining"
  /\ UNCHANGED <<coreVars, wk>>

\* Workers::join waits for the next handle in spawn order.
Join ==
  /\ phase = "joining"
  /\ LET i == Len(joined) + 1
     IN  /\ wk[i].at \in Ended
         /\ joined' = Append(joined, wk[i].at)
         /\ phase' = IF i = Len(wk) THEN "joined" ELSE "joining"
  /\ UNCHANGED <<coreVars, wk>>

-----------------------------------------------------------------------------
(* A worker. *)

Move(i, from, w) ==
  /\ wk[i].at = from
  /\ wk' = [wk EXCEPT ![i] = w]
  /\ UNCHANGED <<coreVars, phase, joined>>

\* pin_current: the kernel may refuse, and the worker runs unpinned.
Pin(i) == \E ok \in BOOLEAN :
  Move(i, "born", [wk[i] EXCEPT !.pinned = ok, !.at = "pinned"])

\* block_on_each: a runtime that does not build panics on its thread.
BuildRuntime(i) == \E next \in {"body", "panicked"} :
  Move(i, "pinned", [wk[i] EXCEPT !.at = next])

OpenPlainSocket(i) == \E next \in {"socket", "panicked"} :
  Move(i, "body", [wk[i] EXCEPT !.at = next])

\* bind_reuseport: the socket, then SO_REUSEADDR and SO_REUSEPORT, before bind.
OpenSocket(i) ==
  \/ Move(i, "body", [wk[i] EXCEPT !.reuse = TRUE, !.at = "socket"])
  \/ Move(i, "body", [wk[i] EXCEPT !.at = "panicked"])

\* The kernel's rule for a second listener on one address.
MayShare(i) == \A j \in Listening : wk[i].reuse /\ wk[j].reuse

\* bind and listen; "in_use" is what the kernel answers when it may not share.
Bind(i) ==
  \/ Move(i, "socket", [wk[i] EXCEPT !.at = IF MayShare(i) THEN "listening" ELSE "in_use"])
  \/ Move(i, "socket", [wk[i] EXCEPT !.at = "panicked"])

\* The body returns or panics.
Finish(i) == \E end \in Ended : Move(i, "listening", [wk[i] EXCEPT !.at = end])

WorkerStep(i) == Pin(i) \/ BuildRuntime(i) \/ OpenSocket(i) \/ Bind(i) \/ Finish(i)

Next ==
  \/ Select \/ New \/ SpawnOne \/ Spawned \/ CallJoin \/ Detach \/ Join
  \/ \E i \in DOMAIN wk : WorkerStep(i)

\* Threads run, and a program that joins has bodies that end.
Spec ==
  /\ Init
  /\ [][Next]_vars
  /\ WF_vars(SpawnOne \/ Spawned) /\ WF_vars(Join)
  /\ \A i \in 1 .. MaxWorkers : WF_vars(i \in DOMAIN wk /\ WorkerStep(i))

-----------------------------------------------------------------------------
(* What the harness promises. *)

\* spawn_each returns Ok only with one worker for every core it was given, in
\* their order and at least one; and no two of them are pinned to one cpu if the
\* cores came from permitted() (PerCore::new takes repeated ids as well).
OneWorkerPerCore ==
  /\ phase \in {"running", "joining", "joined", "detached"} =>
       Len(wk) = Len(core_ids) /\ wk # << >>
  /\ \A i, j \in DOMAIN wk :
       /\ wk[i].core = core_ids[i]
       /\ (seed = "permitted" /\ i # j /\ wk[i].pinned /\ wk[j].pinned) =>
            wk[i].core # wk[j].core

\* SO_REUSEPORT is set "before bind, which is what lets every thread bind the
\* same address": no worker finds the address taken by another.
AddressShared == \A i \in DOMAIN wk : wk[i].at # "in_use"

\* join returns one result per worker, each its own, in spawn order; a panic is
\* that worker's Err and keeps nobody from being waited for.
JoinComplete ==
  phase = "joined" =>
    /\ Len(joined) = Len(wk)
    /\ \A i \in DOMAIN wk : wk[i].at \in Ended /\ joined[i] = wk[i].at

\* When every body ends, so does the join, panics or not.
JoinReturns == phase = "joining" ~> phase = "joined"
=============================================================================
