# compio-pool in TLA+

A verification project for the `compio-pool` crate: thread-per-core connection
pooling on compio. It models the pool's control flow (who may run when, what each
step reads and writes, what every early return, error, timeout and cancellation
gives back), the thread-per-core harness around it, and the example servers, proxies
and load generators that use it; checks them with TLC on small instances, and proves
with TLAPS, for every configuration and any number of tasks, threads and clients, the
safety properties of the pool, of its metrics, of the harness, and of the programs
that use them.

## 1. The system

| Part | State | Operations | Interacts with |
|---|---|---|---|
| `Pool` (`pool.rs`) | manager, config, `closed` flag, metrics registry; shared by all threads | `local`, `close`, `is_closed`, `state`, `statistics` | every `LocalPool` loads `closed` (relaxed) at many points |
| `LocalPool` / `Inner` | `idle` list, `slots` count, `waiters`; one thread only | `get`, `try_get`, `warm`, `reap`, `maintain`, `clear` | manager (awaits), `Waiters`, `Held` |
| `Held` | a reserved slot, perhaps with a connection | `into_pooled`, `into_idle`, `drop` | gives its slot back on every path that does not commit |
| `PooledConnection` | the caller's lease | `take`, `drop` | returns to `idle`, or frees the slot; wakes one waiter |
| `Waiters` / `WaitReady` | FIFO of `(id, waker)`, `next_id`, `woken_upto`; each future's `id` | `register`, `unregister`, `wake`, `wake_all`, `poll`, `drop` | the executor, through wakers |
| `Builder` / `PoolConfig` | settings | `build` (rejects `max_size` 0, caps `min_idle`) | |
| `ManageConnection` | the user's | `connect`, `is_valid`, `has_broken` | external: may succeed, fail or hang |
| `Metrics` (feature) | per-thread counters, registry of weak references, retired totals | scrape, retire | other threads read while the owner writes |
| `CoreSet` (`cpu.rs`) | the selected cores with their topology, in order | `permitted`, `from_infos`, filters, `spread`, `pack`, `take`, `core_ids` | the affinity mask and sysfs; feeds `PerCore` |
| `PerCore` / `Workers` (`workers.rs`), `bind_reuseport` (`listener.rs`) | thread handles; one socket per worker | `spawn_each`, `block_on_each`, `join`, `into_handles`; options, bind, listen | the OS: spawn, pin and bind may fail |
| Upstream programs: `http_proxy`, `scatter_gather`, `tcp_pool`, `fanout_requests` | a pooled stream with its read buffer and health flag; shared counters | lease, write, read a reply, mark, return, answer | many clients over few upstreams |
| Servers: `wal`, `file_server`, `task_echo`, `echo` | pooled log segments or buffers | accept, lease, read, append and sync, copy, reply | the load generators |
| Load generators: `load`, `load_churn`, `load_wal`, `load_file`, `kvload` | a thread per connection, a barrier, a deadline | connect, warm, wait, send, check the reply, join | the servers |

What is hard here:

* **Interleaving on one thread.** Nothing interrupts a task between two awaits,
  but at each await any other task may take the capacity this one saw.
* **One flag, many loads.** `close` comes from any thread at any instant; `get`
  alone loads the flag up to five times.
* **Rationed wakes.** A freed unit wakes exactly one waiter. One wake lost (the
  waiter's timeout won the race, a direct `get` took the connection) parks a task
  beside a free connection.
* **Cancellation anywhere.** A future dropped at an await must give back exactly
  what it owned: a slot, a connection, a place in the queue, or an unused wake.
* **Reuse.** A connection, segment or buffer goes from one client to the next: what
  the last exchange left on it (bytes on the wire, half a reply, an unsynced record,
  an empty `Vec`) is the next client's problem unless every path out cleans it.
* **Streams are not messages.** A read brings any part of what was sent, a write stops
  when the peer does not read: a server that takes one read for one request, or two
  ends that both write before they read, work until they do not.
* **Placement.** Filters and orders are chained in any order on hosts whose topology
  may be missing; spawn, pin, bind and the body fail on any thread at any time.

What makes each part correct: the queue is sorted and its watermark exact, waiters
are not overtaken in it (`Waiters`); slots are never leaked, returned twice or
over-committed, no capacity is stranded beside a waiter, every call ends
(`LocalPool`); after `close` waiters are told, as far as the code does it; a selection
of permitted cores stays one, each named once, and every spawned worker is accounted for
(`Workers`); nobody is sent another client's bytes and no failed or unclean upstream is
lent again (`Proxy`); what is acknowledged is on disk and stays there, an echo is the
client's own bytes, nobody waits for an answer that is not coming (`Services`).

## 2. Modules

| Module | What it is |
|---|---|
| `Waiters` | `Waiters` and `WaitReady`: the queue's operations, the two outcomes of a poll, the future's drop; and `WaitersSpec`, what any client that follows the protocol gets |
| `LocalPool` | EXTENDS `Waiters`: one thread's pool, its leases, the flag, the clock; one action per operation or per section of one |
| `PoolMetrics` | the cumulative counters across threads: registry, `retire_into`, `Pool::statistics`; every load, swap and add a step |
| `WaitersProofs` | the queue's invariant and arrival order, proved |
| `LocalPoolProofs` | types, refinement of `WaitersSpec`, slot accounting, proved |
| `CapacityProofs` | no stranded waiter, "what we observed still holds", and the refinement of `BoundedPool`, proved |
| `BoundedPool` | what a pool promises its callers, with no queue, clock or manager: at most `Bound` connections, each idle or with one owner. `LocalPool` implements it (`BoundedSpec`); `Proxy` and `Services` use a pool by this contract |
| `MetricsProofs` | every invariant of `PoolMetrics`, proved |
| `CoreSet` | `cpu.rs`: enumeration, topology with its fallbacks, masks, and the chain of filters and orders |
| `Workers` | EXTENDS `CoreSet`: the harness that spawns, pins and joins a worker per selected core, each with its listener |
| `CoreSetProofs` | what `sort_by_key`, `retain`, `spread` and `pack` do to a selection: the lemmas behind the theorems on it |
| `WorkersProofs` | what every chain keeps of a selection and what the harness does with it, proved |
| `Proxy` | the four programs that pool upstream connections |
| `ProxyProofs` | every invariant of `Proxy`, proved |
| `LoadGen`, `Services` | the load generators; and, extending them, the servers they drive |
| `ServicesProofs` | durability of acknowledged records, the buffers' return, and that an echo is what its client sent, proved |
| `MCLocalPool`, `MCPoolMetrics`, `MCWorkers`, `MCProxy` | instances for TLC, with one `.cfg` per run (`MCServices.cfg` runs `Services` itself) |

### State

`entries`, `next_id`, `woken_upto` are the fields of `Waiters`; `wid[t]` is the `id`
of the `WaitReady` future that task `t` polls (0 for `None`); `scheduled` is the set
of tasks whose waker was called and that have not been polled since (the executor's
ready list, external). `closed`, `idle`, `slots` are the code's; `now` is the clock.
A task is one call in flight or one lease, so a caller with two leases is two tasks:
`pc[t]` is where it is, `op[t]` which call, `lease[t]` the connection in its `Held`
or `PooledConnection`. `running` is the task inside a synchronous section.

### Atomicity

A section between two awaits runs on one thread and touches no shared state but the
flag, so only loads of `closed` can tell where in a section `Close` happened. The
model cuts a section exactly where a load decides what the rest of it does and a
different value might be seen later in it: `get`'s entry, the top of `get_inner`'s
loop, the poll, the check after the wait, `warm`'s entry, the retry test, and the
check in `PooledConnection::drop`. Two loads inside one action (`ready_now` and the
one after it in `WaitReady::poll`; a check followed by `notify`) have, whatever
falls between them, the outcome of one of the two orders of `Close` and the action.
While `running` is set no other task steps and the clock stands still.

| Code | Actions |
|---|---|
| `get` 811-834 | `Get`, then `DiscardExpired`/`TakeIdle`/`FastMiss` (fast path) |
| `get_inner` 894-964 | `LoopTop`, `PollWait`, `AfterWait`, `DiscardExpired`, `TakeIdle`, `OpenNew`, `Validated`, `Connected`, `ConnectFailed`, `GiveBack`, `BackoffOver` |
| `WaitReady` 1315-1353 | `PollWait` (with `PollReady`/`PollPending`), `DropWait` in `GiveUp` |
| `try_get` 848-892 | `TryGet`, then the same pop and open steps; no room returns `None` |
| timeout, cancellation | `Timeout`, `Cancel`: `GiveUp` at any await |
| `warm` 675-704 | `Warm`, `EnterWarm`, `Fill`, `Warmed`, `ConnectFailed` |
| `reap`, `maintain`, `clear` | `Reap`, `Maintain`, `Clear` |
| `PooledConnection` | `DropLease`, `Recycle`, `Take` |
| `Pool::close` | `Close` |

External, and modelled from how the code uses it: the executor (`Resume` polls a
parked task, woken or not), the manager (any answer, or none), timers (`Timeout` may
fire at any await of a bounded call), the clock (`Tick`).

Left out of the data: the connection itself (only its two timestamps), errors'
contents, return counts of `warm`/`reap`/`clear`, metrics (`mirror`, `note_*`), which
no pool logic reads.

### Metrics

`PoolMetrics` is a module of its own because its actors are threads, not tasks, and
its atomicity is that of single memory accesses. A pool's thread creates its block
(`Enter`, `Sweep`, `Join` under the registry mutex), adds to it (`Note`), and on
drop moves it counter by counter into the retired block (`Drop`, then `Swap` and
`Add` in turn, then `Free` when the strong references go). A scraper reads the
retired block, takes the mutex, and reads each block that upgrades (`Start`,
`ReadRetired`, `Lock`, `Upgrade`, `ReadLive`, `Unlock`). `noted`, `doomed` and
`hist` are history: they only let the properties compare a scrape with what
happened. All threads see the accesses in one order; x86-64 gives that here, but
`Relaxed` does not promise it on other targets, where "never both" would need a
release/acquire pair. The live gauges (`Pool::state`) are not modelled.

### Placement

A host is what the kernel shows at start-up: the mask, and each cpu's sysfs files,
absent or holding a number. A selection begins with `permitted()` or, through
`from_infos`, with any rows a caller makes up (`RowLists`: repeated ids, ids outside the
mask, impossible topologies); what a property claims of the one and not of the other it
says through `seed`. `Chain` applies any filter or order again and again;
`New` hands the selection to `PerCore`. The main thread then spawns (`SpawnOne`, which
may fail), and joins or detaches; each worker pins, builds its runtime, opens and
binds its socket and runs its body, interleaved with the others. A failed bind or
runtime panics on its thread, as the examples' `expect` does.

### Upstream programs

`prog` says which program a behaviour is of. A byte stream is a sequence of units,
each tagged with the request it belongs to: a head that says how the message is
framed, and units of body. So *whose bytes are these* and *where does the message
end* can be asked, and nothing else of the bytes is kept. An upstream has a request
queue at its backend (`pending`), a wire and the pooled read buffer; `Reply` and
`Hangup` are the backend's, in any order with the clients' steps, and a read brings
any prefix of the wire. `OriginReads` is how an origin frames a request
(`Transfer-Encoding` wins, then the first length): what `body_length` must not
disagree with. HTTP requests cover: no body, a body, two lengths, chunked beside a
length, a malformed length, too long. `tcp_pool` and `fanout_requests` read exactly
what they sent; the echo is taken in two units.

### Servers and generators

`LoadGen` has the threads and their sockets; `Services` adds the serve tasks, the
pool's resources, the log's segments and the served file. Connections are slots with
two streams of units: a unit of what a client sends is tagged with its thread, request
and position, so that an answer can be compared with the request it should be of. (The
generators send one payload again and again; the tag makes the comparison stronger.) A
name and its newline are two units of one request, a reply's header one unit, a body as
many as the file is long.

Each direction of a stream holds at most `Window` units, a `BufReader`'s read-ahead
included. `write_all` is a step per batch that finds room (`Write`, `WriteAll`) and
stands still while there is none. A read of a server takes any part of what has
arrived, up to the buffer's capacity `Chunk`, so requests are split and joined in every
way. A write to a closed peer may fail or still succeed; a read of one ends, and may
lose what was unread.

A pooled buffer keeps its bytes: it goes back with what the last use left in it
(`InHand`: empty only if it was cleared for a read that brought nothing), the next
lease has them (`Get`), and only the `clear` before a read, one `Cleared` in `Read` and
one in `CopyChunk`, keeps them from the next client. `Fill` is what a read does to a
`Vec` that was not cleared: the old tail stays. `AppendRecord` writes the record and
moves the offset, or fails having written any prefix of it and leaves the offset alone;
`SyncData` may fail; `disk` is what the last sync covered. `Touch` rewrites the served
file once, at any time; `Interrupt` kills the generator. One server worker is modelled: which
worker a connection reaches is the kernel's choice, and workers share only
`NEXT_SEGMENT`, taken by an atomic add. `WAL_SYNC` is on.

## 3. Runs

| Run | Shows |
|---|---|
| `pool_checked` | validation, retry, both expiries, `min_idle` 1, two slots, four tasks: types, `SlotsAccounted`, `NoStrandedWaiter`, `ObservationHolds`; the queue sorted, its watermark exact, arrival order kept; refinement of `WaitersSpec` and of `BoundedPool` |
| `pool_timers` | `CallsEnd`: a hung or refusing backend, the retry loop and leases that never return, only timers |
| `pool_cooperative` | the fast path (no validation), one slot, no timeout to rely on: `NoStrandedWaiter`, `NoLostWake` (once callers stop calling again, no `get` of an open pool is left waiting), `ReleaseAfterCloseDrains`, and `ClearDrains` (on a closed pool `clear` wakes everyone, idle connections or none) |
| `metrics` | three pools, one scraper, two counters: `TotalsSurvive` (nothing is lost for good or doubled, however many pools retire together), `NeverBoth` (no scrape over-counts), `CalmScrapeComplete` (a scrape that overlaps no drop misses nothing), `RegistryExact` (live blocks stay, dead ones go) |
| `placement` | any chain of filters and orders that begins with `permitted()` names permitted cores, once each (`OnlyPermitted`); of any selection, also of rows a caller made up, `OneThreadPerCore`, `SpreadBalances`, `PackFills`, `MaskNamesCore`; the harness: `OneWorkerPerCore`, `AddressShared`, `JoinComplete`, and `JoinReturns` when bodies end |
| `proxies` | `OwnAnswer`, `CleanWhenIdle`, `FailedNotReused`, `InflightExact`, `ExchangesEnd` for the four programs |
| `services` | the five generators and their servers: `EchoMatches` (everyone gets its own bytes back in order, through a shared buffer and any split of reads and writes), `AckedIsDurable` (what was acknowledged is on disk at its offset and stays there, through half-written appends, failed syncs, expiry and new segments), `BodyInOrder` (what `load_file` is sent is the file, chunk after chunk, with nothing an older chunk left in the buffer), `BufferHome` (no buffer returns to the pool without its storage), `AnswerComing` (no client reads while nothing of its request or answer is under way and its server reads too) |

Runs that TLC must find violated, each a disagreement between what the
repository says and what the code does:

| Run | Says | Does |
|---|---|---|
| `close_race` | "the first one to notice the pool is closed passes the news down the whole queue" (`pool.rs:147`) | close between a woken waiter's poll and `pool.rs:905`: it returns `Closed` silently, the others sit out their timeouts |
| `close_inert` | "Once it is, `get` and `try_get` hand out nothing" (`pool.rs:625`); "`warm` / `maintain` become no-ops", a return is dropped (`pool.rs:138`) | a `get` that was dialling hands its connection out; a `warm` in flight parks its connection and goes on; a drop that read the flag earlier recycles |
| `scrape_backwards` | "`Statistics` is monotonic" (`docs/decisions/0011`, line 23) | a scrape that overlaps a pool's drop finds a value in neither block and returns less than the one before |
| `spread_siblings` | "round-robin across packages, then NUMA nodes, then physical cores, with SMT siblings last" (`cpu.rs:166`) | within a package the order is (node, core, id): both threads of a core come before the next core, so `spread().take(n)` on one socket picks siblings first |
| `proxy_interim` | a message the proxy and the origin could frame differently is refused, lest it "splice one client's bytes into the next client's exchange" (`http_proxy.rs:28-32`) | a `1xx` is taken as the whole response; the final one, arriving after the upstream went back, is read by the next client |

The first two are bounded in effect: the timeouts still end every call (`CallsEnd`), and
any release after `close` drains the queue (`ReleaseAfterCloseDrains`). `scrape_backwards`
heals with the drop: totals survive, and a later calm scrape is complete. The bundled
origin of `http_proxy` sends no `1xx`.

Further claims of the repository that the models refute. Each is a definition of its
module; TLC finds it violated within seconds when it is made the only property of the
`.cfg` named.

| Definition | Says | Does |
|---|---|---|
| `StrictFifo` (`MCPoolCooperative.cfg` with `Spec`, `OneShot` `FALSE`) | "Fairness is strict FIFO. A long-waiting task is served before a newly arrived one" (`docs/decisions/0010`, line 54) | a new `get` pops the connection on the fast path (`pool.rs:819`) before the waiter woken for it is polled; the waiter rejoins at the back, and a caller that drops and gets again can do this to it until its timeout. Line 29 of the same file describes the overtaking; order *within* the queue holds (`ArrivalOrder`) |
| `NoFalseSiblings` (`MCWorkers.cfg`) | "a missing core_id falls back to the cpu id (so the core is treated as its own physical core ... no false SMT grouping)" (`cpu.rs:251`) | the fallback may be the `core_id` of another core of the package: `physical_only` then drops one of two cpus that share nothing |
| `AckMeansWhole` (`MCServices.cfg`) | an `OK` "means the record is on disk" (`load_wal.rs:5`) | a payload read in two parts is two records with an `OK` each; the first is taken for the whole payload, whose rest is not on disk. `wal.rs:13` says that one read is one record, enough for a driver on loopback; what the log acknowledged it keeps in any case (`AckedIsDurable`) |
| `OneReplyPerLine` (`MCServices.cfg`) | "one request per line" (`file_server.rs:10`) | a name read ahead of its newline is served; the newline is then a request of its own, answered `ERR`, which is taken for the next header |
| `BodyFollowsSize` (`MCServices.cfg`) | "`<size>\n` then `<size>` raw bytes" (`file_server.rs:12`) | the size is read before the copy: a file that shrinks meanwhile ends short of it, one that grows may run past it, and the connection goes on; a reader left short waits for ever |
| `RunReports` (`MCServices.cfg` with one generator and `MaxSent` 1) | "`--seconds` how long to run" (`load.rs:7`) | a thread whose connect fails returns before `barrier.wait()` (`load`, `load_wal`, `load_file`, `kvload`): the others wait in it for ever, and `main` in `join`. From `Bytes` = `2 * Window + 2` on also: the client writes its whole payload before it reads, the echo server writes back before it reads on, and both stop in `write_all` (`kvload --pipeline` alike) |

Seen while modelling: `fanout_requests` never reports an upstream broken (`has_broken` is
`false`), so a dead one is lent again and again; `FailedNotReused` leaves that program
out.

### Bounds

* `MaxId` caps the ids handed out (the code's `u64`). In the `OneShot` runs it is
  never reached; elsewhere reaching it stops a waiter from parking, which removes
  behaviours of the longest histories only: five ids already contain a task that
  parks, is woken, loses its unit, rejoins and is dropped.
* `MaxSize` 1 and 2: one slot makes every collision happen; two let one task be
  woken while another holds a slot and a third opens one. Tasks: one more than
  needed to have a lease, a woken waiter and a queued one at once.
* `MaxTime`: a connection is fresh, then expired; two ticks separate the two
  expiries.
* `OneShot` (a task makes a single call) keeps the liveness runs finite. It cuts one
  thing: with callers that drop a connection and get again on the fast path, a waiter
  can lose its unit and rejoin without end, and only its timeout ends the `get`
  (`StrictFifo` is refuted by the first such step). `NoLostWake` is therefore about
  callers that stop calling again. Safety runs let tasks call again and again.
* `PoolMetrics`: a pool lives once, so three pools give the walk a dead entry, its
  neighbour and a new one; two counters suffice for every position inside a block
  (first, last, half-retired); `MaxCount` bounds the `u64` counters,
  and one event per counter already shows it lost, doubled or overwritten. One
  scraper is enough: scrapers touch shared state only under the mutex, which new
  pools contend for too.
* `Hosts`: one socket with two cores of two threads, two sockets that number their
  cores alike with one thread not permitted (packages of unequal size), one socket
  with two NUMA nodes, a container without topology, and one socket where the `core_id`
  of one cpu alone is missing. `RowLists`: high threads first, an id named three times
  beside one outside every mask, three packages of unequal size with a core that claims
  two nodes, and no rows. `WordBits` is 2 where the
  code has 32, so that small cpu ids need masks of up to three words. `MaxWorkers` 2:
  every property of the harness is about a worker or a pair.
* `Proxy`: two clients, two requests each, one upstream per pool, so that every
  upstream is reused across clients and requests; two shards to tell their order.
  `MaxBody` 1 makes a body of two too long. Lines are shorter than `MAX_LINE` and
  heads than `MAX_HEAD`.
* `Services`: two threads and three requests between them, one pooled resource, so that
  the second client gets what the first returned; two segments and expiry, so that one is
  retired while its units count. `Window` and `Chunk` 2: a read brings less than the one
  before it (an old tail would show), `kvload`'s batch of three needs several writes, a
  file of three is two chunks, the last one short. `Lengths` has a shorter file: where a
  change matters. `--bytes 0` sends nothing and is left out, and `kvload` clamps its
  pipeline to at least 1. Requests stay below the `2 * Window + 2` from where on two
  `write_all`s can face each other; `AnswerComing` is about readers, and `RunReports`
  reports the writers.
* Symmetry over tasks and pools in the safety runs only.

### Fairness

`Scheduling`: a synchronous section goes on to its next await (weak); the executor
polls each task whose waker was called, and a finished back-off sleep resumes
(strong: another task may be in its section each time, so the step is enabled again
and again, not continuously). `TimerSpec` adds that timers fire, and nothing of the
manager or the callers. `CooperativeSpec` adds that the manager answers and leases
end, and no timer. Nothing is assumed of `close`, `clear`, `reap` or cancellation.

`Workers`: the main thread and the workers run, and bodies end (a program that joins
and serves for ever never returns, as the code says). `Proxy`: the runtime polls each
task, and a backend answers or hangs up; the programs have no read timeout, so
without that an exchange could indeed hang. Nothing is assumed of clients.
`Services`: threads and tasks run, and the deadline comes (only `RunReports` uses it).

## 4. Proofs

Every theorem holds for every value of the constants that satisfies the named
assumptions of the modules: `ConfigAssumption` (what `Builder::build` accepts),
finitely many tasks, pools and threads, sizes and bounds that are naturals, messages
that are records of the right shape (`ProxyAssumption`), hosts whose sysfs files hold one
number or are absent (`HostsAssumption`), rows of `from_infos` that are rows
(`RowsAssumption`), and that the markers `NoTask` and `NoConn` are
not a task and not a connection. Three theorems carry a hypothesis of their own, discussed
below: `Conformant` (two of `Proxy`) and `OneNodePerCore` (one of `CoreSet`). The instances
of the passing runs that check their properties satisfy them.

The pool:

* **`WaitersCorrect`**, **`WaitersInOrder`**. `QInv` adds to the checked properties
  what makes them inductive: no two futures hold the same id, and the watermark is
  below the next id. It takes the queue, ids and wakes as parameters, because a
  poll or a drop first withdraws an entry and then wakes: `UnregisterPreserves`
  and `WakePreserves` compose.
* **`PoolTypeCorrect`**, **`PoolImplementsWaiters`**, **`PoolWatermarkExact`**. Types
  and the queue's invariant are proved together: the pool's types make each of its
  steps a step of `WaitersNext` (`StepDrivesWaiters`), and those steps keep the
  queue's invariant.
* **`PoolSlotsAccounted`**. Inductive given the types; each action moves a unit
  between the idle list, an owner and nobody (four cases), so the saturating
  subtraction never saturates.
* **`PoolImplementsBounded`**. The refinement mapping sends `holding` to the owners of
  a slot and `parked` to the length of the idle list. Given types and slot accounting,
  each step opens (there `slots < MaxSize` is the abstract bound), reuses, parks,
  discards or retires, or changes neither (`StepIsBounded`).
* **`PoolNoStrandedWaiter`**, **`PoolObservationHolds`**. Not inductive: in the
  middle of a section a unit of capacity may have neither a woken waiter nor a
  taker yet. `CapacityInv` adds the control facts (`ControlInv`: one section at a
  time, an id lives exactly as long as its wait), `Observed`, and `Covered`: as long
  as someone is queued, capacity is at most the woken waiters plus the one get past
  its wait that is about to take. By slot accounting, capacity is `MaxSize` less the
  owners, so each action changes it by what `t` comes to own; `WakeCounts` counts
  what a wake adds.

* **`PoolClearDrains`**. An action property, from `CapacityInv`: a `Clear` on a closed
  pool empties the queue, and whoever is parked beside an empty queue has been woken
  (`EmptyQueueWoken`).

The metrics, for any finite set of pools, any scrapers and any number of counters:

* **`TotalsAreKept`**, **`NeverCountsTwice`**, **`CalmScrapesComplete`**. `TotalInv`
  says that what was noted of a counter is what is retired plus what each pool still
  has, in its block or in the register between its `Swap` and its `Add`. A swap and an
  add then move units between two places of one sum. `ScrapeInv` says it of a scrape
  in progress: what it has summed, plus what every pool it has not walked past still
  has, never exceeds what was noted, and while no drop overlaps it is no less than
  what was noted when it began.
* **`MetricsTypeSafe`**, **`RegistryStaysExact`**. In the middle of a
  walk the registry is half pruned, and a block may die behind the walker: `PruneInv`
  says that the holder of the mutex has left behind it nothing that was already dead
  when it came (`doomed`).
* Sums over pools are cardinalities of sets of units (`Pile`), so that the library's
  cardinality theorems apply; what needs induction over a finite set goes through
  `SubsetInduction`, an argument by minimal counterexample, because the library's own
  induction theorem takes an operator that the provers cannot instantiate.

The harness:

* **`EveryoneBinds`** (`AddressShared`), **`JoinGathersAll`** (`JoinComplete`). `WorkersInv`:
  the workers spawned are a prefix of the selected cores, all of them once spawning
  succeeds; every socket that binds has set its reuse option; the results joined are
  those of a prefix of the workers, in order.
* **`WorkersMatchCores`** (`OneWorkerPerCore`): after any chain there is one worker for each
  selected core, in order, and when the cores came from `permitted()` no two are pinned to
  one cpu (`PerCore::new` takes repeated ids and pins twice). It puts `WorkersInv` together with
  what is proved of the selection.

The selection, for any host and any chain:

* **`SelectionPermitted`** (`OnlyPermitted`), from `RowsInv`: in a selection that began with
  `permitted()` the rows are the permitted cores' own topology, each at most once. Of
  rows given to `from_infos` nothing of the kind is claimed. Every link of a chain only picks rows
  (`Picks`: an injection of the new indices into the old ones), which keeps it.
* **`PhysicalKeepsLowest`** (`OneThreadPerCore`). That exactly one thread of a core is left
  is `retain`'s; that it is the lowest-id one needs `SiblingsInv`: in a selection that
  began with `permitted()` the rows of one core stand in the order of their ids, through
  every filter and through both orders. `pack` and `spread` compare the node before
  the id, hence the hypothesis `OneNodePerCore`: both threads of a core are in one NUMA
  node, as hardware has it.
* **`SpreadIsBalanced`** (`SpreadBalances`). The row of a core is its place in its package's
  column, and `spread` sorts by row first (`SpreadOrder`). If package `q` still has a core
  to give, at row `r`, then all that was given before lies in rows up to `r`, and of `q`
  every row below `r` is given: at most `r` cores of any package against at least
  `r - 1` of `q` (`Shares`, two injections).
* **`PackIsFilled`** (`PackFills`): a sorted sequence never leaves a common prefix of its keys
  and comes back (`PackBetween`).
* All of it rests on one fact about `InOrder` (`InOrderLists`): for a strict total order of
  a finite set, the member with `k - 1` members before it exists and is unique, so the
  list is a bijection that follows the order.

The upstream programs, for any clients, shards and messages:

* **`FailedAreDropped`**, **`InflightCounts`**. From `LeaseInv`: an exchange holds a leased
  connection exactly while it writes or reads (and, in the proxy, until a failed one is
  answered), no two hold the same, and every failure path marks its stream before it
  returns it.
* **`LeftoversAreRetired`** (`LeftoversRetired`), whatever the origins send: an exchange that
  ends with bytes in the buffer ends by marking its stream, and nothing but a read by the
  stream's holder fills the buffer. What still comes after the upstream went back it does
  not cover: that is `CleanWhenIdle`, and takes conformant origins. With those the check
  for leftovers at `http_proxy.rs:289` never fires, so no run checks this theorem.
* **`OwnBytesOnly`** (`OwnAnswer`), **`CleanWhenLent`** (`CleanWhenIdle`), from `ProxyInv`.
  `StreamInv` is the reason it works: an upstream that is not leased has nothing in its
  buffer, on its wire or pending, and a leased one has either the one outstanding
  request of its holder or the units of one reply to it, the buffer holding the first
  of them and the wire the next, up to the length its head announces. A read that
  completes therefore takes the whole reply, and the connection goes back blank.
* Both suppose `Conformant`: no reply is a `1xx`, and a head that the proxy accepts
  announces the body that follows it. It is a hypothesis of the theorems and not an
  assumption of the module because the other properties do not need it and because
  the `proxy_interim` run is a peer that breaks it. The messages of the `proxies` run
  satisfy it, the refused framings among them (two lengths, chunked beside a length,
  malformed). Of requests it only says that an accepted head announces what the client
  sends; that the origin sees one request in it is `OneRequest`, proved of whatever
  `body_length` accepts.

The servers and their generators:

* **`AckMeansDurable`** (`AckedIsDurable`). A leased resource has one task, an open
  resource has a segment of its own, with its offset inside the log (`LeaseInv`,
  `SegmentInv`); `RecordInv` follows what one read brought from the append (its units are
  in the log, right below the offset) through the sync (they are on disk) to the
  acknowledgement; `AckedInv` adds that nobody who could still write that segment has an
  offset below it, so that no later append, whole or half done, and no truncation touches
  it.
* **`BuffersComeHome`** (`BufferHome`), from `HomeInv` with `LeaseInv`.
* **`OwnBytesBack`** (`EchoMatches`), for any payload, buffer and window sizes. `EchoInv`:
  a connection has one thread at its client's end (`OwnerInv`) and one task at the other
  (`ServeInv`), and what the client has read, what waits for it in the reply stream, what
  the server has yet to write of what it read, and what it has yet to read are
  consecutive runs of the one outstanding request, which end where the client has got to
  in writing it (`Flow`). That the server's buffer begins each read empty (`FillCleared`)
  is what makes its part a run of this request: with `NotCleared` the bytes that the last
  user left follow it.

What the proofs changed in the models: the filters and orders of `CoreSet` were folds and
sorts of the library's sequence operators, about which nothing can be proved without
induction over data, and are now written through `InOrder`, whose k-th member is the one
with `k - 1` before it (TLC compared the two on every selection the `placement` run
reaches); `body_length` and `read_message` were written with `CASE`s whose arms overlap,
of which TLC takes the first but TLA+ allows any, and are now conditionals; and `acked` is
the set of units its property speaks of, each with its place.

Only model-checked:

* the liveness properties (`CallsEnd`, `NoLostWake`, `ReleaseAfterCloseDrains`,
  `JoinReturns`, `ExchangesEnd`), which rest on fairness and are out of the
  prover's reach;
* `BodyInOrder` and `AnswerComing`: they hold through the rounds of the copy loop and of
  every protocol; no proof was attempted;
* `MaskNamesCore` of `CoreSet`: the value of a mask is a fold over its words (induction
  over data) of powers of two, and the provers have no theory of `^`.

Every other property of the passing runs is a theorem.

## 5. Not modelled

Left out, and why:

* The live gauges (`inc_conn`, `mirror`, `Pool::state`): they copy `slots`, `idle` and
  `waiters` for display, no logic reads them, and a torn read of them is documented.
* `average_wait_time`'s truncation to 32 bits: one expression, wrong only after 2^32
  waited gets.
* A connection whose own `Drop` reaches back into the pool (the reason for the
  borrow scopes in `reap` and `clear`): it depends on the user's type.
* The log after a restart: the next process starts at `seg-0` and truncates it, and
  nothing reads a segment back, so there is no recovery to specify.
* HTTP methods: a `HEAD` or a `304` that announces a length makes the proxy wait until
  the origin closes; in the model that is a reply that stays incomplete.
* `kvload`'s count of replies that differ from what it stored, which its threads only
  report: the key-value server is not in the repository. `load`'s `--hold-ms`, a
  sleep after the barrier, which the interleavings contain.
* Option parsing, percentiles and printing of the generators; `name` and `proactor` of
  `PerCore`; `SO_INCOMING_CPU`, a hint.
* `udp_echo`, `unix_echo`, `fd_pipe` and `warmup`: the same loops over another
  transport, and a demonstration of `warm`.
* `crates/deadpool-baseline` (the same programs over another pool), the benchmarks and
  the host-tuning scripts.
