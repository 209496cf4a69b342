# BakpiaRun in TLA+

BakpiaRun is an application server for PHP. A Rust process (`src-server`, axum
on tokio) accepts HTTP, keeps pools of long-lived PHP worker processes
(`src-worker/worker.php`) that it reaches over Unix sockets, restarts them by
quota, memory or accident, and adds a job queue, a rate limiter, static files
and a MySQL proxy. This directory models the parts of it whose correctness
depends on interleaving, failure or arithmetic, checks the models with TLC, and
proves their main invariants with TLAPS.

Paths below are relative to the repository; `handlers.rs` and the like are
under `src-server/src`.

## Inventory

| component | state | operations | interacts with |
|---|---|---|---|
| worker slot, `worker.rs` | child process, pid, counters, memory figures, `draining`, `active_requests`, behind one tokio `Mutex` | `start`, `stop`, `graceful_recycle`, `ensure_running`, `check_health`, `should_restart`, `update_stats` | handlers and monitor lock it; it spawns and kills PHP |
| worker pool, `worker_pool.rs` | vector of slots, configuration, round-robin index | `start_all`, `stop_all`, `get_next_worker`, `reload` | handlers, monitor, reload |
| pool manager, `pool_manager.rs` | pools by name, routing table, behind one `Mutex` | `new`, `get_pool_name_for_request`, `update_routing_table`, `stop_all` | handlers, reload, shutdown |
| request handler, `handlers.rs` `php_handler` | one task per request | rate limit, static file, routing, pick, ensure, body and uploads, send under a timeout, settle | everything above, rate limiter, PHP |
| worker IPC, `ipc.rs` | one connection per request | connect, send, receive | handler and PHP |
| PHP worker, `src-worker/worker.php` | listening socket, the connection it serves | bind, accept, include the script, answer; dies by fatal error, signal or kill | the kernel's sockets |
| anti-OOM monitor, `anti_oom.rs` | heaviest candidate of a round | sample cgroup, sweep slots, recycle, evict | locks slots |
| job queue, `queue.rs`, `main.rs` | map of jobs, queue of ids, one lock each | `submit`, `get_status`, the poll loop's dequeue, mark, execute, record | HTTP handlers, `lib/BakpiaQueue.php` |
| rate limiter, `rate_limiter.rs` | a token bucket per address | `check_rate_limit` | handler |
| reload and shutdown, `main.rs`, `handlers.rs`, `worker_pool.rs` | configuration | SIGHUP, `GET /reload`, ctrl-c | manager, pools, slots |
| database proxy, `db_proxy/mod.rs` | statement table per connection, connection pool | handshake, query, prepare, execute, close | PHP scripts, MySQL |
| health and metrics, `handlers.rs` | none | read everything under nested locks | manager, pools, slots |
| static files, config, logger, auth, security headers | none that decisions depend on | stateless | handler |

### What is hard, and what makes each part correct

*Slots.* A slot is locked and released many times in the life of one request
(pick, ensure, mark, settle, recycle), and the process behind it may be killed,
replaced or die between any two of these. Correct means: a process is never left
without a supervisor, two processes never share a socket path, `active_requests`
is exact on every way out, `draining` never outlives the recycle that set it, no
lock outlives its operation, the request quota is kept up to the unavoidable
overshoot, and every request is answered whatever PHP does.

*PHP processes.* The timeout of a request does not stop its script; the request
stays in the socket and runs later. Correct means: no connection is executed by
another slot's process, and nothing the script needs disappears under it.

*Monitor.* It decides on figures that may be stale by the time it acts.

*Job queue.* Two locks, taken one after the other. Correct means: what is
dequeued is known and Pending, jobs run once and in order, nothing accepted is
lost, clients learn the outcome.

*Rate limiter.* Refill, cap and rounding. Correct means: the bound holds over
every window of time, and the headers tell the truth.

*Reload, shutdown and disconnects.* They race with everything above: orphans,
restarts after the stop, an empty pool, stale configuration, futures dropped at
an await. Correct means: no mutex stays locked or is crossed, a reload starts
every slot and ends, ctrl-c is never blocked for good, an abandoned request
leaves `active_requests` too high but never too low.

*Pool manager.* A handler finds its pool in one lock section and its slot in
another, while reloads change both, cross each other, or are dropped half-way with
their client. Correct means: the name it got stays a pool, what a reload that has
answered announced is in force until the next one, no mutex is left behind, the
pools that have sections do not share sockets.

*Database proxy.* One-byte packet numbers, statement ids, borrowed connections,
parameters and rows in two encodings. Correct means: a client always gets the
packet and the number it expects, a connection is owned by one query and always
returned, what is executed is what was prepared and meant.

*Static files and memory files.* Both are read in several steps while somebody
changes them. Correct means: what is there all the time is found, and no answer
is made of halves that never were there together.

`PROJECT.json` lists these as hazards, each at its line, with the properties
that watch it.

## Modules

```
PhpProcess          PHP processes, sockets, connections
   |
Worker              slot state, operations under the slot's mutex
   |        \
RequestHandler  AntiOom        php_handler + round robin;  the monitor
   |        /
PhpServer           composition, fairness, properties: MCPhpServer, PhpServerProofs
   |        \
   |         PhpHistory     what a scan has tried: MCPool, ConnectionProofs
ServerLifecycle     reload, shutdown, inspection, disconnects: MCLifecycle,
                    LifecycleProofs

PoolManager                             MCPoolManager, PoolManagerProofs
JobService  <--refines--  JobQueue      MCJobQueue, JobQueueProofs
RateLimiter                             MCRateLimiter, RateLimiterProofs
DbProxy                                 MCDbProxy, DbProxyProofs
ParamDecoder
   |
Data     also instantiates Routing, Substitution, DbPackets, MemoryReading,
         FileServer                     MCData, DataProofs
```

In every module, an operator under a comment that begins with "Mutant:" is a
plausible bug in the definition after it. No specification uses it; replacing
the definition by it must make TLC find a property violated, which shows that
the property depends on that code.

### PhpProcess

`alive`, `booted`, `home`, `listener`, `backlog`, `serving` are the processes
and the kernel's view of their sockets; `reply[r]` is what request `r` can read.
`Boot` is worker.php up to `stream_socket_server`, `Accept` takes the oldest
connection, `Respond` and `CloseSilently` end it with and without an answer,
`Crash` is a death at any point (fatal error, `exit()`, the kernel's OOM killer,
a failed bind), `Terminate` the signal handler, which unlinks the path whoever
listens there. The operators `Launch`, `Dial`, `HangUp`, `Abandon`, `Die` are
what the server does to processes; the other modules use them. When a handler
drops its connection the bytes stay in the socket: the entry in `backlog` or
`serving` becomes `Gone`, or `Bereft` when the handler also deleted the uploads.

### Worker

Per slot: `lock`, `process`, `draining`, `active`, `handled`, `phpmem`, `rss`.
Per task: `pc`, `cur` (its slot), `call` (the awaiting operation it is in). A
critical section without an await is one action that needs `lock[w] = None`. One
that awaits keeps the lock over several actions: `ensure_running` on a dead
child goes to "spawn" and "ready"; `graceful_recycle` goes through "drain",
"spawn", "ready". `process[w]` with a pid that is not in `alive` is a zombie:
`check_health` (`IsRunning`) reaps it, `process.is_some()` does not notice.
`Observed` is what `/proc` can show: nothing for a zombie.

### RequestHandler

One task per request in progress, `pc` running through idle, pick, probe,
ensure, body, mark, connect, await, then ok, failed or timedout, and recycle.
`get_next_worker` is a loop under the pool's lock: `ProbeHit`, `ProbeMiss`
(also for a lock that is held for one of the one-step critical sections),
`Fallback`. `current` is `current_index` modulo the number of slots, which is
how it is used. The last three settle the slot as the code does: success charges
the process and may go on to recycle under a second lock, an I/O error ensures
a running process, a timeout recycles.

### AntiOom

`Wake`, `Snapshot`, then per slot `SweepRecycle` or `SweepTrack`, then
`EndRound` or `Evict`, each with the locks of the code. `heaviest` holds its
candidate without a lock, as the code does.

### PhpServer

Composes the three and states the properties. The initial state is the end of
`start_all`: one process per slot, none of which has bound its socket yet.

### JobService and JobQueue

`JobService` is the promise: a line of accepted jobs, started one at a time in
order, each once, with a final result. `JobQueue` is the code: `Insert` and
`Enqueue` are the two locks of `submit`, with the client free to give up
(`PushFails`) and its connection to be noticed as closed (`Disconnect`) between
them; `Dequeue`, `MarkProcessing`, `Execute`, `Record` are the poll loop of
`main.rs`; `Push`, `Pushed`, `Poll` and the exceptions `PushFails` and
`StatusFails` are `lib/BakpiaQueue.php`. The refinement
maps `status` to the map's statuses and `line` to the queue, with the id that
the loop has dequeued and not yet marked in front of it. `Wire` is what serde
makes of a status: `Failed(error)` becomes an object.

### RateLimiter

One address, any number of concurrent requests. Tokens are integers: a token is
`60 * TicksPerSecond` units, so the refill of a tick is exactly
`requests_per_minute` units and the resolution of the clock is a parameter.
`from` and `admitted` are an observer's: a window that opens at any time, and
the admissions in it. `told` is the last answer the client was given.

### ServerLifecycle

Extends the server by the tasks that work on a whole pool. A reload is
`BeginReload` (the configuration is stored), `LockManager`, `LockPool`, a
`StopNext` per slot, `Resize` (new slots when `worker_count` has changed), a
`StartNext` per slot with the awaits of `Worker`, `FinishReload`. A shutdown
takes the same way up to `Exit`, after which only PHP runs. `/health` and
`/metrics` are inspections with one or several passes, which give the pool's
mutex back between two passes and keep the manager's. `held[t]` is the
configuration a task has cloned and `born[w]` the one a process was started
with. `Cancel` is a client that disconnects: hyper drops the future of its
handler at the await where it is, which releases its guards and undoes nothing
else. `NextWorkerPanics` is the remainder by zero of an empty pool: the task of the
request ends in "panicked" and its client gets no answer. `EveryRequestAnswered`
counts a request as answered only when its handler has come back with a response,
and excepts a pool that a reload has left without slots, which is the one way to
panic; `NextWorkerExists` (*Known divergences*) is about that way.

### PoolManager and Routing

`PoolManager` has the boot with its spawn errors, the handler's two lock
sections (name, then `get_pool`), and reloads with the routing table and the
settings each pool is reloaded with; `bound` is who listens at which socket.
`ReloadPool` replaces one pool, with all of its processes or those before an error.
A reload over HTTP is dropped when its client leaves: while it waits for the manager
(`AbandonWaiting`, the server has a configuration that no pool has), for a pool or
a slot of it (`AbandonStopping`), or for a process to start (`AbandonStarting`), which
leaves the new table with some pools reloaded, one in between and the others as they
were. SIGHUP's task has no client. `inForce` and `number` record which reload ended
last and `dropped` the pools that some reload found no section for; they are for the
properties and guard nothing.
A request is the kind of path and headers it has. `Routing` compares the texts:
`MatchPattern` and `MatchHeaderValue` as the code's chains of tests, against
`Glob`. Two remarks: `/dir/*` is decided by the branch for a star at the end,
so the directory branch after it is never reached, and `/*/` matches `/`, where
the slash at the start and that at the end are the same one; `PatternIsGlob`
says so in its condition.

### DbProxy

One task per client: greeting, command loop, statement table, and per query a
connection from the pool, until the reply is written. An action ends where the
task awaits: room for a packet, a command, a connection. The clients are
MySQL's: they know which packet and which number comes next, and keep a book of
statements. The proxy ends every reply to a prepare with an EOF for columns of which it
has announced none. MySQL's clients do not read it; those in `Lenient`, of which there
may be none, do. `InStep` is claimed of both, of MySQL's own up to the first statement
that the proxy has prepared for them: `PreparesInStep`, the claim for the time after,
is false and under *Known divergences*.

### ParamDecoder, Substitution, DbPackets

The data of an execution, step by step as the code's loops take it: the header
(`ReadTypes`, or `NoParams` or `AllNull`) and a step per parameter over the bytes of the packet, with the positions that
each step reads in `read`; a replacement per parameter; a column per step of a
row, whose packet the module builds as the proxy does and reads as a client
does.

A client sends every type of MySQL (`Sends`): integers, floating-point numbers, the
types of texts, dates and times. The decoder takes all but four of them for texts, and
passes texts through `String::from_utf8_lossy` (`FromUtf8Lossy`): UTF-8 stays what it
is, anything else becomes a text that nobody meant (`Replaced`). `DecodesAsMeant` is
about each parameter by itself: a NULL always; a value that the decoder can express
(`IsKept`: an integer of one, four or eight bytes, a text in UTF-8) as long as it has
found the end of every value before (`EndIsFound`: NULLs and those integers). So a
parameter after a text, a float, a date or a SMALLINT is not promised anything, and is
in fact misread (`TextsAreKept`). `SubstitutesInPlace` is about each parameter by
itself, too: the n-th is put in the place of the n-th "?", and stays there whatever
the later ones are, if no parameter up to it has a "?" of its own. One that has moves
what comes after it: that is the code, and nothing is promised of what comes after.

### MemoryReading and FileServer

The monitor reads up to five files in turn, with fallbacks from cgroup v2 to v1
to `/proc/meminfo`. They change any number of times meanwhile, so that a usage may be
compared with a limit of another moment; `seen` is all that they have said since the
reading began. `PressureIsReal` demands of the pressure a usage and a limit that there
were, and one instant of both unless each of them has changed. What the files mean
(`UsageIn`, `LimitIn`) is defined by the kernel's meaning of them and not by the code's
fallbacks, and nothing is claimed where they do not tell (`Told`): a garbled limit, one
beyond the size of the machine, which the code uses as it is, a `/proc/meminfo`
without `MemAvailable`, which the code takes for a full machine. The f64 percentage
may come out on either side where it is the threshold exactly (`Judged`).

`FileServer` is `is_static_file`, `find_php_file` and `serve_static_file` over a
document root that changes up to `MaxChanges` times between any two of their system
calls. A file has a version, a size and a time; its ETag is the size and the second
(`Tag`), so two versions can share one. `StableFileIsSent` promises a client that asks
for a file which is there all the time, replaced or not, that the handler does not
panic and sends one version of it, with an ETag that is not from before it, and is its
own if it still is in place at the end. Files are replaced as a whole (a rename): a
read in the middle of a write would be a torn one, and the server does nothing about
it. The clock of the files is not set back.

### Data

The six modules on algorithms have no state in common. `Data` puts them under
one specification: `subject` says which of them a behaviour is about, the others
rest. `MCData` has the inputs for TLC. `MemoryAssumption` says of the constants
what the kernel guarantees: numbers are not words, and the number that stands for
no limit is no other; `FileAssumption` that a clock of files ticks at least once a
second; `QueryAssumption` says that the bounds on texts are numbers;
`PacketAssumption` that the sizes, the numbers and the columns in packets are below
2^31, where TLC's integers end. The code's have 64 bits: the upper half of a number
of eight bytes, as a count of rows or an id may need, is always zero in the model.

## Runs

| run | instance | shows |
|---|---|---|
| `server` | `MCPool`: 2 slots, 2 requests, monitor, 2 pids, spawn errors | types, exact counts, no orphan, one process per socket, connections held by their own slot only, draining guarded and frozen, quota overshoot, a scan tries every slot before it falls back |
| `liveness` | `MCLifecycle`: 1 slot, 1 request, monitor, a reload that keeps the slot or leaves none | every routed request is answered, or finds a pool without slots; a slot over its quota is recycled, a reload ends |
| `reload` | `MCLifecycle`: from 1 slot to 1, 2 or none, 1 request, monitor; the reload may be abandoned | types, every mutex owned, every slot started, orphans bounded |
| `disconnect` | `MCLifecycle`: 2 requests that may be abandoned, monitor, spawn errors, ctrl-c | supervision, sockets and connections stay sound, every mutex owned, `active_requests` is never too low |
| `inspection` | `MCLifecycle`: `/metrics`, which may be abandoned, a reload to 1 slot or none, monitor, ctrl-c | the pool is the same in every pass, ctrl-c gets through |
| `pools` | 1 request, 2 reloaders, one of which may be abandoned, 3 reloads, 4 configurations | the manager's mutex is owned, the routed pool exists, pools mix only where no section is left for either, what a finished reload has loaded is in force |
| `jobs` | 3 submissions | refinement of JobService, nothing accepted is lost, every accepted job ends |
| `ratelimit` | 2 concurrent requests, burst 2, 28 a minute, 9 s | window bound, Retry-After, remaining |
| `proxy` | a lenient client with 4 commands, one of MySQL's own with 1, 1 connection, numbers modulo 4 | connections are owned, the statement tables agree, clients and proxy stay in step |
| `proxy_live` | 2 clients of MySQL's own with a command each, one of which may stop reading, 2 connections | the other one is answered |
| `data` | `MCData`, see the bounds | parameters are decoded as meant as far as the decoder finds its way, within the packet and one for each marker; patterns and headers decide as globs; each parameter is put in its own place up to the first with a "?"; rows, OK packets and headers are read as meant; the pressure that the monitor sees is of a usage and a limit that there were; what stays in the document root is found and sent, an ETag is never older than its body |
| `recycle_kills` | 1 slot, 1 request | *violated*: the drain waits for requests in flight |

The violated one quotes a comment of the code (`PROJECT.json`, findings).

**Bounds.** Two slots are enough for `server`, because slots share only the
round robin, and a scan of two can skip one and find the other; two requests and
the monitor give three tasks that contend for a slot, which is the smallest
number in which one task can change the slot between two critical sections of
another while a third holds the lock. `MaxRequests` is 1 (2 in `recycle_kills`),
so that the quota is reached at once; `Levels` = {1} with `Threshold` 1 puts
every sample that the monitor can take at the limit, and a sample that fails
below it. Three jobs are the least for which FIFO, LIFO and mixed orders differ
with one job in hand. The rate of 28 a minute neither divides nor is divided by
60, so every rounding occurs within the nine ticks; `CONSTRAINT ClockBound` ends
the clock there. Symmetry over pids, and over requests in `ratelimit`, is used
only where no liveness is checked.

The `MCLifecycle` runs begin with one slot; three pids in `reload`, two
elsewhere, so that an overwritten child and its successor are there together.
`MaxReloads` is 1: it bounds `OrphansPerReload`, and every property is about the
time during and after the last reload. `Passes` is {1, 2}, `/health` and the
least of `/metrics` that gives a mutex back. `DisconnectBound` stops when
abandoned requests have pushed `active_requests` to 2, or left that many
connections in a backlog: beyond it nothing new is compared. The inspection runs
without requests, which take neither of the two mutexes for longer than a scan.
`PoolManager` has two pools at boot and a third section, which is what it takes
to keep, resize, reorder, add and remove: of the four configurations, one removes
one pool and one removes both, so that their processes can meet in the shared
directory. Two reloads cross, and a third begins after an abandoned one. One request
is enough, because requests change nothing that reloads or other requests read.

In `DbProxy`, `SeqMod` is 4 (3 in `proxy_live`) in place of 256, so that numbers
wrap within a reply; `Buffer` is one packet, less than a reply has, so that both
sides block; `MaxColumns` is 1, and rows are unlimited; four commands of one
client let ids be closed and reused if the code did so.

In `data`: texts of up to 3 symbols against patterns of up to 4; queries of up to 4
symbols and two parameters of up to 2, which is a marker and something around it; up
to three parameters of all types, and nine, the least that need a second byte of
bitmap (of three the first is one of three kinds of value); rows of up to 3 columns
with sizes on both sides of every bound of the length encoding, and of nine;
machines with groups of either version, of both and without any, with files that are
missing or garbled, and up to three different contents in a reading, which is a
usage and a limit that change apart; two changes of the document root, so that a
file goes and comes back, or is replaced twice within a second, of two sizes and in
half seconds.

**Deadlock** is checked except where the system stops: in `jobs` when every
client has its answer, in `disconnect` and `inspection` when the server has
exited and PHP rests, in the proxy runs when every client has left or sent its
last command, and in `data` when the result is there.

**Fairness.** `PhpServer` assumes strong fairness of each handler and of the
monitor: tokio runs what can run and its timers fire, and its `Mutex` is FIFO,
so a waiting task gets a lock that is freed again and again. Nothing is assumed
of PHP, which may hang for ever, nor of new requests; that a client finishes
sending its body is assumed, because the code has no timeout there.
`ServerLifecycle` assumes the same, while the server runs, of reloads,
inspections and shutdowns that have begun; not that one begins. `JobQueue`
assumes weak fairness of the poll loop only. `DbProxy` assumes weak fairness of
the tasks' own steps and of the pool's reset of what it gets back, strong
fairness of getting a connection (`get_conn` serves its waiters in turn) and of
the end of a result (the backend's rows are finitely many, while each of them
enables the next), and weak fairness of reading for the clients in `Readers`
only.

## Proofs

Proved for all values of the constants that satisfy the named assumptions (any
number of slots, requests, pids; any limits).

*PhpServerProofs.* `Control` is types together with `LocksAreOwned`: a task
inside an awaiting operation holds the lock of the slot it works with, and
whatever lock is held between two steps belongs to such a task. It is inductive
by itself, and is the base of the rest. `Supervision` strengthens `NoOrphans` by
what makes it inductive: a task about to spawn finds its slot empty (which needs
the lock), children are not shared, and a live child listens on its slot's path.
From it follow `NoOrphansEver` and, if every slot has its own path,
`SocketsAreExclusive`. `Draining` says that
`draining` is TRUE only between a recycle's start and its spawn, under its lock;
hence `DrainingNeedsLock`, and `DrainsAreFrozen`: `active_requests` cannot change
during a drain, so the two-second wait of `graceful_recycle` never ends early
with a request in flight. (It also follows that the test of `draining` at the
entry of `graceful_recycle`, and in `get_next_worker` after `try_lock`, never
finds it TRUE: the mutex alone does the work.) `ActiveCountCorrect` follows from
`Control` by counting; its cardinality facts come from `FiniteSetTheorems`. The
two make up `BookkeepingStaysExact`, the theorem on the run's property.

*ConnectionProofs.* The third part of `ProcessesAreSound`, that a process holds
connections of its own slot only. `Connected` adds what makes it inductive: who
listens at a path was spawned for it, a process holds a connection once, and
nobody has an answer who does not wait for one. A handler dials whoever listens
at its slot's path; that this is its slot's child needs `Supervision` and
distinct paths, which is the theorem's assumption.

`QuotaIsKept`: under the same assumption, a process serves
less than one request over its quota for each concurrent request. The invariant,
`Charged`, bounds `handled` of a slot by the quota and the number of requests
that are spent on it: those about to replace its process and, once it has none,
all that cannot be charged to it any more. It rests on `Draining`, `Supervision`
and `Connected`: that a handler which settles is one whose connection the slot's
own process held. `ScansCoverThePool`: a scan of `get_next_worker` falls back only
after it has tried every slot. `Scanning` says which ones it has tried, the slots
that the round robin has just gone through (`Back(j)` is the j-th behind
`current_index`); it is inductive because whoever scans holds the pool's mutex, so
that no other request moves the index in between. That the last `n` positions of
a ring of `n` are all of it is the arithmetic of `current_index % len`.

*LifecycleProofs.* `Control` again, now for a server whose slots are stopped,
replaced and restarted under it; `PhpServerProofs` states for this what a step of a
handler, of the monitor and of PHP may do to slots and locks, whatever else is
there, so that both use the same lemmas. `LifecycleControl` adds the mutexes of the
manager and of the pool, held by exactly the task that works under them, and that
a reload which waits or works has its configuration. From it follow
`MutexesStayOwned`, `InspectionsAreStable` (only who holds the manager's mutex
changes the slots or their configuration, and an inspection holds it in all its
passes) and `ActiveAlwaysCovers` (`active_requests` and the requests in flight
change together, or a disconnect takes one of the latter away).
`ReloadsStartEverySlot`: `PassedAttended`, that each slot which the reload has gone
through has a child or is locked by somebody who is about to start one. A slot that
has no child and is not locked appears only when a spawn fails, or a client leaves a
handler between the kill and the spawn; the property is about the reloads without
either. `OrphansAreBounded`: `OrphansAreCharged` adds up the processes
whose `Child` was dropped, the slots which the reload has still to start, each of
which may drop another one, and the slots that were replaced, which who still has
them can restart; a reload pays for all of these, one process for each slot there
ever was, when it resizes the pool (`Pending` are those that have not). It needs
`SlotsAreMade`: tasks work with slots that were created, a pool has no slot twice,
and nobody but a reload spawns into a slot that may have a child. The one assumption
that is more than a type is that slots are told apart: `Slots` names no slot twice.

*JobQueueProofs.* `Progress` ties the poll loop's position to the status of the
job in its hands and a submission's position to its status. With it
`QueueHoldsPending` and `AcceptedIsTracked` are inductive (`QueueIsConsistent`
is the first two and the types), and each action maps to an action of
`JobService` or a stutter.

*RateLimiterProofs.* `BucketIsSound` is types and `Balance`, the potential argument:
what a window has admitted plus what is in the bucket never exceeds a full bucket
plus the inflow since the window opened. The other three theorems follow, for every
rate, burst and clock resolution. `OneMore`, `RateIsLinear` and the like isolate the
nonlinear arithmetic.

*PoolManagerProofs.* For any set of configurations, those that drop sections included,
any number of reloads, and clients that leave in any of them. `RoutedPoolsExist`: the
pools are those of the boot from then on, and routing only names one that exists, so
the `unwrap` after `get_pool` cannot panic. `PoolIsolation`: who listens where a handler
connects belongs to the handler's pool, or both pools have been through a reload that
had no section for them. `InPlace` is the invariant: slots, processes and handlers are
in the directory of their pool, or in the shared one and their pool is in `dropped`
(`Place`); an abandoned reload leaves them in one or the other. That two such pools do
meet is `PoolsNeverMix` in *Known divergences*. `ReloadsTakeEffect`: from the end of a
reload until another one replaces the table, the routing table and the size of every
pool are those of what it loaded, and this is the server's configuration unless a
later reload has stored another. `Reloading` is the invariant: who is at the pools
holds the manager's mutex, has put its table and the pools it has been to (`AtPools`)
under its own configuration, and the youngest reload's is the server's. A reload that
is abandoned announces nothing; what it leaves is `ReloadsLeaveOne` in *Known
divergences*. `ManagerOwned`: no way out of a reload keeps the mutex.

*DataProofs.* For any packet and any number of markers: the offset never leaves the
packet, hence every byte that is read is inside it, and after the last step there is
one value for each marker: `DecoderIsSafe`. The offset after a text is wrong (*Known
divergences*), but not outside. `ParametersAsMeant`: of what a client has encoded,
every NULL is decoded to NULL, and every value that can be expressed and whose place
the decoder can find to what it means, whatever comes after it. `Encodes` says what
a client sends, for any number of parameters of any type and length that a packet
can hold; that the inputs which claim to be such packets are is the assumption
`ClientAssumption`, which TLC evaluates on those of `data`, texts with a long prefix
among them. The invariant, `Decodes`, is that the decoder stands where the next
value begins as long as it has found the ends of all before (`Right`), and that it
is NULL that it decodes under a NULL's bit wherever it stands. `NullSeen` is the
bitmap, `NumberEncoded` and `TextEncoded` the values: that the bytes behind a prefix
of one, three or four bytes are the text (`PrefixRead`), and that the three prefixes
announce every length below 2^24 (`TextSent`).

`PressureWasThere`, the theorem on `PressureIsReal`, is for any numbers, any
combination of missing and garbled files, and any number of changes between any two
reads. Its invariant, `MemoryRead`: what has been read was so in one of the contents
that there were (`Found`), and the machine's groups and size are those of all of them
(`SameMachine`), so that a fallback taken once would be taken at any instant. If all
usages that there were are one, or all limits, the two instants can be made one.

`FilesStayRight`, the theorem on `FilesAreRight`, is for any request, any names and
any number of changes. `FilesLooked`: a candidate that has been tried is not among the
files that have been there all the time (`TriedInOrder`), and a file on the disk is
what has been read or was written no earlier (`Versions`): a later version and, as the
clock is not set back, a time that is no smaller, hence a second that is not.

`PatternsDecideAsGlobs`, the theorem on `PatternsAreGlobs`, is for texts and patterns
of any length over any symbols, and any mapping to lower case. `Starting` and `Ending`
say position by position what a prefix and a suffix are, `GlobOfOneStar` what a pattern
with one star demands of a text; the rest is a comparison for each place the star may
have. That a text has a first and a last symbol which is no blank, which `Normal`
relies on, is `LeastPosition`, from the well-foundedness of the naturals.

`ParametersInPlace`, the theorem on `SubstitutesInPlace`, is for queries and
parameters of any length over any symbols, not only those within `MaxQuery`. What the
code does one parameter at a time is compared with all of them at once. The invariant
(`QueryInv`) has two parts. As long as the parameters put in before the last have no
"?", the result is the final one up to some symbol of the query and the query as
prepared after it (`Substituted`); the last of these symbols (`LongestPart`) is
followed by a "?", which is then the first one there is (`PlainBefore`). And what has
been put in its place without a "?" in it or before it stays in front of the result
whatever follows, later parameters with a "?" included (`Kept`): a "?" is only ever
replaced behind it, because there is none in it (`WithoutMarker`). `FlattenStep` and
`TogetherSteps` say what flattening a sequence of texts gives one text at a time, each
by taking the least number of texts for which it fails.

`PacketsAreRead`, the theorem on `PacketsReadAsMeant`, is for rows of any number of
columns and for all sizes and numbers below 2^31. The invariant only bounds the rows
(`PacketsBuilt`): what is hard is that the reader, who knows nothing of where a value
ends but what the bytes say, ends where the next one begins. `Digits` takes a number
apart into bytes and `TwoDigits`, `ThreeDigits` and `FourDigits` put it together
again; so `IntRead` has every number of `lenenc_int` read back whatever comes after it,
and `ValueRead` every value, with what comes after it untouched. That a row is read
(`TextRowRead`, `BinaryRowRead`) follows one column at a time: the reader's recursive
function and the one that says what it should have (`Have`) begin alike and go on
alike, hence end alike (`SameEnd`). `BitmapArithmetic` is where the hypothesis on the
width of a binary row is needed: for other widths the proxy's bitmap is a byte short.

*DbProxyProofs.* For any number of clients, connections, statements and commands,
any buffer, and clients that read the extra EOF or do not. `ConnectionsReturn`: its
inductive invariant is `ConnsAreOwned` with the types of `stage` and `owner`.
`StatementsAgree`, the theorem on `TablesAgree`: a statement that is prepared goes
through three phases, asked for (`Unread`: the command is the last one on its way),
prepared (`Told`: exactly one packet on its way has its id, and no command is), and
neither (`Unasked`), in which the two tables are the same but for closes on their way
(`Same`); a client that has lost the thread or left (`Off`) keeps its statements, since
ids are not given twice (`Consistent`). `Early` is needed for `Authenticate`, which
takes whatever packet comes first: it is never a command. `TypesHold` has the types.
`RepliesStayInStep`, the theorem on `InStep`, is for any mixture of MySQL's own clients
and clients that read an EOF after every reply to a prepare (`Lenient`); of the former
it says nothing from the moment that a statement has been prepared for them, and needs
`Unprepared`: such a client, if it expects the reply to a prepare, has asked for it and
not been answered. What follows is false (`PreparesInStep` in *Known divergences*). The
invariant, `Conversation`, is that what is on the way to a client and what its task
has still to write (`Stream`) leads it, packet by packet, from where it is (`Place`)
to where its task believes it will be: `Leads` is a path of such steps and `Meets` its
end, for each stage of the task. `Counted` has the numbers: those on the way count on
from the one the client wants, and the task goes on after the last of them. A packet
that a client reads is the first step of the path, one that the task adds is a new
last one, and one that moves from the task into the socket leaves it as it was, so
the size of the buffer does not matter; nor does the modulus of the numbers, since
nothing is ever compared but a number and its successor.

## Known divergences

What comments, messages or documents say and the code does not do, each as a
formula of the modules that TLC refutes when it takes the place of the
properties of the run named, with the constants changed as given. Only
`RecycleSparesInFlight` has a run of its own.

| formula | in run | what happens |
|---|---|---|
| `RecycleSparesInFlight` | `recycle_kills` | worker.rs:168 "Waits for any active in-flight request to finish": the wait holds the mutex that every decrement needs, so it runs out and the process is killed under the request |
| `UploadsOutliveScript` | `recycle_kills`, `Uploads` = {r1} | handlers.rs:318 "Cleanup temporary uploaded files after PHP worker finishes processing": they are removed when the time is over, while the script may run or wait |
| `DeathIsReported` | `recycle_kills`, `FairSpec` | handlers.rs:639 "Worker alive status" is `process.is_some()`, TRUE for a child that has exited until a request visits its slot |
| `EvictionIsLastResort` | `server` | anti_oom.rs:277 "no individual worker was recycled yet": the heaviest is evicted also in a round that has recycled others |
| `QueueIsBounded` | `jobs` | config/bakpiarun.yaml:117 "Maximum jobs in queue": `submit` does not look at `max_jobs` |
| `FailureIsReported` | `jobs` | lib/BakpiaQueue.php:158 "@throws Exception jika timeout atau job gagal": the client compares with 'Failed' where serde sends an object, and polls until its time is over |
| `ReloadLeavesNoOrphan` | `reload` | worker_pool.rs:107 "Rolling restart complete! {} workers active": `start()` overwrites a child that a handler or the monitor has spawned since the stop |
| `ReloadKeepsServing` | `reload` | worker_pool.rs:68 "rolling restart": every slot is stopped before one is started |
| `NoStaleStart` | `reload` | handlers.rs:730 "Configuration reloaded successfully": who cloned the old configuration still spawns with it |
| `ConfigInForce` | `reload`, `Reloaders` = {hup, http}, `MaxReloads` = 2 | the same message: of two reloads that cross, the server keeps one configuration and the pool the other |
| `NextWorkerExists` | `reload` | config.rs:325 "Worker count must be at least 1" is tested for the global count only; the next request of an empty pool panics |
| `ShutdownStopsAll` | `disconnect` | pool_manager.rs:171 "All pools stopped.": a handler restarts a slot that was passed, and its process survives the server |
| `DrainingIsGuarded` | `disconnect` | worker.rs:23 "True when the worker is being drained": a client that disconnects during the drain leaves it set |
| `ActiveIsExact` | `disconnect` | worker.rs:21 "Number of currently active in-flight requests": a request that is abandoned in flight is counted for ever |
| `PoolsNeverMix` | `pools` | README.md:108 "Pool Isolation": pools whose sections are gone reload with the global configuration, and share its sockets when their size changes |
| `ReloadsLeaveOne` | `pools` | handlers.rs:660 `reload_handler`, whose client leaves: the new routing table, and the server's configuration, are left with pools of the old one |
| `ReloadCreatesPools` | `pools` | handlers.rs:730: a section that was added has no pool after the reload |
| `DefaultPoolServes` | `pools`, `Boot <- MCNoPools`, `Loads <- MCOnlyEmpty` | pool_manager.rs:44 "No pools defined in config! Using default.": there is none, every request is refused |
| `PreparesInStep` | `proxy`, `Lenient` = {} | db_proxy/mod.rs:279 "Send EOF for columns (num_columns = 0)": after a reply to a prepare that announces no columns MySQL's clients read none, and take it for the next reply |
| `TextsAreKept` | `data` | public/test_prepared_statements.php:26 executes with two texts: the position after the first is counted from the text's own start (db_proxy/mod.rs:473) |
| `ValuesAreOpaque` | `data` | test_prepared_statements.php:9 "REAL prepared statements (bukan emulated)": a "?" in a value is taken for the place of the next parameter (db_proxy/mod.rs:508) |
| `BinaryRowReads` | `data` | test_prepared_statements.php:20 fetches a row: NULLs are not marked, the bitmap lacks its reserved bits, numbers are sent as texts |
| `PressureAtOnce` | `data` | anti_oom.rs:22 "memory telemetry": a usage is set against a limit of a later moment, and the two may never have been there together |
| `UnlimitedIsZero` | `data` | anti_oom.rs:29 "0 if unlimited": it is the MemTotal of the machine |
| `TagIsOfBody` | `data` | static_file.rs:114 "Calculate ETag and Last-Modified from file metadata": a file that is replaced after it was read goes out under the ETag of the next one |
| `MetadataIsThere` | `data` | static_file.rs:115 unwraps the metadata of a file that may have been removed since it was read |
| `PhpIsAdded` | `data` | static_file.rs:152 "Try adding .php extension": `with_extension` replaces what follows the last dot of the name |

## Only model-checked

Every safety invariant and action property of the runs is a theorem. What is left to
TLC is liveness (`EveryRequestAnswered`, `QuotaIsEnforced`, `JobsFinish`,
`ReloadEnds`, `ShutdownEnds`, `Answered`): it is about fairness and ENABLED, which are
beyond the prover.

## Not modelled, and simplifications

* Configuration: loading, overrides and `validate` are one step with a
  configuration or nothing as its outcome; the texts and the defaults are left
  out. `validate` is called by reloads only: at boot the call is commented out
  (main.rs:64), and neither asks for the counts of single pools, `burst_size` or
  `requests_per_minute`. So of the assumptions on constants these are the models' own:
  that the server boots with at least one slot per pool (a reload may take it to
  none), that `max_requests` is positive at boot, too, and that `burst_size` and
  `requests_per_minute` are. A burst of 0 would refuse every request, a rate of 0
  makes the code divide by zero; neither is looked at.
* Logging, the TLS and HTTP front ends, admin authentication, security headers,
  packaging, examples: stateless, or nothing reads their state back. The router
  shows as one task per request.
* Static files: MIME types, caching headers other than the ETag, and the refusal
  of paths with `..` are left out; they are a table and a test.
* `mysql_protocol.rs` is not used by the server. Of the proxy, column types and
  names, error texts and the bytes of the greeting are data. Transactions are
  not: each statement borrows a connection anew, so those of one transaction may
  run on different connections (`Acquire` and `Recycle` show it); no document
  promises otherwise, so no property says so.
* `anti_oom.enabled` and the rate limiter's `enabled` are true; the disabled
  variants do nothing. One round of the monitor visits one pool; with several,
  the heaviest candidate is chosen among all of them.
* Arithmetic: counters have no width, except packet numbers and the encodings of
  lengths. f64 is exact in `RateLimiter`: its floors and ceilings are there, its own
  rounding, which after many refills may move an admission by a tick, is not. The
  percentages of the monitor may be rounded either way at the threshold.
* The metrics mutex: `/health` and `/metrics` wait for it while they hold the
  manager's (handlers.rs:456, 549) and keep it to their end; a handler waits for it
  with no mutex in hand before it settles, so it closes no cycle and only delays.
* Quotes around text parameters, and those doubled in them, are left out.
* Message framing, superglobals, script output and HTTP responses are outcomes
  only. The listen backlog and the pids are not exhausted.
* `recycle_count`, `hwm_bytes` and uptimes, which are only reported, are left
  out, and so is the connection cache of `ipc.rs`, which nothing refills.
* Time is a choice, except in `RateLimiter` and for the times of static files.
* A job handler blocks its runtime thread while it runs; the model does not
  count threads. Jobs are in memory only, so nothing is to be said of restarts.
* The page `public/test_prepared_statements.php` asks for real prepared
  statements in line 9 and turns emulation on in line 10, so it does not send
  the commands that `PreparesInStep`, `TextsAreKept`, `ValuesAreOpaque` and
  `BinaryRowReads` are about;
  another client of the proxy would.
