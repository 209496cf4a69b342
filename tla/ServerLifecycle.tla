--------------------------- MODULE ServerLifecycle ---------------------------
(***************************************************************************)
(* The server of PhpServer while it is reloaded, inspected and shut down,  *)
(* and while clients disconnect.                                           *)
(*                                                                         *)
(* A reload (SIGHUP or the reload handler) makes a new configuration the   *)
(* server's, takes the manager's mutex and the pool's, stops every slot,   *)
(* replaces the slots when worker_count has changed, and starts every      *)
(* slot.  It gives each slot's mutex back between two slots, and handlers  *)
(* and the monitor keep the slots and the configuration they have cloned.  *)
(* A shutdown stops every slot in the same way and exits; PHP processes    *)
(* outlive the server.  The health and metrics handlers visit every slot   *)
(* with the same two mutexes held.                                         *)
(*                                                                         *)
(* When a client disconnects, hyper drops the future of its handler at the *)
(* await where it is: guards are released, nothing else is undone.         *)
(*                                                                         *)
(* Abstracted: a configuration is a name and its worker_count; one that    *)
(* does not load or validate changes nothing; the metrics mutex.  An       *)
(* inspection takes it after the manager's and keeps it to its end, a      *)
(* handler waits for it, before it settles, with no mutex in hand: it      *)
(* closes no cycle, and can only delay handlers to an inspection's end.    *)
(***************************************************************************)
EXTENDS PhpServer

CONSTANTS
    Reloaders,       \* the tasks that reload: the SIGHUP loop, reload_handler
    Killers,         \* the tasks that stop the server: ctrl-c, a failed listener
    Inspectors,      \* the tasks of health_handler and metrics_handler
    Cancellable,     \* the requests and handlers whose client may disconnect
    Configs,         \* the configurations that can be loaded
    Initial,         \* the one the server was started with
    WorkerCount,     \* WorkerCount[c]: php.worker_count of the pool under c
    PathOf,          \* PathOf[i]: get_worker_socket_path of the i-th slot
    MaxReloads,      \* bound: how many reloads may begin
    Passes           \* how often an inspection may go through the slots

Admins == Reloaders \cup Killers \cup Inspectors

ASSUME LifecycleAssumption ==
    /\ Admins \subseteq Tasks \ (Requests \cup {Monitor})
    /\ Reloaders \cap Killers = {}
    /\ Reloaders \cap Inspectors = {}
    /\ Killers \cap Inspectors = {}
    /\ Cancellable \subseteq Requests \cup Reloaders \cup Inspectors
    /\ Initial \in Configs /\ None \notin Configs
    /\ WorkerCount \in [Configs -> Nat]
    /\ WorkerCount[Initial] = Len(Slots)
    /\ PathOf \in Seq(Sockets)
    /\ \A c \in Configs : WorkerCount[c] <= Len(PathOf)
    /\ \A i \in DOMAIN Slots : SocketOf[Slots[i]] = PathOf[i]
    /\ \A i, j \in DOMAIN Slots : Slots[i] = Slots[j] => i = j
    /\ MaxReloads \in Nat
    /\ Passes \subseteq Nat \ {0}

VARIABLES
    running,         \* whether the server process exists
    config,          \* AppState.config
    poolConf,        \* WorkerPool.config
    held,            \* held[t]: the configuration that task t has cloned, or None
    born,            \* born[w]: the configuration the child of w was started with
    made,            \* the slots that have been created so far
    at,              \* at[t]: how many slots of the pool t has gone through
    passes,          \* passes[t]: passes that inspection t has still to make
    reloads          \* how many reloads have begun

adminVars == <<running, config, poolConf, held, born, made, at, passes, reloads>>
lifecycleVars == <<vars, adminVars>>

\* start_all has spawned one process per slot of the pool.
LifecycleInit ==
    /\ \E pid \in [Workers -> Pids \cup {None}], path \in [Pids -> Sockets \cup {None}] :
         /\ \A w \in Workers : pid[w] # None <=> w \in SlotsIn(Slots)
         /\ \A v, w \in SlotsIn(Slots) : pid[v] = pid[w] => v = w
         /\ \A w \in SlotsIn(Slots) : path[pid[w]] = SocketOf[w]
         /\ \A p \in Pids : (\A w \in Workers : pid[w] # p) => path[p] = None
         /\ ProcInit(path)
         /\ WorkerInit(pid)
    /\ HandlerInit
    /\ MonitorInit
    /\ pc = [t \in Tasks |-> CASE t = Monitor -> "sleep"
                               [] t \in Admins -> "rest"
                               [] OTHER -> "idle"]
    /\ running = TRUE
    /\ config = Initial
    /\ poolConf = Initial
    /\ held = [t \in Tasks |-> None]
    /\ born = [w \in Workers |-> IF w \in SlotsIn(Slots) THEN Initial ELSE None]
    /\ made = SlotsIn(Slots)
    /\ at = [t \in Tasks |-> 0]
    /\ passes = [t \in Tasks |-> 0]
    /\ reloads = 0

-----------------------------------------------------------------------------
\* A handler clones the pool's configuration with the slot it is given, the
\* monitor with its snapshot.
Clones(t) ==
    \/ pc[t] = "probe" /\ pc'[t] = "ensure"
    \/ pc[t] = "snapshot"

\* Whoever spawns uses the configuration it has cloned.
Follow(t) ==
    /\ held' = [held EXCEPT ![t] =
                  IF Clones(t) THEN poolConf
                    ELSE IF pc'[t] \in {"idle", "sleep", "rest", "panicked"} THEN None
                    ELSE @]
    /\ born' = IF pc[t] = "spawn" /\ pc'[t] = "ready"
                 THEN [born EXCEPT ![cur[t]] = held[t]] ELSE born
    /\ UNCHANGED <<running, config, poolConf, made, at, passes, reloads>>

\* get_next_worker reduces its index modulo the length of an empty vector: the
\* task panics, its guard is dropped and the connection is closed: the request
\* has no answer, and its name is not used again.
NextWorkerPanics(r) ==
    /\ pc[r] = "probe"
    /\ pool = <<>>
    /\ poolLock' = None
    /\ Goto(r, None, "panicked")
    /\ UNCHANGED <<procVars, slotVars, pmLock, pool, current, tries, monitorVars>>

RequestNext(r) ==
    /\ \/ Route(r) /\ UNCHANGED monitorVars
       \/ pc[r] = "probe" /\ pool = <<>> /\ NextWorkerPanics(r)
       \/ (pc[r] = "probe" => pool # <<>>) /\ HandlerNext(r)
    /\ Follow(r)

WatcherNext == MonitorNext /\ Follow(Monitor)

-----------------------------------------------------------------------------
\* Mutant: the pools are reloaded without the manager's mutex.
LockManagerForgotten(t) ==
    /\ pc[t] = "manager"
    /\ pc' = [pc EXCEPT ![t] = "pool"]
    /\ UNCHANGED <<procVars, slotVars, cur, call, poolVars, monitorVars, adminVars>>

\* An admin task gets the manager's mutex.
LockManager(t) ==
    /\ pc[t] = "manager"
    /\ pmLock = None
    /\ pmLock' = t
    /\ pc' = [pc EXCEPT ![t] = "pool"]
    /\ UNCHANGED <<procVars, slotVars, cur, call, poolLock, pool, current, tries,
                   monitorVars, adminVars>>

\* It gets the pool's mutex; a reload gives the pool its configuration.
LockPool(t) ==
    /\ pc[t] = "pool"
    /\ poolLock = None
    /\ poolLock' = t
    /\ poolConf' = IF t \in Reloaders THEN held[t] ELSE poolConf
    /\ at' = [at EXCEPT ![t] = 0]
    /\ pc' = [pc EXCEPT ![t] = IF t \in Inspectors THEN "visiting" ELSE "stopping"]
    /\ UNCHANGED <<procVars, slotVars, cur, call, pmLock, pool, current, tries,
                   monitorVars, running, config, held, born, made, passes, reloads>>

\* The slot that t goes through next.
NextSlot(t) == pool[at[t] + 1]

\* Mutant: the iterator is not advanced.
VisitNextInPlace(t, step) ==
    /\ pc[t] = step
    /\ at[t] < Len(pool)
    /\ lock[NextSlot(t)] = None
    /\ UNCHANGED at

\* Task t has the next slot's mutex for a section without an await.
VisitNext(t, step) ==
    /\ pc[t] = step
    /\ at[t] < Len(pool)
    /\ lock[NextSlot(t)] = None
    /\ at' = [at EXCEPT ![t] = @ + 1]

\* Mutant: the slot before the last one is taken for the last one.
PassEndsEarly(t) == at[t] + 1 >= Len(pool)

PassEnds(t) == at[t] = Len(pool)

\* Both mutexes are released and the task is done.
Leave(t) ==
    /\ pmLock' = None
    /\ poolLock' = None
    /\ pc' = [pc EXCEPT ![t] = "rest"]
    /\ held' = [held EXCEPT ![t] = None]
    /\ at' = [at EXCEPT ![t] = 0]
    /\ passes' = [passes EXCEPT ![t] = 0]
    /\ UNCHANGED <<procVars, slotVars, cur, call, pool, current, tries, monitorVars,
                   running, config, poolConf, born, made, reloads>>

\* stop_all, of a reload or a shutdown: one slot is stopped.
StopNext(t) ==
    /\ VisitNext(t, "stopping")
    /\ Stop(NextSlot(t))
    /\ UNCHANGED <<lock, draining, active, handled, phpmem, taskVars, poolVars,
                   monitorVars, running, config, poolConf, held, born, made,
                   passes, reloads>>

-----------------------------------------------------------------------------
\* A valid configuration is loaded and becomes the server's.
BeginReload(t) ==
    /\ pc[t] = "rest"
    /\ reloads < MaxReloads
    /\ reloads' = reloads + 1
    /\ \E c \in Configs :
         /\ config' = c
         /\ held' = [held EXCEPT ![t] = c]
    /\ pc' = [pc EXCEPT ![t] = "manager"]
    /\ UNCHANGED <<procVars, slotVars, cur, call, poolVars, monitorVars,
                   running, poolConf, born, made, at, passes>>

\* The slots that WorkerPool::reload creates for n workers.
NewSlots(n) ==
    {slots \in [1..n -> Workers \ made] :
        /\ \A i \in 1..n : SocketOf[slots[i]] = PathOf[i]
        /\ \A i, j \in 1..n : slots[i] = slots[j] => i = j}

\* Every slot has been stopped: the vector is filled anew if its length is to
\* change.  current_index stays, so its remainder can be any.
Resize(t) ==
    LET n == WorkerCount[poolConf] IN
    /\ pc[t] = "stopping"
    /\ PassEnds(t)
    /\ IF n = Len(pool)
         THEN UNCHANGED <<pool, current, made>>
         ELSE \E slots \in NewSlots(n) :
                /\ pool' = slots
                /\ current' \in IF n = 0 THEN {0} ELSE 0..(n - 1)
                /\ made' = made \cup SlotsIn(slots)
    /\ at' = [at EXCEPT ![t] = 0]
    /\ pc' = [pc EXCEPT ![t] = "starting"]
    /\ UNCHANGED <<procVars, slotVars, cur, call, pmLock, poolLock, tries, monitorVars,
                   running, config, poolConf, held, born, passes, reloads>>

\* start() of the next slot, whatever has become of it since it was stopped;
\* an error ends the reload.
StartNext(t) ==
    /\ VisitNext(t, "starting")
    /\ Enter(t, NextSlot(t), "spawn", Start("starting", "leave"))
    /\ UNCHANGED <<procVars, process, draining, active, handled, phpmem, rss, poolVars,
                   monitorVars, running, config, poolConf, held, born, made,
                   passes, reloads>>

FinishReload(t) ==
    /\ \/ pc[t] = "leave"
       \/ pc[t] = "starting" /\ PassEnds(t)
    /\ Leave(t)

ReloadNext(t) ==
    \/ LockManager(t)
    \/ LockPool(t)
    \/ StopNext(t)
    \/ Resize(t)
    \/ StartNext(t)
    \/ FinishReload(t)
    \/ WorkerStep(t) /\ UNCHANGED <<poolVars, monitorVars>> /\ Follow(t)

-----------------------------------------------------------------------------
\* ctrl-c arrives, or a listener fails.
BeginShutdown(t) ==
    /\ pc[t] = "rest"
    /\ pc' = [pc EXCEPT ![t] = "manager"]
    /\ UNCHANGED <<procVars, slotVars, cur, call, poolVars, monitorVars, adminVars>>

\* Every slot has been stopped: exit().
Exit(t) ==
    /\ pc[t] = "stopping"
    /\ PassEnds(t)
    /\ running' = FALSE
    /\ UNCHANGED <<vars, config, poolConf, held, born, made, at, passes, reloads>>

ShutdownNext(t) == LockManager(t) \/ LockPool(t) \/ StopNext(t) \/ Exit(t)

-----------------------------------------------------------------------------
\* /health goes through the slots once, /metrics several times.
BeginInspection(t) ==
    /\ pc[t] = "rest"
    /\ passes' \in {[passes EXCEPT ![t] = n] : n \in Passes}
    /\ pc' = [pc EXCEPT ![t] = "manager"]
    /\ UNCHANGED <<procVars, slotVars, cur, call, poolVars, monitorVars,
                   running, config, poolConf, held, born, made, at, reloads>>

\* A slot is read; one of the passes also refreshes its memory figures.
Visit(t) ==
    /\ VisitNext(t, "visiting")
    /\ LET w == NextSlot(t) IN
       \E level \in Observed(w, process[w]) \cup {rss[w]} :
         rss' = [rss EXCEPT ![w] = level]
    /\ UNCHANGED <<procVars, lock, process, draining, active, handled, phpmem, taskVars,
                   poolVars, monitorVars, running, config, poolConf, held, born, made,
                   passes, reloads>>

\* The pool's mutex is released between two passes, the manager's is not.
NextPass(t) ==
    /\ pc[t] = "visiting"
    /\ PassEnds(t)
    /\ passes[t] > 1
    /\ passes' = [passes EXCEPT ![t] = @ - 1]
    /\ poolLock' = None
    /\ pc' = [pc EXCEPT ![t] = "pool"]
    /\ UNCHANGED <<procVars, slotVars, cur, call, pmLock, pool, current, tries,
                   monitorVars, running, config, poolConf, held, born, made, at, reloads>>

FinishInspection(t) ==
    /\ pc[t] = "visiting"
    /\ PassEnds(t)
    /\ passes[t] = 1
    /\ Leave(t)

InspectNext(t) ==
    LockManager(t) \/ LockPool(t) \/ Visit(t) \/ NextPass(t) \/ FinishInspection(t)

-----------------------------------------------------------------------------
\* Mutant: the guards of a dropped future stay locked.
ReleasedLeak(t, holder) == holder

\* The holder of a mutex once the future of t is dropped.
Released(t, holder) == IF holder = t THEN None ELSE holder

\* What PHP sees of a request whose handler is dropped.
Forsake(r) ==
    IF pc[r] # "await" THEN UNCHANGED procVars
    ELSE IF reply[r] = "none" THEN Abandon(r, Gone) ELSE HangUp(r)

\* The client of t disconnects.  The handler does not unmark the slot, reset
\* draining or remove its temporary files.
Cancel(t) ==
    /\ pc[t] \notin {"idle", "rest", "probe", "panicked"}
    /\ lock' = [w \in Workers |-> Released(t, lock[w])]
    /\ pmLock' = Released(t, pmLock)
    /\ poolLock' = Released(t, poolLock)
    /\ Goto(t, None, IF t \in Requests THEN "idle" ELSE "rest")
    /\ IF t \in Requests THEN Forsake(t) ELSE UNCHANGED procVars
    /\ held' = [held EXCEPT ![t] = None]
    /\ at' = [at EXCEPT ![t] = 0]
    /\ passes' = [passes EXCEPT ![t] = 0]
    /\ UNCHANGED <<process, draining, active, handled, phpmem, rss, pool, current, tries,
                   monitorVars, running, config, poolConf, born, made, reloads>>

-----------------------------------------------------------------------------
AdminNext ==
    \/ \E t \in Reloaders : BeginReload(t) \/ ReloadNext(t)
    \/ \E t \in Killers : BeginShutdown(t) \/ ShutdownNext(t)
    \/ \E t \in Inspectors : BeginInspection(t) \/ InspectNext(t)

ServerNext ==
    \/ \E r \in Requests : RequestNext(r)
    \/ WatcherNext
    \/ AdminNext
    \/ \E t \in Cancellable : Cancel(t)

LifecycleNext ==
    \/ running /\ ServerNext
    \/ PhpNext /\ UNCHANGED adminVars

LifecycleSpec == LifecycleInit /\ [][LifecycleNext]_lifecycleVars

(***************************************************************************)
(* Fairness as in PhpServer: tokio runs what can run, and its mutexes are  *)
(* FIFO.  Nothing is assumed of clients, of signals, nor of PHP.           *)
(***************************************************************************)
LifecycleFairness ==
    /\ \A r \in Requests : SF_lifecycleVars(running /\ pc[r] # "idle" /\ RequestNext(r))
    /\ SF_lifecycleVars(running /\ WatcherNext)
    /\ \A t \in Reloaders : SF_lifecycleVars(running /\ ReloadNext(t))
    /\ \A t \in Inspectors : SF_lifecycleVars(running /\ InspectNext(t))
    /\ \A t \in Killers : SF_lifecycleVars(running /\ ShutdownNext(t))

LifecycleFairSpec == LifecycleSpec /\ LifecycleFairness

-----------------------------------------------------------------------------
LifecycleTypeOK ==
    /\ ServerTypeOK
    /\ running \in BOOLEAN
    /\ config \in Configs
    /\ poolConf \in Configs
    /\ held \in [Tasks -> Configs \cup {None}]
    /\ born \in [Workers -> Configs \cup {None}]
    /\ made \in SUBSET Workers
    /\ at \in [Tasks -> Nat]
    /\ passes \in [Tasks -> Nat]
    /\ reloads \in Nat

\* Who works under the manager's mutex, and who under the pool's.
UnderManager(t) ==
    t \in Admins /\ pc[t] \notin {"rest", "manager"}

UnderPool(t) ==
    \/ t \in Requests /\ pc[t] = "probe"
    \/ t \in Admins /\ pc[t] \notin {"rest", "manager", "pool"}

\* Each of the two mutexes is held by exactly the task that works under it,
\* however reloads, shutdowns, inspections and disconnects interleave.
PoolLocksAreOwned ==
    /\ \A t \in Tasks : UnderManager(t) <=> pmLock = t
    /\ \A t \in Tasks : UnderPool(t) <=> poolLock = t

\* No mutex leaks or is used by a task that does not hold it: those of the
\* slots, the pool and the manager.
MutexesAreOwned == LifecycleTypeOK /\ LocksAreOwned /\ PoolLocksAreOwned

\* /metrics shows the same slots in each of its passes, though it gives the
\* pool's mutex back between them: the manager's keeps reloads away.
InspectionIsStable ==
    [][\A t \in Inspectors :
         UnderManager(t) => pool' = pool /\ poolConf' = poolConf]_lifecycleVars

\* The processes that run and that no slot of the pool has as its child.
Unsupervised == {p \in alive : \A w \in SlotsIn(pool) : process[w] # p}

\* start() drops the Child that a handler or the monitor has put into a slot
\* after the reload stopped it, and a replaced slot can be restarted by who
\* still has it.  That costs at most one process per slot and reload.
OrphansPerReload ==
    Cardinality(Unsupervised) <= reloads * Cardinality(made)

\* The slot has a child or is in the hands of a task that may give it one.
Attended(w) == process[w] # None \/ lock[w] # None

\* When a reload has gone through the pool, every slot is attended: unless a
\* spawn has failed, or a client has left a handler with a slot it has emptied.
ReloadStartsEverySlot ==
    ~SpawnMayFail /\ Cancellable \cap Requests = {} =>
      \A t \in Reloaders : pc[t] = "starting" /\ PassEnds(t) =>
        \A w \in SlotsIn(pool) : Attended(w)

\* Whether or not PHP answers, every routed request is answered, even if the
\* pool is reloaded while it waits; only under a configuration without workers
\* may its handler panic instead, which is no answer.
EveryRequestAnswered ==
    \A r \in Requests :
        pc[r] = "pick" ~> \/ pc[r] = "idle"
                          \/ pc[r] = "panicked" /\ WorkerCount[poolConf] = 0

\* A reload that has begun comes to its end, whatever the handlers, the
\* monitor, the inspections and PHP do meanwhile.
ReloadEnds ==
    \A t \in Reloaders : pc[t] = "manager" /\ running ~> pc[t] = "rest" \/ ~running

\* ctrl-c is never blocked for good by reloads, inspections and the monitor.
ShutdownEnds == \A t \in Killers : pc[t] = "manager" ~> ~running

-----------------------------------------------------------------------------
(***************************************************************************)
(* What messages and comments of the code promise and the code does not do:*)
(* TLC refutes each (README, Known divergences).                           *)
(***************************************************************************)

\* worker_pool.rs: "Rolling restart complete! {} workers active".  That many
\* run, and no process of the time before or during the reload.
ReloadLeavesNoOrphan ==
    reloads > 0 /\ (\A t \in Reloaders : pc[t] = "rest") => Unsupervised = {}

\* worker_pool.rs: "rolling restart", "start worker baru satu-satu (rolling)".
\* A reload does not stop the last process that serves.
ReloadKeepsServing ==
    [][\A t \in Reloaders :
         /\ pc[t] = "stopping" /\ at'[t] > at[t]
         /\ \E w \in SlotsIn(pool) : IsRunning(w)
         => \E w \in SlotsIn(pool) : IsRunning(w)']_lifecycleVars

\* handlers.rs: "Configuration reloaded successfully".  When no reload is
\* under way, the pool works with the server's configuration.
ConfigInForce ==
    (\A t \in Reloaders : pc[t] = "rest") => poolConf = config

\* The same message: no process is started with an older configuration after
\* the reload has ended.
NoStaleStart ==
    [][\A w \in SlotsIn(pool) :
         born'[w] # born[w] /\ (\A t \in Reloaders : pc[t] = "rest")
         => born'[w] = poolConf]_lifecycleVars

\* config.rs: "Worker count must be at least 1".  get_next_worker is never
\* called on an empty pool.
NextWorkerExists == \A r \in Requests : pc[r] = "probe" => pool # <<>>

\* pool_manager.rs: "All pools stopped."
ShutdownStopsAll == ~running => alive = {}

-----------------------------------------------------------------------------
(***************************************************************************)
(* The inductive invariants behind the safety properties, which            *)
(* LifecycleProofs proves.                                                 *)
(***************************************************************************)

\* A reload that waits or works has the configuration it has loaded.
LifecycleControl ==
    /\ LifecycleTypeOK
    /\ Control
    /\ PoolLocksAreOwned
    /\ \A t \in Reloaders : pc[t] \notin {"idle", "sleep", "rest", "panicked"} => held[t] # None

\* The steps of a reload from the first start to the last.
Starting(t) == t \in Reloaders /\ pc[t] \in {"starting"} \cup OperationLabels

\* The slots that a reload has gone through are attended, and a start that
\* waits for its process has one.
PassedAttended ==
    /\ \A t \in Tasks : pc[t] = "ready" => process[cur[t]] # None
    /\ \A t \in Reloaders : Starting(t) =>
          \A i \in DOMAIN pool : i <= at[t] => Attended(pool[i])

\* Tasks work with slots that have been created, only those have a child, and
\* only a reload spawns into a slot that may have one.
SlotsAreMade ==
    /\ SlotsIn(pool) \cup SlotsIn(todo) \subseteq made
    /\ \A i, j \in DOMAIN pool : pool[i] = pool[j] => i = j
    /\ heaviest.slot \in made \cup {None}
    /\ \A t \in Tasks : cur[t] \in made \cup {None}
    /\ \A w \in Workers : process[w] # None => w \in made
    /\ \A t \in Tasks : pc[t] = "spawn" => t \in Reloaders \/ process[cur[t]] = None
    /\ \A t \in Reloaders : pc[t] # "drain" /\ (Starting(t) => at[t] <= Len(pool))

\* The processes whose Child has been dropped, and the slots left to their users.
Dropped == {p \in alive : \A w \in Workers : process[w] # p}
Outside == made \ SlotsIn(pool)

\* The reloads that have not resized their pool yet, and the children that the
\* reload which has may still drop.
Pending == {t \in Reloaders : pc[t] \in {"manager", "pool", "stopping"}}
ToStart ==
    IF Starting(poolLock)
      THEN Len(pool) - at[poolLock] + (IF pc[poolLock] = "spawn" THEN 1 ELSE 0)
      ELSE 0

\* Each reload that has resized the pool pays for one process per slot made:
\* those that were dropped or may be, and those of the slots it has replaced.
OrphansAreCharged ==
    /\ IsFiniteSet(Dropped) /\ IsFiniteSet(made) /\ IsFiniteSet(Pending)
    /\ Cardinality(Pending) <= reloads
    /\ Cardinality(Dropped) + ToStart + Cardinality(Outside)
          <= (reloads - Cardinality(Pending)) * Cardinality(made)
=============================================================================
