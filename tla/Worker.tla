------------------------------- MODULE Worker -------------------------------
(***************************************************************************)
(* A supervised worker slot: struct Worker of worker.rs behind its own     *)
(* tokio Mutex, and the operations that tasks run while they hold it.      *)
(*                                                                         *)
(* A critical section with no await is one step, taken when the lock is    *)
(* free.  One that awaits keeps the lock across the steps "drain", "spawn" *)
(* and "ready" of the task; call[t] says which operation it runs and where *)
(* the task goes when the operation returns.                               *)
(*                                                                         *)
(* Abstracted: memory is a level of the set Levels (0: a zombie), compared *)
(* with Threshold; elapsed time is a choice; the php.ini flags and the     *)
(* environment of the child; the unused connection pool; recycle_count and *)
(* hwm_bytes, which are only reported.  anti_oom.enabled is true.          *)
(***************************************************************************)
EXTENDS PhpProcess

CONSTANTS
    Tasks,           \* the tokio tasks that use workers
    Workers,         \* the worker slots
    SocketOf,        \* SocketOf[w]: socket_path of slot w
    MaxRequests,     \* php.max_requests
    Levels,          \* memory levels a running process can show
    Threshold,       \* the level above which a worker is recycled
    SpawnMayFail     \* whether Command::spawn may return an error

ASSUME WorkerAssumption ==
    /\ SocketOf \in [Workers -> Sockets]
    /\ MaxRequests \in Nat \ {0}
    /\ Levels \subseteq Nat \ {0}
    /\ Threshold \in Nat
    /\ SpawnMayFail \in BOOLEAN

VARIABLES
    lock,            \* lock[w]: the task that holds the mutex of w, or None
    process,         \* process[w]: the child of w, perhaps a zombie, or None
    draining,        \* draining[w]
    active,          \* active[w]: active_requests
    handled,         \* handled[w]: requests_handled
    phpmem,          \* phpmem[w]: the larger of last_memory and last_peak
    rss,             \* rss[w]: rss_bytes
    pc,              \* pc[t]: the step that task t takes next
    cur,             \* cur[t]: the slot that task t works with, or None
    call             \* call[t]: the awaiting operation that t is in

slotVars == <<lock, process, draining, active, handled, phpmem, rss>>
taskVars == <<pc, cur, call>>

\* Where a task can be when it runs no operation, and inside an operation.
HandlerLabels == {"idle", "pick", "probe", "ensure", "body", "mark", "connect",
                  "await", "ok", "failed", "timedout", "recycle", "panicked"}
MonitorLabels == {"sleep", "snapshot", "sweep"}
AdminLabels == {"rest", "manager", "pool", "stopping", "starting", "visiting", "leave"}
OperationLabels == {"drain", "spawn", "ready"}
Labels == HandlerLabels \cup MonitorLabels \cup AdminLabels \cup OperationLabels

\* Where an operation can return to.
ReturnLabels == {"idle", "body", "sleep", "sweep", "starting", "leave"}

NoCall == [op |-> "none", done |-> "none", failed |-> "none"]

Calls == [op : {"ensure", "recycle", "start"}, done : ReturnLabels, failed : ReturnLabels]
           \cup {NoCall}

Ensure(done, failed) == [op |-> "ensure", done |-> done, failed |-> failed]
Recycle(done, failed) == [op |-> "recycle", done |-> done, failed |-> failed]
Start(done, failed) == [op |-> "start", done |-> done, failed |-> failed]

WorkerInit(pid) ==
    /\ lock = [w \in Workers |-> None]
    /\ process = pid
    /\ draining = [w \in Workers |-> FALSE]
    /\ active = [w \in Workers |-> 0]
    /\ handled = [w \in Workers |-> 0]
    /\ phpmem = [w \in Workers |-> 0]
    /\ rss \in [Workers -> Levels \cup {0}]
    /\ \A w \in Workers : rss[w] = 0 <=> pid[w] = None
    /\ cur = [t \in Tasks |-> None]
    /\ call = [t \in Tasks |-> NoCall]

-----------------------------------------------------------------------------
\* Pids that the kernel can hand out: neither running nor waiting to be reaped.
FreshPids == Pids \ (alive \cup {process[w] : w \in Workers})

IsRunning(w) == process[w] \in alive

\* What refresh_proc_memory can leave in rss_bytes when the child is p.
Observed(w, p) ==
    IF p = None THEN {rss[w]} ELSE IF p \in alive THEN Levels ELSE {0}

\* Mutant: the quota is exceeded before it counts as reached.
RestartsLate(level, mem, count) ==
    level > Threshold \/ mem > Threshold \/ count > MaxRequests

\* should_restart() on the figures it reads from the slot.
ShouldRestart(level, mem, count) ==
    level > Threshold \/ mem > Threshold \/ count >= MaxRequests

\* Mutant: the Child is dropped, and tokio lets the process run on.
StopLeaksChild(w) ==
    /\ process' = [process EXCEPT ![w] = None]
    /\ rss' = [rss EXCEPT ![w] = 0]
    /\ UNCHANGED procVars

\* stop(): the child is taken, killed and reaped.
Stop(w) ==
    /\ process' = [process EXCEPT ![w] = None]
    /\ IF process[w] = None
         THEN UNCHANGED <<procVars, rss>>
         ELSE /\ Die(process[w])
              /\ rss' = [rss EXCEPT ![w] = 0]

\* Steps at which a task works with no slot.
Resting == {"idle", "sleep", "sweep", "starting", "leave"}

\* Task t goes to step l, with slot w, and is in no operation.
Goto(t, w, l) ==
    /\ pc' = [pc EXCEPT ![t] = l]
    /\ cur' = [cur EXCEPT ![t] = IF l \in Resting THEN None ELSE w]
    /\ call' = [call EXCEPT ![t] = NoCall]

\* Mutant: the guard is dropped before the operation awaits.
EnterUnlocked(t, w, l, c) ==
    /\ pc' = [pc EXCEPT ![t] = l]
    /\ cur' = [cur EXCEPT ![t] = w]
    /\ call' = [call EXCEPT ![t] = c]
    /\ UNCHANGED lock

\* Task t takes the lock of w and goes on to step l of the operation c.
Enter(t, w, l, c) ==
    /\ lock' = [lock EXCEPT ![w] = t]
    /\ pc' = [pc EXCEPT ![t] = l]
    /\ cur' = [cur EXCEPT ![t] = w]
    /\ call' = [call EXCEPT ![t] = c]

\* Mutant: the guard outlives the operation.
ReturnKeepsLock(t, l) ==
    /\ Goto(t, cur[t], l)
    /\ UNCHANGED lock

\* The operation of t returns and the guard is dropped.
Return(t, l) ==
    /\ lock' = [lock EXCEPT ![cur[t]] = None]
    /\ Goto(t, cur[t], l)

\* ensure_running(), entered by a task that has just got the lock of w:
\* check_health reaps a dead child; only a dead one is replaced.
EnsureRunning(t, w, c) ==
    IF IsRunning(w)
      THEN /\ Goto(t, w, c.done)
           /\ UNCHANGED <<procVars, lock, process, rss>>
      ELSE /\ Enter(t, w, "spawn", c)
           /\ Stop(w)

\* graceful_recycle(), entered by a task that has just got the lock of w.
GracefulRecycle(t, w, c) ==
    IF draining[w]
      THEN /\ Goto(t, w, c.done)
           /\ UNCHANGED <<lock, draining>>
      ELSE /\ Enter(t, w, "drain", c)
           /\ draining' = [draining EXCEPT ![w] = TRUE]

-----------------------------------------------------------------------------
\* The wait ends, because active_requests is 0 or because its 2000 ms are
\* over, and stop() follows.  Without a clock the wait may end at any time.
StopOld(t) ==
    /\ pc[t] = "drain"
    /\ Stop(cur[t])
    /\ pc' = [pc EXCEPT ![t] = "spawn"]
    /\ UNCHANGED <<lock, draining, active, handled, phpmem, cur, call>>

\* start(): the socket file is removed, the child spawned, the counters reset.
Spawn(t) ==
    LET w == cur[t] IN
    /\ pc[t] = "spawn"
    /\ \E p \in FreshPids :
         /\ Launch(p, SocketOf[w])
         /\ process' = [process EXCEPT ![w] = p]
    /\ handled' = [handled EXCEPT ![w] = 0]
    /\ phpmem' = [phpmem EXCEPT ![w] = 0]
    /\ draining' = [draining EXCEPT ![w] = FALSE]
    /\ pc' = [pc EXCEPT ![t] = "ready"]
    /\ UNCHANGED <<lock, active, rss, cur, call>>

\* What draining becomes when the operation of t returns: graceful_recycle
\* clears it whether or not start() succeeded, the others do not.
DrainingAfter(t) == call[t].op # "recycle" /\ draining[cur[t]]

\* start() returns the spawn error.
SpawnFails(t) ==
    LET w == cur[t] IN
    /\ pc[t] = "spawn"
    /\ SpawnMayFail
    /\ listener' = [listener EXCEPT ![SocketOf[w]] = None]
    /\ draining' = [draining EXCEPT ![w] = DrainingAfter(t)]
    /\ Return(t, call[t].failed)
    /\ UNCHANGED <<alive, booted, home, backlog, serving, reply,
                   process, active, handled, phpmem, rss>>

\* The socket file has appeared or worker_startup_delay_ms are over; either
\* way start() refreshes the memory and reports success.
Ready(t) ==
    LET w == cur[t] IN
    /\ pc[t] = "ready"
    /\ \E level \in Observed(w, process[w]) : rss' = [rss EXCEPT ![w] = level]
    /\ draining' = [draining EXCEPT ![w] = DrainingAfter(t)]
    /\ Return(t, call[t].done)
    /\ UNCHANGED <<procVars, process, active, handled, phpmem>>

WorkerStep(t) ==
    \/ StopOld(t)
    \/ Spawn(t)
    \/ SpawnFails(t)
    \/ Ready(t)

WorkerTypeOK ==
    /\ lock \in [Workers -> Tasks \cup {None}]
    /\ process \in [Workers -> Pids \cup {None}]
    /\ draining \in [Workers -> BOOLEAN]
    /\ active \in [Workers -> Nat]
    /\ handled \in [Workers -> Nat]
    /\ phpmem \in [Workers -> Nat]
    /\ rss \in [Workers -> Nat]
    /\ pc \in [Tasks -> Labels]
    /\ cur \in [Tasks -> Workers \cup {None}]
    /\ call \in [Tasks -> Calls]
=============================================================================
