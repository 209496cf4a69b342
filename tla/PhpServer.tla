------------------------------ MODULE PhpServer ------------------------------
(***************************************************************************)
(* BakpiaRun while it serves: the request handlers, the Anti-OOM monitor   *)
(* and the PHP processes of the one worker pool they share.  The server    *)
(* has started its workers; nobody reloads it or shuts it down, and the    *)
(* clients stay connected until they are answered.                         *)
(***************************************************************************)
EXTENDS RequestHandler, AntiOom, FiniteSets

ASSUME ServerAssumption ==
    /\ Requests \cup {Monitor} \subseteq Tasks
    /\ Monitor \notin Requests
    /\ None \notin Pids \cup Sockets \cup Requests \cup Tasks \cup Workers
    /\ Gone \notin Requests /\ Bereft \notin Requests
    /\ None \notin {Gone, Bereft}
    /\ IsFiniteSet(Requests)

vars == <<procVars, slotVars, taskVars, poolVars, monitorVars>>

\* start_all has spawned one process per slot; none has bound its socket yet.
Init ==
    /\ \E pid \in [Workers -> Pids] :
         /\ \A v, w \in Workers : pid[v] = pid[w] => v = w
         /\ \E path \in [Pids -> Sockets \cup {None}] :
              /\ \A w \in Workers : path[pid[w]] = SocketOf[w]
              /\ \A p \in Pids : (\A w \in Workers : pid[w] # p) => path[p] = None
              /\ ProcInit(path)
         /\ WorkerInit(pid)
    /\ HandlerInit
    /\ MonitorInit
    /\ pc = [t \in Tasks |-> IF t = Monitor THEN "sleep" ELSE "idle"]

-----------------------------------------------------------------------------
HandlerNext(r) == HandlerStep(r) /\ UNCHANGED monitorVars

MonitorNext ==
    \/ /\ \/ Wake(pmLock)
          \/ Snapshot(poolLock, pool)
          \/ SweepRecycle
          \/ SweepTrack
          \/ EndRound
          \/ Evict
       /\ UNCHANGED poolVars
    \/ WorkerStep(Monitor) /\ UNCHANGED <<poolVars, monitorVars>>

PhpNext == ProcNext /\ UNCHANGED <<slotVars, taskVars, poolVars, monitorVars>>

Next ==
    \/ \E r \in Requests : Route(r) /\ UNCHANGED monitorVars
    \/ \E r \in Requests : HandlerNext(r)
    \/ MonitorNext
    \/ PhpNext

Spec == Init /\ [][Next]_vars

(***************************************************************************)
(* Fairness.  A tokio task that can run is run, and its timers fire, so    *)
(* every handler step and every monitor step is weakly fair; tokio's Mutex *)
(* queues its waiters in FIFO order, so a task that finds the lock it      *)
(* needs free again and again gets it: strong fairness.  Nothing is        *)
(* assumed of PHP, which may hang or die, nor of new requests.  That a     *)
(* client sends its body to the end is assumed (ReadBody, RefuseBody).     *)
(***************************************************************************)
Fairness ==
    /\ \A r \in Requests : SF_vars(HandlerNext(r))
    /\ SF_vars(MonitorNext)

FairSpec == Spec /\ Fairness

-----------------------------------------------------------------------------
ServerTypeOK ==
    /\ ProcTypeOK
    /\ WorkerTypeOK
    /\ PoolTypeOK
    /\ MonitorTypeOK

TypeOK == ServerTypeOK /\ pool # <<>>

\* The requests counted on slot w.
InFlightOn(w) == {r \in Requests : cur[r] = w /\ pc[r] \in InFlight}

\* active_requests is exactly the number of requests between its increment
\* and its decrement, through every error, timeout and restart of the slot.
ActiveIsExact == \A w \in Workers : active[w] = Cardinality(InFlightOn(w))

\* A disconnect leaves active_requests too high but never too low: a drain
\* that finds it 0 has no request in flight.
ActiveCoversInFlight ==
    \A w \in Workers : active[w] >= Cardinality(InFlightOn(w))

\* Every PHP process that runs is the child of some slot: whatever kills,
\* restarts and recycles race, none is left behind unsupervised.
NoOrphans == \A p \in alive : \E w \in Workers : process[w] = p

\* At most one process ever runs per socket path, so two processes never
\* unlink each other's socket.
OneProcessPerSocket ==
    \A p, q \in alive : home[p] = home[q] => p = q

\* A process only holds connections of requests that are counted on its slot
\* and wait for the answer: no slot executes another slot's request, and a
\* kill that empties the slot leaves no request unaccounted for.
HeldByOwnSlot ==
    \A p \in Pids, r \in Requests :
        r \in Held(p) => /\ pc[r] = "await"
                         /\ process[cur[r]] = p
                         /\ reply[r] = "none"

\* draining is only ever TRUE while the slot's mutex is held.
DrainingIsGuarded == \A w \in Workers : draining[w] => lock[w] # None

\* The two marks that a request or a recycle leaves on a slot are exact on every
\* way out: active_requests, and draining.
BookkeepingIsExact == ActiveIsExact /\ DrainingIsGuarded

\* Whatever kills, restarts, recycles and gives up: no process is left behind,
\* none shares a socket, and none has a connection of another slot's request.
ProcessesAreSound == NoOrphans /\ OneProcessPerSocket /\ HeldByOwnSlot

\* "Auto-restart after N requests": a process outlives its quota only by the
\* requests that were already waiting to settle, one per concurrent request.
QuotaOvershoot ==
    \A w \in Workers : handled[w] < MaxRequests + Cardinality(Requests)

\* active_requests cannot change while the slot drains: what the drain waits
\* for needs the lock the drain holds.
DrainFreezesActive ==
    [][\A w \in Workers : draining[w] /\ draining'[w] => active'[w] = active[w]]_vars

\* A slot whose process has served its quota is eventually given a new one
\* or loses the process.
QuotaIsEnforced ==
    \A w \in Workers :
        handled[w] >= MaxRequests ~> (handled[w] < MaxRequests \/ process[w] = None)

-----------------------------------------------------------------------------
(***************************************************************************)
(* What comments of the code promise and the code does not do: TLC refutes *)
(* each (README, Known divergences).                                       *)
(***************************************************************************)

\* worker.rs on graceful_recycle: "Waits for any active in-flight request to
\* finish" before the old process is killed.
RecycleSparesInFlight ==
    [][\A w \in Workers :
         draining[w] /\ process[w] # None /\ process'[w] = None => active[w] = 0]_vars

\* handlers.rs: temporary files are removed "after PHP worker finishes
\* processing".
UploadsOutliveScript == \A p \in Pids : serving[p] # Bereft

\* What health_handler and metrics_handler report about slot w.
ReportedAlive(w) == process[w] # None

\* handlers.rs describes its gauge as "Worker alive status": a dead process
\* is eventually reported dead, or replaced.
DeathIsReported ==
    \A w \in Workers :
        ReportedAlive(w) /\ ~IsRunning(w) ~> (~ReportedAlive(w) \/ IsRunning(w))

-----------------------------------------------------------------------------
(***************************************************************************)
(* The inductive invariants behind the safety properties, which            *)
(* PhpServerProofs and ConnectionProofs prove.                             *)
(***************************************************************************)

\* Steps of a handler that has been given a slot.
SlotLabels == {"ensure", "body", "mark", "recycle"} \cup InFlight

\* Who runs an operation holds the lock of its slot, and nobody else holds
\* a lock between two steps: no lock leaks and none is used unheld.
LocksAreOwned ==
    /\ \A t \in Tasks : pc[t] \in OperationLabels =>
         /\ cur[t] \in Workers
         /\ lock[cur[t]] = t
         /\ call[t] # NoCall
    /\ \A w \in Workers : lock[w] # None =>
         /\ pc[lock[w]] \in OperationLabels
         /\ cur[lock[w]] = w

Control ==
    /\ ServerTypeOK
    /\ LocksAreOwned
    /\ \A t \in Tasks : pc[t] \in SlotLabels => cur[t] \in Workers

\* A spawn never overwrites a live child, children are not shared, and a
\* running child listens where its slot expects it.
Supervision ==
    /\ NoOrphans
    /\ \A t \in Tasks : pc[t] = "spawn" => process[cur[t]] = None
    /\ \A v, w \in Workers : process[v] = process[w] => v = w \/ process[v] = None
    /\ \A w \in Workers : process[w] \in alive => home[process[w]] = SocketOf[w]

\* A draining slot is in the hands of a graceful_recycle that has not yet
\* spawned the replacement.
Draining ==
    \A w \in Workers : draining[w] =>
        /\ lock[w] # None
        /\ pc[lock[w]] \in {"drain", "spawn"}
        /\ call[lock[w]].op = "recycle"

\* No connection is held twice by process p.
HeldOnce(p) ==
    /\ \A i, j \in DOMAIN backlog[p] :
          backlog[p][i] \in Requests /\ backlog[p][i] = backlog[p][j] => i = j
    /\ \A i \in DOMAIN backlog[p] : backlog[p][i] \in Requests => backlog[p][i] # serving[p]

\* A connection leads from a request that waits for its answer to the child of
\* its slot, and a path to the process that was spawned for it.
Connected ==
    /\ HeldByOwnSlot
    /\ \A p \in Pids : HeldOnce(p)
    /\ \A r \in Requests : reply[r] # "none" => pc[r] = "await"
    /\ \A s \in Sockets : listener[s] # None =>
          listener[s] \in booted /\ home[listener[s]] = s

\* Request r can still be charged to slot w without a new process.
CanSettle(r, w) ==
    cur[r] = w /\ (pc[r] = "ok" \/ (pc[r] = "await" /\ reply[r] = "response"))

\* Request r is about to replace the process of slot w.
Replaces(r, w) == cur[r] = w /\ pc[r] \in {"recycle", "drain"}

\* The requests that cannot be charged to slot w before it has a new process.
Spent(w) ==
    {r \in Requests : IF process[w] = None THEN ~CanSettle(r, w) ELSE Replaces(r, w)}

\* Whoever takes a slot past its quota is spent.
Charged == \A w \in Workers : handled[w] < MaxRequests + Cardinality(Spent(w))
=============================================================================
