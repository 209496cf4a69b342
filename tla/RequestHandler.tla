--------------------------- MODULE RequestHandler ---------------------------
(***************************************************************************)
(* php_handler of handlers.rs with WorkerPool::get_next_worker: one task   *)
(* per request in progress.  A request is routed, is given a slot by the   *)
(* round robin, has the slot's process started if it is dead, reads its    *)
(* body, is counted in active_requests, is sent to the process over a new  *)
(* connection under a timeout, and settles the slot by how that ended.     *)
(*                                                                         *)
(* A finished request becomes idle, and the next one reuses its name.      *)
(* Requests that never reach a worker (429, 404, static files, no pool)    *)
(* change nothing here.  One pool is modelled.                             *)
(***************************************************************************)
EXTENDS Worker

CONSTANTS
    Uploads,         \* the requests that carry an uploaded file
    Slots            \* the slots of the pool, in the order new() made them

ASSUME HandlerAssumption ==
    /\ Requests \subseteq Tasks
    /\ Uploads \subseteq Requests
    /\ Slots \in Seq(Workers) \ {<<>>}

VARIABLES
    pmLock,          \* the task that holds the pool manager's mutex, or None
    poolLock,        \* the task that holds the pool's mutex, or None
    pool,            \* WorkerPool.workers
    current,         \* current_index, modulo the length of pool
    tries            \* tries[r]: slots the get_next_worker of r has tried

poolVars == <<pmLock, poolLock, pool, current, tries>>

SlotsIn(slots) == {slots[i] : i \in DOMAIN slots}

\* Steps between active_requests += 1 and its decrement.
InFlight == {"connect", "await", "ok", "failed", "timedout"}

HandlerInit ==
    /\ pmLock = None
    /\ poolLock = None
    /\ pool = Slots
    /\ current = 0
    /\ tries = [r \in Requests |-> 0]

-----------------------------------------------------------------------------
\* A request arrives; the workload router names its pool under the manager's
\* lock, and the pool is fetched from the manager.
Route(r) ==
    /\ pc[r] = "idle"
    /\ pmLock = None
    /\ pc' = [pc EXCEPT ![r] = "pick"]
    /\ UNCHANGED <<procVars, slotVars, cur, call, poolVars>>

\* Mutant: the scans of two requests interleave.
EnterPoolUnlocked(r) ==
    /\ pc[r] = "pick"
    /\ poolLock = None
    /\ tries' = [tries EXCEPT ![r] = 0]
    /\ pc' = [pc EXCEPT ![r] = "probe"]
    /\ UNCHANGED <<procVars, slotVars, cur, call, pmLock, poolLock, pool, current>>

\* The pool's lock is taken and get_next_worker begins.
EnterPool(r) ==
    /\ pc[r] = "pick"
    /\ poolLock = None
    /\ poolLock' = r
    /\ tries' = [tries EXCEPT ![r] = 0]
    /\ pc' = [pc EXCEPT ![r] = "probe"]
    /\ UNCHANGED <<procVars, slotVars, cur, call, pmLock, pool, current>>

Candidate == pool[current + 1]

\* Mutant: the index is not reduced modulo the number of slots.
AdvancePastEnd == current' = current + 1

Advance == current' = (current + 1) % Len(pool)

\* get_next_worker returns slot w.
Choose(r, w) ==
    /\ Advance
    /\ Goto(r, w, "ensure")
    /\ poolLock' = None
    /\ tries' = [tries EXCEPT ![r] = 0]
    /\ UNCHANGED <<procVars, slotVars, pmLock, pool>>

\* try_lock succeeds and the slot is not draining.
ProbeHit(r) ==
    /\ pc[r] = "probe"
    /\ tries[r] < Len(pool)
    /\ lock[Candidate] = None
    /\ ~draining[Candidate]
    /\ Choose(r, Candidate)

\* try_lock fails, be it for the instant of another task's short critical
\* section, or the slot is draining.
ProbeMiss(r) ==
    /\ pc[r] = "probe"
    /\ tries[r] < Len(pool)
    /\ \/ lock[Candidate] # None
       \/ draining[Candidate]
       \/ \E t \in Tasks : cur[t] = Candidate
    /\ Advance
    /\ tries' = [tries EXCEPT ![r] = @ + 1]
    /\ UNCHANGED <<procVars, slotVars, taskVars, pmLock, poolLock, pool>>

\* Every slot was busy: the next one is used all the same.
Fallback(r) ==
    /\ pc[r] = "probe"
    /\ tries[r] = Len(pool)
    /\ Choose(r, Candidate)

\* ensure_running under the slot's lock; 500 when the spawn fails.
EnsureBefore(r) ==
    /\ pc[r] = "ensure"
    /\ lock[cur[r]] = None
    /\ EnsureRunning(r, cur[r], Ensure("body", "idle"))
    /\ UNCHANGED <<draining, active, handled, phpmem, poolVars>>

\* The body arrives, and uploads are written to temporary files.
ReadBody(r) ==
    /\ pc[r] = "body"
    /\ Goto(r, cur[r], "mark")
    /\ UNCHANGED <<procVars, slotVars, poolVars>>

\* The body is too large or broken: 400.
RefuseBody(r) ==
    /\ pc[r] = "body"
    /\ Goto(r, cur[r], "idle")
    /\ UNCHANGED <<procVars, slotVars, poolVars>>

\* active_requests += 1.
MarkActive(r) ==
    /\ pc[r] = "mark"
    /\ lock[cur[r]] = None
    /\ active' = [active EXCEPT ![cur[r]] = @ + 1]
    /\ Goto(r, cur[r], "connect")
    /\ UNCHANGED <<procVars, lock, process, draining, handled, phpmem, rss, poolVars>>

\* send_to_php_worker connects to the socket path and writes the request.
Connect(r) ==
    LET p == listener[SocketOf[cur[r]]] IN
    /\ pc[r] = "connect"
    /\ p # None
    /\ Dial(r, p)
    /\ Goto(r, cur[r], "await")
    /\ UNCHANGED <<slotVars, poolVars>>

\* Nobody listens at the socket path.
ConnectRefused(r) ==
    /\ pc[r] = "connect"
    /\ listener[SocketOf[cur[r]]] = None
    /\ Goto(r, cur[r], "failed")
    /\ UNCHANGED <<procVars, slotVars, poolVars>>

\* The response has been read, or the connection ended without one.
Receive(r) ==
    /\ pc[r] = "await"
    /\ reply[r] # "none"
    /\ HangUp(r)
    /\ Goto(r, cur[r], IF reply[r] = "response" THEN "ok" ELSE "failed")
    /\ UNCHANGED <<slotVars, poolVars>>

\* timeout_ms are over: the connection is dropped and the uploads removed.
Timeout(r) ==
    /\ pc[r] = "await"
    /\ reply[r] = "none"
    /\ Abandon(r, IF r \in Uploads THEN Bereft ELSE Gone)
    /\ Goto(r, cur[r], "timedout")
    /\ UNCHANGED <<slotVars, poolVars>>

\* Mutant: a way out forgets the decrement.
UnmarkForgotten(w) == UNCHANGED active

\* Mutant: the counter is reset instead of decremented.
UnmarkAll(w) == active' = [active EXCEPT ![w] = 0]

\* active_requests.saturating_sub(1).
Unmark(w) == active' = [active EXCEPT ![w] = IF @ > 0 THEN @ - 1 ELSE 0]

\* Success: update_stats, then should_restart on the fresh figures.
Settle(r) ==
    LET w == cur[r] IN
    /\ pc[r] = "ok"
    /\ lock[w] = None
    /\ Unmark(w)
    /\ handled' = [handled EXCEPT ![w] = @ + 1]
    /\ \E mem \in Levels, level \in Observed(w, process[w]) :
         /\ phpmem' = [phpmem EXCEPT ![w] = mem]
         /\ rss' = [rss EXCEPT ![w] = level]
         /\ Goto(r, w, IF ShouldRestart(level, mem, handled[w] + 1)
                         THEN "recycle" ELSE "idle")
    /\ UNCHANGED <<procVars, lock, process, draining, poolVars>>

\* The lock was dropped in between: it is taken again to recycle.
RecycleAfter(r) ==
    /\ pc[r] = "recycle"
    /\ lock[cur[r]] = None
    /\ GracefulRecycle(r, cur[r], Recycle("idle", "idle"))
    /\ UNCHANGED <<procVars, process, active, handled, phpmem, rss, poolVars>>

\* I/O error: 500, after the process is replaced if it is dead.
SettleFailed(r) ==
    /\ pc[r] = "failed"
    /\ lock[cur[r]] = None
    /\ Unmark(cur[r])
    /\ EnsureRunning(r, cur[r], Ensure("idle", "idle"))
    /\ UNCHANGED <<draining, handled, phpmem, poolVars>>

\* Timeout: 504, after the slot is recycled.
SettleTimedOut(r) ==
    /\ pc[r] = "timedout"
    /\ lock[cur[r]] = None
    /\ Unmark(cur[r])
    /\ GracefulRecycle(r, cur[r], Recycle("idle", "idle"))
    /\ UNCHANGED <<procVars, process, handled, phpmem, rss, poolVars>>

\* The steps of r that hold no slot's lock when they end a wait for one.
HandlerStep(r) ==
    \/ EnterPool(r)
    \/ ProbeHit(r)
    \/ ProbeMiss(r)
    \/ Fallback(r)
    \/ EnsureBefore(r)
    \/ ReadBody(r)
    \/ RefuseBody(r)
    \/ MarkActive(r)
    \/ Connect(r)
    \/ ConnectRefused(r)
    \/ Receive(r)
    \/ Timeout(r)
    \/ Settle(r)
    \/ RecycleAfter(r)
    \/ SettleFailed(r)
    \/ SettleTimedOut(r)
    \/ WorkerStep(r) /\ UNCHANGED poolVars

PoolTypeOK ==
    /\ pmLock \in Tasks \cup {None}
    /\ poolLock \in Tasks \cup {None}
    /\ pool \in Seq(Workers)
    /\ current \in Nat
    /\ pool # <<>> => current < Len(pool)
    /\ tries \in [Requests -> Nat]
=============================================================================
