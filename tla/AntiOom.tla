------------------------------- MODULE AntiOom -------------------------------
(***************************************************************************)
(* The background monitor of anti_oom.rs: every check_interval_ms it reads *)
(* the cgroup's memory pressure, visits every slot of the pool, recycles   *)
(* the slots that should_restart names and, under pressure, the heaviest   *)
(* of the others.                                                          *)
(***************************************************************************)
EXTENDS Worker

CONSTANT Monitor     \* the task spawned by start_monitor

ASSUME MonitorAssumption == Monitor \in Tasks

VARIABLES
    pressure,        \* cgroup_pressure of this round
    todo,            \* the slots of the snapshot that are still to be visited
    heaviest         \* heaviest_candidate: its slot and the rss seen there

monitorVars == <<pressure, todo, heaviest>>

NoCandidate == [slot |-> None, level |-> 0]

MonitorInit ==
    /\ pressure = FALSE
    /\ todo = <<>>
    /\ heaviest = NoCandidate

-----------------------------------------------------------------------------
\* The interval is over and the cgroup files have been read.
Wake(lockOfManager) ==
    /\ pc[Monitor] = "sleep"
    /\ lockOfManager = None
    /\ pressure' \in BOOLEAN
    /\ pc' = [pc EXCEPT ![Monitor] = "snapshot"]
    /\ UNCHANGED <<procVars, slotVars, cur, call, todo, heaviest>>

\* The list of slots is cloned under the pool's lock.
Snapshot(lockOfPool, slots) ==
    /\ pc[Monitor] = "snapshot"
    /\ lockOfPool = None
    /\ todo' = slots
    /\ pc' = [pc EXCEPT ![Monitor] = "sweep"]
    /\ UNCHANGED <<procVars, slotVars, cur, call, pressure, heaviest>>

\* The next slot is over a limit: it is recycled under the same guard.
SweepRecycle ==
    LET w == Head(todo) IN
    /\ pc[Monitor] = "sweep"
    /\ todo # <<>>
    /\ lock[w] = None
    /\ \E level \in Observed(w, process[w]) :
         /\ ShouldRestart(level, phpmem[w], handled[w])
         /\ rss' = [rss EXCEPT ![w] = level]
    /\ GracefulRecycle(Monitor, w, Recycle("sweep", "sweep"))
    /\ todo' = Tail(todo)
    /\ UNCHANGED <<procVars, process, active, handled, phpmem, pressure, heaviest>>

\* The next slot is within its limits: it may become the heaviest candidate.
SweepTrack ==
    LET w == Head(todo) IN
    /\ pc[Monitor] = "sweep"
    /\ todo # <<>>
    /\ lock[w] = None
    /\ \E level \in Observed(w, process[w]) :
         /\ ~ShouldRestart(level, phpmem[w], handled[w])
         /\ rss' = [rss EXCEPT ![w] = level]
         /\ heaviest' = IF pressure /\ level > heaviest.level
                          THEN [slot |-> w, level |-> level] ELSE heaviest
    /\ todo' = Tail(todo)
    /\ UNCHANGED <<procVars, lock, process, draining, active, handled, phpmem,
                   taskVars, pressure>>

\* Every slot was visited and there is nothing to evict.
EndRound ==
    /\ pc[Monitor] = "sweep"
    /\ todo = <<>>
    /\ heaviest = NoCandidate
    /\ pressure' = FALSE
    /\ Goto(Monitor, None, "sleep")
    /\ UNCHANGED <<procVars, slotVars, todo, heaviest>>

\* Under pressure the heaviest candidate is recycled.
Evict ==
    LET w == heaviest.slot IN
    /\ pc[Monitor] = "sweep"
    /\ todo = <<>>
    /\ w # None
    /\ lock[w] = None
    /\ GracefulRecycle(Monitor, w, Recycle("sleep", "sleep"))
    /\ pressure' = FALSE
    /\ heaviest' = NoCandidate
    /\ UNCHANGED <<procVars, process, active, handled, phpmem, rss, todo>>

MonitorTypeOK ==
    /\ pressure \in BOOLEAN
    /\ todo \in Seq(Workers)
    /\ heaviest \in [slot : Workers \cup {None}, level : Nat]
=============================================================================
