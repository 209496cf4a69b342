---------------------------- MODULE LifecycleProofs ----------------------------
(***************************************************************************)
(* Proofs about ServerLifecycle, for every number of slots, requests, pids,*)
(* configurations, reloads, shutdowns and inspections.                     *)
(***************************************************************************)
EXTENDS ServerLifecycle, PhpServerProofs

USE DEF procVars, slotVars, taskVars, poolVars, monitorVars, adminVars

\* What is assumed of the constants of the lifecycle.
LEMMA LifecycleAssumed ==
    /\ LifecycleAssumption
    /\ Admins \subseteq Tasks \ (Requests \cup {Monitor})
    /\ Requests \subseteq Tasks
    /\ Monitor \in Tasks \ Requests
    /\ Cancellable \subseteq Requests \cup Reloaders \cup Inspectors
    /\ Reloaders \cap Killers = {}
    /\ Reloaders \cap Inspectors = {}
    /\ Killers \cap Inspectors = {}
    /\ None \notin Tasks
    /\ None \notin Configs
    /\ \A c \in Configs : WorkerCount[c] \in Nat
  BY LifecycleAssumption, Assumptions
     DEF LifecycleAssumption, HandlerAssumption, ServerAssumption

-----------------------------------------------------------------------------
(* Control is inductive for the lifecycle as well. *)

\* The initial state is typed and nobody holds a lock.
LEMMA LifecycleControlInit == LifecycleInit => Control
  <1> SUFFICES ASSUME LifecycleInit PROVE Control
    OBVIOUS
  <1> USE Assumptions DEF WorkerAssumption, HandlerAssumption, MonitorAssumption,
          ServerAssumption
  <1>0. PICK pid \in [Workers -> Pids \cup {None}], path \in [Pids -> Sockets \cup {None}] :
          ProcInit(path) /\ WorkerInit(pid)
    BY DEF LifecycleInit
  <1>1. ProcTypeOK
    BY <1>0 DEF ProcInit, ProcTypeOK, Connections, Replies
  <1>2. WorkerTypeOK
    <2>1. pc \in [Tasks -> Labels]
      BY DEF LifecycleInit, Labels, HandlerLabels, MonitorLabels, AdminLabels
    <2>2. call \in [Tasks -> Calls]
      BY <1>0 DEF WorkerInit, Calls, NoCall
    <2>3. rss \in [Workers -> Nat]
      <3>1. Levels \cup {0} \subseteq Nat
        OBVIOUS
      <3>2. rss \in [Workers -> Levels \cup {0}]
        BY <1>0 DEF WorkerInit
      <3> QED
        BY <3>1, <3>2
    <2> QED
      BY <1>0, <2>1, <2>2, <2>3 DEF WorkerInit, WorkerTypeOK
  <1>3. PoolTypeOK
    <2>1. Slots \in Seq(Workers) /\ Slots # <<>>
      OBVIOUS
    <2>2. 0 < Len(Slots)
      BY <2>1
    <2> QED
      BY <2>1, <2>2 DEF LifecycleInit, HandlerInit, PoolTypeOK
  <1>4. MonitorTypeOK
    <2>1. <<>> \in Seq(Workers)
      OBVIOUS
    <2>2. heaviest \in [slot : Workers \cup {None}, level : Nat]
      BY DEF LifecycleInit, MonitorInit, NoCandidate
    <2> QED
      BY <2>1, <2>2 DEF LifecycleInit, MonitorInit, MonitorTypeOK
  <1>5. \A t \in Tasks : pc[t] \in {"sleep", "rest", "idle"}
    BY DEF LifecycleInit
  <1>6. LocksAreOwned
    BY <1>0, <1>5 DEF WorkerInit, LocksAreOwned, OperationLabels
  <1>7. \A t \in Tasks : pc[t] \notin SlotLabels
    BY <1>5 DEF SlotLabels, InFlight
  <1> QED
    BY <1>1, <1>2, <1>3, <1>4, <1>6, <1>7 DEF Control, ServerTypeOK

\* A task moves between steps outside any operation and keeps its slot.
LEMMA MoveControl ==
    ASSUME Control, NEW t \in Tasks, pc[t] \notin OperationLabels,
           NEW l \in AdminLabels, pc' = [pc EXCEPT ![t] = l],
           UNCHANGED <<lock, cur, call>>
    PROVE  /\ LocksAreOwned'
           /\ \A u \in Tasks : pc'[u] \in SlotLabels => cur'[u] \in Workers
           /\ pc' \in [Tasks -> Labels]
  <1> USE TypeFacts, AdminLabelFacts
  <1>1. LocksAreOwned'
    BY DEF Control, LocksAreOwned
  <1> QED
    BY <1>1 DEF Control

\* Between its operations, a task holds no slot's lock.
LEMMA HoldsNoSlot ==
    ASSUME Control, NEW t \in Tasks, pc[t] \notin OperationLabels
    PROVE  \A w \in Workers : lock[w] # t
  BY LifecycleAssumed DEF Control, LocksAreOwned

\* A step of an admin task that changes only where it is and the pool's part.
LEMMA AdminMoveControl ==
    ASSUME Control, NEW t \in Tasks, pc[t] \notin OperationLabels,
           NEW l \in AdminLabels, pc' = [pc EXCEPT ![t] = l],
           UNCHANGED <<procVars, slotVars, cur, call, monitorVars>>, PoolTypeOK'
    PROVE  Control'
  <1>1. ProcTypeOK' /\ MonitorTypeOK'
    BY TypeFacts DEF ProcTypeOK, MonitorTypeOK
  <1>2. WorkerTypeOK'
    BY MoveControl, TypeFacts DEF WorkerTypeOK
  <1> QED
    BY <1>1, <1>2, MoveControl DEF Control, ServerTypeOK

\* The step of an admin task to the next slot stays inside the pool.
LEMMA NextSlotType ==
    ASSUME LifecycleTypeOK, NEW t \in Tasks, at[t] < Len(pool)
    PROVE  /\ NextSlot(t) \in Workers
           /\ at[t] + 1 \in DOMAIN pool
  <1>1. pool \in Seq(Workers) /\ at[t] \in Nat
    BY DEF LifecycleTypeOK, ServerTypeOK, PoolTypeOK
  <1> QED
    BY <1>1 DEF NextSlot

\* The slots that a reload creates make a pool.
LEMMA NewSlotsType ==
    ASSUME NEW n \in Nat, NEW slots \in NewSlots(n)
    PROVE  /\ slots \in Seq(Workers)
           /\ Len(slots) = n
           /\ slots = <<>> <=> n = 0
  <1>1. slots \in [1..n -> Workers]
    BY DEF NewSlots
  <1> QED
    BY <1>1

\* stop() of the next slot, in a reload or a shutdown.
LEMMA StopNextControl ==
    ASSUME LifecycleTypeOK, Control, NEW t \in Admins, StopNext(t)
    PROVE  Control'
  <1>1. t \in Tasks /\ pc[t] = "stopping" /\ at[t] < Len(pool)
    BY LifecycleAssumed DEF StopNext, VisitNext
  <1>2. NextSlot(t) \in Workers
    BY <1>1, NextSlotType
  <1>3. ProcTypeOK' /\ rss' \in [Workers -> Nat] /\ process' \in [Workers -> Pids \cup {None}]
    BY <1>2, StopRss DEF StopNext
  <1>4. WorkerTypeOK' /\ PoolTypeOK' /\ MonitorTypeOK'
    BY <1>3, TypeFacts DEF StopNext, WorkerTypeOK, PoolTypeOK, MonitorTypeOK
  <1>5. LocksAreOwned' /\ \A u \in Tasks : pc'[u] \in SlotLabels => cur'[u] \in Workers
    BY DEF StopNext, Control, LocksAreOwned
  <1> QED
    BY <1>3, <1>4, <1>5 DEF Control, ServerTypeOK

\* start() of the next slot is entered under its lock.
LEMMA StartNextControl ==
    ASSUME LifecycleTypeOK, Control, NEW t \in Admins, StartNext(t)
    PROVE  Control'
  <1>1. t \in Tasks /\ pc[t] = "starting" /\ at[t] < Len(pool) /\ lock[NextSlot(t)] = None
    BY LifecycleAssumed DEF StartNext, VisitNext
  <1>2. NextSlot(t) \in Workers
    BY <1>1, NextSlotType
  <1>3. Start("starting", "leave") \in Calls \ {NoCall}
    BY DEF Start, Calls, NoCall, ReturnLabels
  <1>4. /\ LocksAreOwned'
        /\ \A u \in Tasks : pc'[u] \in SlotLabels => cur'[u] \in Workers
        /\ pc' \in [Tasks -> Labels]
        /\ cur' \in [Tasks -> Workers \cup {None}]
        /\ call' \in [Tasks -> Calls]
        /\ lock' \in [Workers -> Tasks \cup {None}]
    BY <1>1, <1>2, <1>3, EnterControl, AdminLabelFacts DEF StartNext
  <1>5. ProcTypeOK' /\ PoolTypeOK' /\ MonitorTypeOK'
    BY TypeFacts DEF StartNext, ProcTypeOK, PoolTypeOK, MonitorTypeOK
  <1>6. WorkerTypeOK'
    BY <1>4, TypeFacts DEF StartNext, WorkerTypeOK
  <1> QED
    BY <1>4, <1>5, <1>6 DEF Control, ServerTypeOK

\* A slot is read by an inspection.
LEMMA VisitControl ==
    ASSUME LifecycleTypeOK, Control, NEW t \in Admins, Visit(t)
    PROVE  Control'
  <1>1. t \in Tasks /\ at[t] < Len(pool)
    BY LifecycleAssumed DEF Visit, VisitNext
  <1>2. NextSlot(t) \in Workers
    BY <1>1, NextSlotType
  <1>3. PICK level \in Observed(NextSlot(t), process[NextSlot(t)]) \cup {rss[NextSlot(t)]} :
          rss' = [rss EXCEPT ![NextSlot(t)] = level]
    BY DEF Visit
  <1>4. level \in Nat
    BY <1>2, <1>3, ObservedIsNat, TypeFacts
  <1>5. ProcTypeOK' /\ PoolTypeOK' /\ MonitorTypeOK'
    BY TypeFacts DEF Visit, ProcTypeOK, PoolTypeOK, MonitorTypeOK
  <1>6. WorkerTypeOK'
    BY <1>3, <1>4, TypeFacts DEF Visit, WorkerTypeOK
  <1>7. LocksAreOwned' /\ \A u \in Tasks : pc'[u] \in SlotLabels => cur'[u] \in Workers
    BY DEF Visit, Control, LocksAreOwned
  <1> QED
    BY <1>5, <1>6, <1>7 DEF Control, ServerTypeOK

\* A reload keeps or replaces the slots of the pool.
LEMMA ResizeControl ==
    ASSUME LifecycleTypeOK, Control, NEW t \in Admins, Resize(t)
    PROVE  Control'
  <1>1. t \in Tasks /\ pc[t] \notin OperationLabels
    BY LifecycleAssumed, AdminLabelFacts DEF Resize
  <1>2. PoolTypeOK'
    <2>1. CASE WorkerCount[poolConf] = Len(pool)
      BY <2>1, TypeFacts DEF Resize, PoolTypeOK
    <2>2. CASE WorkerCount[poolConf] # Len(pool)
      <3> DEFINE n == WorkerCount[poolConf]
      <3>1. n \in Nat
        BY LifecycleAssumed DEF LifecycleTypeOK
      <3>2. PICK slots \in NewSlots(n) :
              /\ pool' = slots
              /\ current' \in IF n = 0 THEN {0} ELSE 0..(n - 1)
        BY <2>2 DEF Resize
      <3>3. /\ pool' \in Seq(Workers) /\ Len(pool') = n
            /\ pool' = <<>> <=> n = 0
        BY <3>1, <3>2, NewSlotsType
      <3>4. current' \in Nat /\ (pool' # <<>> => current' < Len(pool'))
        BY <3>1, <3>2, <3>3
      <3> QED
        BY <3>3, <3>4, TypeFacts DEF Resize, PoolTypeOK
    <2> QED
      BY <2>1, <2>2
  <1> QED
    BY <1>1, <1>2, AdminMoveControl, AdminLabelFacts DEF Resize

\* A client disconnects: what its handler holds is released.
LEMMA CancelControl ==
    ASSUME Control, NEW t \in Cancellable, Cancel(t)
    PROVE  Control'
  <1> USE TypeFacts
  <1>1. t \in Tasks
    BY LifecycleAssumed DEF Admins
  <1>2. PICK l \in {"idle", "rest"} : Goto(t, None, l)
    BY DEF Cancel
  <1>3. ProcTypeOK'
    <2>1. CASE UNCHANGED procVars
      BY <2>1 DEF ProcTypeOK
    <2>2. CASE t \in Requests /\ Forsake(t)
      BY <2>1, <2>2, AbandonType, HangUpType DEF Forsake
    <2> QED
      BY <2>1, <2>2 DEF Cancel
  <1>4. LocksAreOwned'
    <2>1. \A w \in Workers : lock'[w] = IF lock[w] = t THEN None ELSE lock[w]
      BY DEF Cancel, Released
    <2>2. \A u \in Tasks \ {t} : pc'[u] = pc[u] /\ cur'[u] = cur[u] /\ call'[u] = call[u]
      BY <1>2 DEF Goto
    <2>3. pc'[t] \notin OperationLabels
      BY <1>1, <1>2, AdminLabelFacts DEF Goto
    <2> QED
      BY <1>1, <2>1, <2>2, <2>3 DEF Control, LocksAreOwned
  <1>5. lock' \in [Workers -> Tasks \cup {None}]
    BY DEF Cancel, Released
  <1>6. /\ pc' \in [Tasks -> Labels]
        /\ cur' \in [Tasks -> Workers \cup {None}]
        /\ call' \in [Tasks -> Calls]
    BY <1>2, AdminLabelFacts DEF Goto, Calls
  <1>7. WorkerTypeOK'
    BY <1>5, <1>6 DEF Cancel, WorkerTypeOK
  <1>8. PoolTypeOK' /\ MonitorTypeOK'
    BY DEF Cancel, Released, PoolTypeOK, MonitorTypeOK
  <1>9. \A u \in Tasks : pc'[u] \in SlotLabels => cur'[u] \in Workers
    BY <1>1, <1>2, AdminLabelFacts DEF Goto, Control
  <1> QED
    BY <1>3, <1>4, <1>7, <1>8, <1>9 DEF Control, ServerTypeOK

\* A step of a task that works on a whole pool.
AdminStep(t) ==
    \/ t \in Reloaders /\ BeginReload(t)
    \/ t \in Killers /\ BeginShutdown(t)
    \/ t \in Inspectors /\ BeginInspection(t)
    \/ LockManager(t)
    \/ LockPool(t)
    \/ StopNext(t)
    \/ t \in Reloaders /\ Resize(t)
    \/ t \in Reloaders /\ StartNext(t)
    \/ Visit(t)
    \/ t \in Inspectors /\ NextPass(t)
    \/ FinishReload(t)
    \/ FinishInspection(t)
    \/ Exit(t)
    \/ t \in Reloaders /\ WorkerStep(t) /\ UNCHANGED <<poolVars, monitorVars>> /\ Follow(t)

\* The steps of the admin tasks keep Control.
LEMMA AdminStepControl ==
    ASSUME LifecycleTypeOK, Control, NEW t \in Admins, AdminStep(t)
    PROVE  Control'
  <1> USE TypeFacts, AdminLabelFacts
  <1>0. t \in Tasks
    BY LifecycleAssumed
  <1>1. CASE BeginReload(t) \/ BeginShutdown(t) \/ BeginInspection(t)
    <2>1. /\ pc[t] = "rest" /\ pc' = [pc EXCEPT ![t] = "manager"]
          /\ UNCHANGED <<procVars, slotVars, cur, call, poolVars, monitorVars>>
      BY <1>1 DEF BeginReload, BeginShutdown, BeginInspection
    <2>2. PoolTypeOK'
      BY <2>1 DEF PoolTypeOK
    <2> QED
      BY <1>0, <2>1, <2>2, AdminMoveControl
  <1>2. CASE LockManager(t) \/ LockPool(t)
    <2>1. PoolTypeOK'
      BY <1>0, <1>2 DEF LockManager, LockPool, PoolTypeOK
    <2> QED
      BY <1>0, <1>2, <2>1, AdminMoveControl DEF LockManager, LockPool
  <1>3. CASE NextPass(t)
    <2>1. PoolTypeOK'
      BY <1>3 DEF NextPass, PoolTypeOK
    <2> QED
      BY <1>0, <1>3, <2>1, AdminMoveControl DEF NextPass
  <1>4. CASE FinishReload(t) \/ FinishInspection(t)
    <2>1. pc[t] \in AdminLabels /\ Leave(t)
      BY <1>4 DEF FinishReload, FinishInspection
    <2>2. PoolTypeOK'
      BY <2>1 DEF Leave, PoolTypeOK
    <2> QED
      BY <1>0, <2>1, <2>2, AdminMoveControl DEF Leave
  <1>5. CASE Exit(t)
    BY <1>5 DEF Exit, vars, Control, ServerTypeOK, ProcTypeOK, WorkerTypeOK, PoolTypeOK,
                MonitorTypeOK, LocksAreOwned
  <1>6. CASE WorkerStep(t) /\ UNCHANGED <<poolVars, monitorVars>>
    <2>1. PoolTypeOK' /\ MonitorTypeOK'
      BY <1>6 DEF PoolTypeOK, MonitorTypeOK
    <2> QED
      BY <1>0, <1>6, <2>1, WorkerStepControl DEF Control, ServerTypeOK
  <1> QED
    BY <1>1, <1>2, <1>3, <1>4, <1>5, <1>6, StopNextControl, StartNextControl,
       ResizeControl, VisitControl DEF AdminStep

\* So do the steps of the handlers, also on an empty pool.
LEMMA RequestControl ==
    ASSUME Control, NEW r \in Requests, RequestNext(r)
    PROVE  Control'
  <1> USE TypeFacts
  <1>1. CASE pc[r] = "probe" /\ pool = <<>> /\ NextWorkerPanics(r)
    <2>1. r \in Tasks /\ pc[r] \notin OperationLabels
      BY <1>1, LifecycleAssumed, AdminLabelFacts
    <2>2. /\ LocksAreOwned'
          /\ \A u \in Tasks : pc'[u] \in SlotLabels => cur'[u] \in Workers
          /\ pc' \in [Tasks -> Labels]
          /\ cur' \in [Tasks -> Workers \cup {None}]
          /\ call' \in [Tasks -> Calls]
      BY <1>1, <2>1, GotoControl, AdminLabelFacts DEF NextWorkerPanics
    <2>3. ProcTypeOK' /\ PoolTypeOK' /\ MonitorTypeOK'
      BY <1>1 DEF NextWorkerPanics, ProcTypeOK, PoolTypeOK, MonitorTypeOK
    <2>4. WorkerTypeOK'
      BY <1>1, <2>2 DEF NextWorkerPanics, WorkerTypeOK
    <2> QED
      BY <2>2, <2>3, <2>4 DEF Control, ServerTypeOK
  <1>2. CASE HandlerStep(r) \/ Route(r)
    <2>1. CASE pc[r] = "probe" => pool # <<>>
      <3>1. MonitorTypeOK'
        BY DEF RequestNext, HandlerNext, NextWorkerPanics, MonitorTypeOK
      <3> QED
        BY <1>2, <2>1, <3>1, HandlerStepControl DEF Control, ServerTypeOK
    <2>2. CASE pc[r] = "probe" /\ pool = <<>>
      BY <1>1, <2>2 DEF RequestNext, Route
    <2> QED
      BY <2>1, <2>2
  <1> QED
    BY <1>1, <1>2 DEF RequestNext, HandlerNext

\* PHP keeps it.
LEMMA PhpControl ==
    ASSUME Control, PhpNext
    PROVE  Control'
  <1>1. ProcTypeOK'
    BY TypeFacts, ProcNextType DEF PhpNext
  <1> QED
    BY <1>1 DEF PhpNext, Control, ServerTypeOK, WorkerTypeOK, PoolTypeOK, MonitorTypeOK,
                LocksAreOwned

-----------------------------------------------------------------------------
(* LifecycleControl is inductive. *)

\* A step of a handler moves that handler only, and takes and gives back the
\* pool's mutex as it begins and ends its scan; a panic ends the scan as well.
LEMMA HandlerMoves ==
    ASSUME Control, NEW r \in Requests, HandlerStep(r) \/ Route(r) \/ NextWorkerPanics(r)
    PROVE  /\ \A u \in Tasks \ {r} : pc'[u] = pc[u] /\ cur'[u] = cur[u] /\ call'[u] = call[u]
           /\ UNCHANGED <<pmLock, pool>>
           /\ \/ poolLock = None /\ poolLock' = r /\ pc[r] # "probe" /\ pc'[r] = "probe"
              \/ poolLock' = None /\ pc[r] = "probe" /\ pc'[r] # "probe"
              \/ poolLock' = poolLock /\ (pc'[r] = "probe" <=> pc[r] = "probe")
  <1>1. CASE NextWorkerPanics(r)
    BY <1>1, TypeFacts, HandlerFacts DEF NextWorkerPanics, Goto
  <1> QED
    BY <1>1, StepMoves

\* Only task a moves, and it has, takes or gives back the two mutexes.
LEMMA PoolLocksKept ==
    ASSUME LifecycleControl, NEW a \in Tasks,
           \A u \in Tasks \ {a} : pc'[u] = pc[u],
           UnderManager(a)' <=> pmLock' = a,
           UnderPool(a)' <=> poolLock' = a,
           pmLock' = pmLock \/ (pmLock \in {None, a} /\ pmLock' \in {None, a}),
           poolLock' = poolLock \/ (poolLock \in {None, a} /\ poolLock' \in {None, a})
    PROVE  PoolLocksAreOwned'
  <1>1. ASSUME NEW u \in Tasks \ {a}
        PROVE  /\ UnderManager(u)' <=> UnderManager(u)
               /\ UnderPool(u)' <=> UnderPool(u)
    BY DEF UnderManager, UnderPool
  <1>2. ASSUME NEW u \in Tasks \ {a}
        PROVE  /\ pmLock' = u <=> pmLock = u
               /\ poolLock' = u <=> poolLock = u
    BY LifecycleAssumed
  <1>3. PoolLocksAreOwned
    BY DEF LifecycleControl
  <1> QED
    BY <1>1, <1>2, <1>3 DEF PoolLocksAreOwned

\* What LifecycleControl says of the lifecycle's own variables.
LEMMA LifecycleFacts ==
    ASSUME LifecycleControl
    PROVE  /\ Control
           /\ LifecycleTypeOK
           /\ PoolLocksAreOwned
           /\ config \in Configs
           /\ poolConf \in Configs
           /\ held \in [Tasks -> Configs \cup {None}]
           /\ born \in [Workers -> Configs \cup {None}]
           /\ made \in SUBSET Workers
           /\ at \in [Tasks -> Nat]
           /\ passes \in [Tasks -> Nat]
           /\ reloads \in Nat
           /\ running \in BOOLEAN
           /\ \A t \in Reloaders : pc[t] \notin {"idle", "sleep", "rest", "panicked"} => held[t] # None
           /\ pc \in [Tasks -> Labels]
  BY TypeFacts DEF LifecycleControl, LifecycleTypeOK

\* A step that follows a task keeps the types and what reloads have loaded.
LEMMA FollowKeeps ==
    ASSUME LifecycleControl, NEW a \in Tasks, Follow(a), Control', PoolLocksAreOwned',
           \A u \in Tasks \ {a} : pc'[u] = pc[u],
           a \in Reloaders => pc[a] \in OperationLabels
    PROVE  LifecycleControl'
  <1> USE LifecycleFacts
  <1>1. held' \in [Tasks -> Configs \cup {None}]
    BY DEF Follow
  <1>2. born' \in [Workers -> Configs \cup {None}]
    BY DEF Follow
  <1>3. LifecycleTypeOK'
    BY <1>1, <1>2 DEF Follow, LifecycleTypeOK, Control
  <1>4. ASSUME NEW t \in Reloaders, pc'[t] \notin {"idle", "sleep", "rest", "panicked"}
        PROVE  held'[t] # None
    <2>1. t \in Tasks
      BY LifecycleAssumed DEF Admins
    <2>2. CASE t = a
      BY <1>4, <2>1, <2>2, AdminLabelFacts DEF Follow, Clones
    <2>3. CASE t # a
      BY <1>4, <2>1, <2>3 DEF Follow
    <2> QED
      BY <2>2, <2>3
  <1> QED
    BY <1>3, <1>4 DEF LifecycleControl

\* An admin task moves alone.
LEMMA AdminMoves ==
    ASSUME Control, NEW t \in Admins, AdminStep(t)
    PROVE  \A u \in Tasks \ {t} : pc'[u] = pc[u] /\ cur'[u] = cur[u] /\ call'[u] = call[u]
  <1> USE TypeFacts
  <1>1. CASE WorkerStep(t)
    BY <1>1, WorkerMoves, LifecycleAssumed
  <1>2. CASE BeginReload(t) \/ BeginShutdown(t) \/ BeginInspection(t) \/ LockManager(t)
    BY <1>2 DEF BeginReload, BeginShutdown, BeginInspection, LockManager
  <1>3. CASE LockPool(t) \/ StopNext(t) \/ Resize(t) \/ StartNext(t)
    BY <1>3 DEF LockPool, StopNext, Resize, StartNext, Enter
  <1>4. CASE Visit(t) \/ NextPass(t) \/ FinishReload(t) \/ FinishInspection(t) \/ Exit(t)
    BY <1>4 DEF Visit, NextPass, FinishReload, FinishInspection, Leave, Exit, vars
  <1> QED
    BY <1>1, <1>2, <1>3, <1>4 DEF AdminStep

\* It works under the two mutexes exactly as long as it holds them.
LEMMA AdminPoolLocks ==
    ASSUME LifecycleControl, NEW t \in Admins, AdminStep(t)
    PROVE  PoolLocksAreOwned'
  <1> USE LifecycleFacts, AdminLabelFacts
  <1> DEFINE Kept ==
        /\ UnderManager(t)' <=> pmLock' = t
        /\ UnderPool(t)' <=> poolLock' = t
        /\ pmLock' = pmLock \/ (pmLock \in {None, t} /\ pmLock' \in {None, t})
        /\ poolLock' = poolLock \/ (poolLock \in {None, t} /\ poolLock' \in {None, t})
  <1>0. /\ t \in Tasks \ Requests /\ t # None
        /\ UnderManager(t) <=> pc[t] \notin {"rest", "manager"}
        /\ UnderPool(t) <=> pc[t] \notin {"rest", "manager", "pool"}
        /\ UnderManager(t)' <=> pc'[t] \notin {"rest", "manager"}
        /\ UnderPool(t)' <=> pc'[t] \notin {"rest", "manager", "pool"}
        /\ UnderManager(t) <=> pmLock = t
        /\ UnderPool(t) <=> poolLock = t
    BY LifecycleAssumed DEF UnderManager, UnderPool, PoolLocksAreOwned
  <1>1. CASE BeginReload(t) \/ BeginShutdown(t) \/ BeginInspection(t)
    <2>1. pc[t] = "rest" /\ pc'[t] = "manager" /\ UNCHANGED <<pmLock, poolLock>>
      BY <1>0, <1>1 DEF BeginReload, BeginShutdown, BeginInspection
    <2>2. Kept
      BY <1>0, <2>1
    <2> QED
      BY <1>0, <2>2, AdminMoves, PoolLocksKept
  <1>2. CASE LockManager(t)
    <2>1. Kept
      BY <1>0, <1>2 DEF LockManager
    <2> QED
      BY <1>0, <2>1, AdminMoves, PoolLocksKept
  <1>3. CASE LockPool(t)
    <2>1. Kept
      BY <1>0, <1>3 DEF LockPool
    <2> QED
      BY <1>0, <2>1, AdminMoves, PoolLocksKept
  <1>4. CASE NextPass(t)
    <2>1. Kept
      BY <1>0, <1>4 DEF NextPass
    <2> QED
      BY <1>0, <2>1, AdminMoves, PoolLocksKept
  <1>5. CASE FinishReload(t) \/ FinishInspection(t)
    <2>1. pc[t] \in {"leave", "starting", "visiting"} /\ Leave(t)
      BY <1>5 DEF FinishReload, FinishInspection
    <2>2. Kept
      BY <1>0, <2>1 DEF Leave
    <2> QED
      BY <1>0, <2>2, AdminMoves, PoolLocksKept
  <1>6. CASE StopNext(t) \/ Visit(t) \/ Exit(t)
    BY <1>6 DEF StopNext, Visit, Exit, vars, PoolLocksAreOwned, UnderManager, UnderPool
  <1>7. CASE Resize(t) \/ StartNext(t)
    <2>1. /\ pc[t] \in {"stopping", "starting"} /\ pc'[t] \in {"starting", "spawn"}
          /\ UNCHANGED <<pmLock, poolLock>>
      BY <1>0, <1>7 DEF Resize, StartNext, VisitNext, Enter
    <2>2. Kept
      BY <1>0, <2>1
    <2> QED
      BY <1>0, <2>2, AdminMoves, PoolLocksKept
  <1>8. CASE WorkerStep(t) /\ UNCHANGED <<poolVars, monitorVars>>
    <2>1. Kept
      BY <1>0, <1>8, WorkerMoves
    <2> QED
      BY <1>0, <2>1, AdminMoves, PoolLocksKept
  <1> QED
    BY <1>1, <1>2, <1>3, <1>4, <1>5, <1>6, <1>7, <1>8 DEF AdminStep

\* The steps of the admin tasks keep LifecycleControl.
LEMMA AdminLifecycle ==
    ASSUME LifecycleControl, NEW t \in Admins, AdminStep(t)
    PROVE  LifecycleControl'
  <1> USE LifecycleFacts, AdminLabelFacts
  <1>0. /\ t \in Tasks /\ \A u \in Reloaders : u \in Tasks
        /\ None \notin Configs
        /\ t \in Killers \cup Inspectors => t \notin Reloaders
    BY LifecycleAssumed DEF Admins
  <1>1. Control' /\ PoolLocksAreOwned'
    BY AdminStepControl, AdminPoolLocks
  <1>2. \A u \in Tasks \ {t} : pc'[u] = pc[u]
    BY AdminMoves
  <1>3. ServerTypeOK'
    BY <1>1 DEF Control
  <1> SUFFICES /\ LifecycleTypeOK'
               /\ \A u \in Reloaders : pc'[u] \notin {"idle", "sleep", "rest", "panicked"} => held'[u] # None
    BY <1>1 DEF LifecycleControl
  <1>4. CASE t \in Reloaders /\ BeginReload(t)
    <2>1. PICK c \in Configs : config' = c /\ held' = [held EXCEPT ![t] = c]
      BY <1>4 DEF BeginReload
    <2>2. held' \in [Tasks -> Configs \cup {None}]
      BY <2>1
    <2>3. LifecycleTypeOK'
      BY <1>3, <1>4, <2>1, <2>2 DEF BeginReload, LifecycleTypeOK
    <2> QED
      BY <1>0, <1>2, <2>1, <2>3
  <1>5. CASE t \in Killers /\ BeginShutdown(t)
    <2>1. LifecycleTypeOK'
      BY <1>3, <1>5 DEF BeginShutdown, LifecycleTypeOK
    <2> QED
      BY <1>0, <1>2, <1>5, <2>1 DEF BeginShutdown
  <1>6. CASE t \in Inspectors /\ BeginInspection(t)
    <2>1. PICK n \in Passes : passes' = [passes EXCEPT ![t] = n]
      BY <1>6 DEF BeginInspection
    <2>2. passes' \in [Tasks -> Nat]
      BY <2>1, LifecycleAssumed DEF LifecycleAssumption
    <2>3. LifecycleTypeOK'
      BY <1>3, <1>6, <2>2 DEF BeginInspection, LifecycleTypeOK
    <2> QED
      BY <1>0, <1>2, <1>6, <2>3 DEF BeginInspection
  <1>7. CASE LockManager(t)
    <2>1. LifecycleTypeOK'
      BY <1>3, <1>7 DEF LockManager, LifecycleTypeOK
    <2> QED
      BY <1>0, <1>2, <1>7, <2>1 DEF LockManager
  <1>8. CASE LockPool(t)
    <2>1. poolConf' \in Configs
      BY <1>0, <1>8 DEF LockPool
    <2>2. at' \in [Tasks -> Nat]
      BY <1>8 DEF LockPool
    <2>3. LifecycleTypeOK'
      BY <1>3, <1>8, <2>1, <2>2 DEF LockPool, LifecycleTypeOK
    <2> QED
      BY <1>0, <1>2, <1>8, <2>3 DEF LockPool
  <1>9. CASE StopNext(t) \/ Visit(t)
    <2>1. at' = [at EXCEPT ![t] = @ + 1]
      BY <1>9 DEF StopNext, Visit, VisitNext
    <2>2. at[t] + 1 \in Nat
      BY <1>0
    <2>3. at' \in [Tasks -> Nat]
      BY <2>1, <2>2
    <2>4. /\ UNCHANGED <<pc, held, running, config, poolConf, born, made, passes, reloads>>
      BY <1>9 DEF StopNext, Visit
    <2>5. LifecycleTypeOK'
      BY <1>3, <2>3, <2>4 DEF LifecycleTypeOK
    <2> QED
      BY <2>4, <2>5
  <1>10. CASE t \in Reloaders /\ Resize(t)
    <2>1. made' \in SUBSET Workers
      <3>1. CASE made' = made
        BY <3>1
      <3>2. CASE made' # made
        <4>1. PICK slots \in NewSlots(WorkerCount[poolConf]) : made' = made \cup SlotsIn(slots)
          BY <1>10, <3>2 DEF Resize
        <4>2. slots \in [1..WorkerCount[poolConf] -> Workers]
          BY <4>1 DEF NewSlots
        <4> QED
          BY <4>1, <4>2 DEF SlotsIn
      <3> QED
        BY <3>1, <3>2
    <2>2. at' \in [Tasks -> Nat]
      BY <1>10 DEF Resize
    <2>3. LifecycleTypeOK'
      BY <1>3, <1>10, <2>1, <2>2 DEF Resize, LifecycleTypeOK
    <2> QED
      BY <1>0, <1>2, <1>10, <2>3 DEF Resize
  <1>11. CASE t \in Reloaders /\ StartNext(t)
    <2>1. at[t] + 1 \in Nat
      BY <1>0
    <2>2. at' \in [Tasks -> Nat]
      BY <1>11, <2>1 DEF StartNext, VisitNext
    <2>3. LifecycleTypeOK'
      BY <1>3, <1>11, <2>2 DEF StartNext, LifecycleTypeOK
    <2> QED
      BY <1>0, <1>2, <1>11, <2>3 DEF StartNext, VisitNext
  <1>12. CASE NextPass(t)
    <2>1. passes[t] - 1 \in Nat
      BY <1>0, <1>12 DEF NextPass
    <2>2. passes' \in [Tasks -> Nat]
      BY <1>12, <2>1 DEF NextPass
    <2>3. LifecycleTypeOK'
      BY <1>3, <1>12, <2>2 DEF NextPass, LifecycleTypeOK
    <2> QED
      BY <1>0, <1>2, <1>12, <2>3 DEF NextPass
  <1>13. CASE FinishReload(t) \/ FinishInspection(t)
    <2>1. Leave(t)
      BY <1>13 DEF FinishReload, FinishInspection
    <2>2. /\ at' \in [Tasks -> Nat] /\ passes' \in [Tasks -> Nat]
          /\ held' \in [Tasks -> Configs \cup {None}]
      BY <2>1 DEF Leave
    <2>3. LifecycleTypeOK'
      BY <1>3, <2>1, <2>2 DEF Leave, LifecycleTypeOK
    <2>4. /\ pc'[t] = "rest" /\ \A u \in Tasks \ {t} : held'[u] = held[u]
      BY <1>0, <2>1 DEF Leave
    <2> QED
      BY <1>0, <1>2, <2>3, <2>4
  <1>14. CASE Exit(t)
    <2>1. LifecycleTypeOK'
      BY <1>3, <1>14 DEF Exit, LifecycleTypeOK
    <2> QED
      BY <1>14, <2>1 DEF Exit, vars
  <1>15. CASE WorkerStep(t) /\ UNCHANGED <<poolVars, monitorVars>> /\ Follow(t)
    <2>1. LifecycleControl'
      BY <1>0, <1>1, <1>2, <1>15, FollowKeeps, WorkerMoves
    <2> QED
      BY <2>1 DEF LifecycleControl
  <1> QED
    BY <1>4, <1>5, <1>6, <1>7, <1>8, <1>9, <1>10, <1>11, <1>12, <1>13, <1>14, <1>15
       DEF AdminStep

\* A client that disconnects gives back whichever mutex its handler holds.
LEMMA CancelLifecycle ==
    ASSUME LifecycleControl, NEW t \in Cancellable, Cancel(t)
    PROVE  LifecycleControl'
  <1> USE LifecycleFacts, AdminLabelFacts
  <1>0. t \in Tasks /\ t # None /\ \A u \in Reloaders : u \in Tasks
    BY LifecycleAssumed DEF Admins
  <1>1. Control'
    BY CancelControl
  <1>2. /\ \A u \in Tasks \ {t} : pc'[u] = pc[u]
        /\ pc'[t] = IF t \in Requests THEN "idle" ELSE "rest"
    BY <1>0 DEF Cancel, Goto
  <1>3. PoolLocksAreOwned'
    <2>1. ~UnderManager(t)' /\ ~UnderPool(t)'
      BY <1>2, LifecycleAssumed DEF UnderManager, UnderPool
    <2>2. /\ pmLock' = IF pmLock = t THEN None ELSE pmLock
          /\ poolLock' = IF poolLock = t THEN None ELSE poolLock
      BY DEF Cancel, Released
    <2> QED
      BY <1>0, <1>2, <2>1, <2>2, PoolLocksKept
  <1>4. /\ at' \in [Tasks -> Nat] /\ passes' \in [Tasks -> Nat]
        /\ held' \in [Tasks -> Configs \cup {None}]
    BY DEF Cancel
  <1>5. LifecycleTypeOK'
    BY <1>1, <1>4 DEF Cancel, LifecycleTypeOK, Control
  <1>6. ASSUME NEW u \in Reloaders, pc'[u] \notin {"idle", "sleep", "rest", "panicked"}
        PROVE  held'[u] # None
    BY <1>0, <1>2, <1>6 DEF Cancel
  <1> QED
    BY <1>1, <1>3, <1>5, <1>6 DEF LifecycleControl

\* A step of the server is one of the steps above.
LEMMA ServerSteps ==
    ASSUME ServerNext
    PROVE  \/ \E r \in Requests : RequestNext(r)
           \/ WatcherNext
           \/ \E t \in Admins : AdminStep(t)
           \/ \E t \in Cancellable : Cancel(t)
  <1>1. ASSUME NEW t \in Reloaders, BeginReload(t) \/ ReloadNext(t)
        PROVE  \E u \in Admins : AdminStep(u)
    BY <1>1 DEF ReloadNext, AdminStep, Admins
  <1>2. ASSUME NEW t \in Killers, BeginShutdown(t) \/ ShutdownNext(t)
        PROVE  \E u \in Admins : AdminStep(u)
    BY <1>2 DEF ShutdownNext, AdminStep, Admins
  <1>3. ASSUME NEW t \in Inspectors, BeginInspection(t) \/ InspectNext(t)
        PROVE  \E u \in Admins : AdminStep(u)
    BY <1>3 DEF InspectNext, AdminStep, Admins
  <1> QED
    BY <1>1, <1>2, <1>3 DEF ServerNext, AdminNext

\* At first every admin task rests and the two mutexes are free.
LEMMA LifecycleInitially == LifecycleInit => LifecycleControl
  <1> SUFFICES ASSUME LifecycleInit PROVE LifecycleControl
    OBVIOUS
  <1>1. Control
    BY LifecycleControlInit
  <1>2. LifecycleTypeOK
    <2>1. SlotsIn(Slots) \in SUBSET Workers
      BY Assumptions DEF SlotsIn, HandlerAssumption
    <2> QED
      BY <1>1, <2>1, LifecycleAssumed
         DEF LifecycleInit, LifecycleTypeOK, Control, LifecycleAssumption
  <1>3. PoolLocksAreOwned
    <2>1. pmLock = None /\ poolLock = None
      BY DEF LifecycleInit, HandlerInit
    <2>2. \A t \in Tasks : (t \in Admins => pc[t] = "rest") /\ pc[t] # "probe"
      BY LifecycleAssumed DEF LifecycleInit
    <2> QED
      BY <2>1, <2>2, LifecycleAssumed DEF PoolLocksAreOwned, UnderManager, UnderPool
  <1>4. \A t \in Reloaders : pc[t] = "rest"
    BY LifecycleAssumed DEF LifecycleInit, Admins
  <1> QED
    BY <1>1, <1>2, <1>3, <1>4 DEF LifecycleControl

\* Every step of the lifecycle keeps it.
LEMMA LifecycleStep ==
    ASSUME LifecycleControl, [LifecycleNext]_lifecycleVars
    PROVE  LifecycleControl'
  <1> USE LifecycleFacts
  <1>1. ASSUME NEW r \in Requests, RequestNext(r)
        PROVE  LifecycleControl'
    <2>0. r \in Tasks \ Admins /\ r \notin Reloaders
      BY LifecycleAssumed DEF Admins
    <2>1. HandlerStep(r) \/ Route(r) \/ NextWorkerPanics(r)
      BY <1>1 DEF RequestNext, HandlerNext
    <2>2. PoolLocksAreOwned'
      <3>1. /\ ~UnderManager(r) /\ ~UnderManager(r)'
            /\ UnderPool(r) <=> pc[r] = "probe"
            /\ UnderPool(r)' <=> pc'[r] = "probe"
        BY <2>0 DEF UnderManager, UnderPool
      <3>2. (UnderManager(r) <=> pmLock = r) /\ (UnderPool(r) <=> poolLock = r)
        BY <2>0 DEF PoolLocksAreOwned
      <3>3. r # None
        BY <2>0, LifecycleAssumed
      <3> QED
        BY <2>0, <2>1, <3>1, <3>2, <3>3, HandlerMoves, PoolLocksKept
    <2>3. Control'
      BY <1>1, RequestControl
    <2> QED
      BY <1>1, <2>0, <2>1, <2>2, <2>3, HandlerMoves, FollowKeeps DEF RequestNext
  <1>2. CASE WatcherNext
    <2>0. Monitor \in Tasks \ Admins /\ Monitor \notin Reloaders /\ Monitor \notin Requests
      BY LifecycleAssumed DEF Admins
    <2>1. PoolLocksAreOwned'
      <3>1. /\ ~UnderManager(Monitor) /\ ~UnderManager(Monitor)'
            /\ ~UnderPool(Monitor) /\ ~UnderPool(Monitor)'
        BY <2>0 DEF UnderManager, UnderPool
      <3>2. pmLock # Monitor /\ poolLock # Monitor
        BY <2>0, <3>1 DEF PoolLocksAreOwned
      <3>3. UNCHANGED poolVars
        BY <1>2, MonitorMoves DEF WatcherNext
      <3> QED
        BY <1>2, <2>0, <3>1, <3>2, <3>3, MonitorMoves, PoolLocksKept DEF WatcherNext
    <2>2. Control'
      BY <1>2, MonitorStepControl DEF WatcherNext
    <2> QED
      BY <1>2, <2>0, <2>1, <2>2, MonitorMoves, FollowKeeps DEF WatcherNext
  <1>3. CASE PhpNext /\ UNCHANGED adminVars
    <2>1. Control'
      BY <1>3, PhpControl
    <2>2. LifecycleTypeOK'
      BY <1>3, <2>1 DEF LifecycleTypeOK, Control
    <2>3. UNCHANGED <<pc, pmLock, poolLock, held>>
      BY <1>3 DEF PhpNext
    <2>4. PoolLocksAreOwned'
      BY <2>3 DEF PoolLocksAreOwned, UnderManager, UnderPool
    <2> QED
      BY <2>1, <2>2, <2>3, <2>4 DEF LifecycleControl
  <1>4. CASE UNCHANGED lifecycleVars
    <2>1. UNCHANGED vars /\ UNCHANGED adminVars
      BY <1>4 DEF lifecycleVars
    <2>2. Control'
      BY <2>1 DEF vars, Control, ServerTypeOK, ProcTypeOK, WorkerTypeOK, PoolTypeOK,
                  MonitorTypeOK, LocksAreOwned
    <2>3. LifecycleTypeOK'
      BY <2>1, <2>2 DEF LifecycleTypeOK, Control
    <2>4. PoolLocksAreOwned'
      BY <2>1 DEF vars, PoolLocksAreOwned, UnderManager, UnderPool
    <2> QED
      BY <2>1, <2>2, <2>3, <2>4 DEF vars, LifecycleControl
  <1> QED
    BY <1>1, <1>2, <1>3, <1>4, ServerSteps, AdminLifecycle, CancelLifecycle
       DEF LifecycleNext

\* Types, the slots' mutexes, the manager's and the pools', and the configuration
\* that a reload holds, through every interleaving of the lifecycle.
THEOREM LifecycleIsControlled == LifecycleSpec => []LifecycleControl
  BY LifecycleInitially, LifecycleStep, PTL DEF LifecycleSpec

\* However reloads, shutdowns, inspections, handlers and disconnects interleave,
\* no mutex leaks and none is used by a task that does not hold it: every guard
\* of handlers.rs, main.rs and worker_pool.rs is dropped on every way out.
THEOREM MutexesStayOwned == LifecycleSpec => []MutexesAreOwned
  <1>1. LifecycleControl => MutexesAreOwned
    BY DEF LifecycleControl, MutexesAreOwned, Control
  <1> QED
    BY <1>1, LifecycleIsControlled, PTL

-----------------------------------------------------------------------------
(* The manager's mutex keeps the pool as it is. *)

\* Who resizes the pool or gives it a configuration has the manager's mutex.
LEMMA PoolChanges ==
    ASSUME LifecycleControl, [LifecycleNext]_lifecycleVars
    PROVE  (pool' = pool /\ poolConf' = poolConf) \/ pmLock \in Reloaders
  <1> USE LifecycleFacts, AdminLabelFacts
  <1>1. ASSUME NEW t \in Admins, AdminStep(t)
        PROVE  (pool' = pool /\ poolConf' = poolConf) \/ pmLock \in Reloaders
    <2>1. CASE LockPool(t) \/ (t \in Reloaders /\ Resize(t))
      <3>1. UnderManager(t) /\ t \in Tasks
        BY <2>1, LifecycleAssumed DEF LockPool, Resize, UnderManager
      <3>2. pmLock = t
        BY <3>1 DEF PoolLocksAreOwned
      <3>3. t \notin Reloaders => UNCHANGED <<pool, poolConf>>
        BY <2>1 DEF LockPool
      <3> QED
        BY <3>2, <3>3
    <2>2. CASE ~(LockPool(t) \/ (t \in Reloaders /\ Resize(t)))
      <3>1. UNCHANGED <<pool, poolConf>>
        BY <1>1, <2>2 DEF AdminStep, BeginReload, BeginShutdown, BeginInspection, LockManager,
                  StopNext, StartNext, Visit, NextPass, FinishReload, FinishInspection,
                  Leave, Exit, Follow, vars
      <3> QED
        BY <3>1
    <2> QED
      BY <2>1, <2>2
  <1>2. ASSUME NEW r \in Requests, RequestNext(r)
        PROVE  UNCHANGED <<pool, poolConf>>
    BY <1>2, HandlerMoves DEF RequestNext, HandlerNext, Follow
  <1>3. WatcherNext => UNCHANGED <<pool, poolConf>>
    BY MonitorMoves DEF WatcherNext, Follow
  <1>4. ASSUME NEW t \in Cancellable, Cancel(t)
        PROVE  UNCHANGED <<pool, poolConf>>
    BY <1>4 DEF Cancel
  <1>5. (PhpNext /\ UNCHANGED adminVars) \/ UNCHANGED lifecycleVars => UNCHANGED <<pool, poolConf>>
    BY DEF PhpNext, lifecycleVars, vars
  <1> QED
    BY <1>1, <1>2, <1>3, <1>4, <1>5, ServerSteps DEF LifecycleNext

\* /metrics gives the pool's mutex back between its passes and keeps the manager's:
\* every pass sees the same slots under the same configuration.
THEOREM InspectionsAreStable == LifecycleSpec => InspectionIsStable
  <1>1. LifecycleControl /\ [LifecycleNext]_lifecycleVars =>
          [\A t \in Inspectors :
             UnderManager(t) => pool' = pool /\ poolConf' = poolConf]_lifecycleVars
    <2> SUFFICES ASSUME LifecycleControl, [LifecycleNext]_lifecycleVars,
                        NEW t \in Inspectors, UnderManager(t)
                 PROVE  pool' = pool /\ poolConf' = poolConf
      OBVIOUS
    <2>1. pmLock = t
      BY LifecycleAssumed DEF LifecycleControl, PoolLocksAreOwned, Admins
    <2> QED
      BY <2>1, PoolChanges, LifecycleAssumed
  <1> QED
    BY <1>1, LifecycleIsControlled, PTL DEF LifecycleSpec, InspectionIsStable

-----------------------------------------------------------------------------
(* active_requests never counts too few. *)

\* Where no request moves, what is in flight stays.
LEMMA FlightKept ==
    ASSUME \A r \in Requests : pc'[r] = pc[r] /\ cur'[r] = cur[r], active' = active
    PROVE  CountFollows
  <1>1. ASSUME NEW w \in Workers
        PROVE  InFlightOn(w)' = InFlightOn(w)
    BY DEF InFlightOn
  <1> QED
    BY <1>1 DEF CountFollows

\* A client that disconnects takes its request out of the flight.
LEMMA CancelShrinksFlight ==
    ASSUME LifecycleControl, ActiveCoversInFlight, NEW t \in Cancellable, Cancel(t)
    PROVE  ActiveCoversInFlight'
  <1> USE LifecycleFacts, TypeFacts
  <1> SUFFICES ASSUME NEW w \in Workers
               PROVE  active'[w] >= Cardinality(InFlightOn(w)')
    BY DEF ActiveCoversInFlight
  <1>1. InFlightOn(w)' \subseteq InFlightOn(w)
    <2>1. t \in Tasks /\ Requests \subseteq Tasks
      BY LifecycleAssumed DEF Admins
    <2>2. pc'[t] \notin InFlight /\ \A u \in Tasks \ {t} : pc'[u] = pc[u] /\ cur'[u] = cur[u]
      BY <2>1 DEF Cancel, Goto, InFlight
    <2> QED
      BY <2>1, <2>2 DEF InFlightOn
  <1>2. Cardinality(InFlightOn(w)') <= Cardinality(InFlightOn(w))
    BY <1>1, InFlightFinite, FS_Subset
  <1>3. active'[w] = active[w]
    BY DEF Cancel
  <1> QED
    BY <1>2, <1>3, InFlightFinite DEF ActiveCoversInFlight

\* Every other step counts what it puts in flight and what it takes out of it.
LEMMA ActiveStillCovers ==
    ASSUME LifecycleControl, LifecycleControl', ActiveCoversInFlight,
           [LifecycleNext]_lifecycleVars
    PROVE  ActiveCoversInFlight'
  <1> USE LifecycleFacts, TypeFacts
  <1>1. CASE CountFollows
    <2>1. active' \in [Workers -> Nat]
      BY DEF LifecycleControl, Control, ServerTypeOK, WorkerTypeOK
    <2> QED
      BY <1>1, <2>1, InFlightFinite DEF CountFollows, ActiveCoversInFlight
  <1>2. ASSUME NEW r \in Requests, RequestNext(r)
        PROVE  CountFollows
    <2>1. CASE HandlerStep(r) \/ Route(r)
      BY <2>1, HandlerStepActive
    <2>2. CASE NextWorkerPanics(r)
      BY <2>2, InFlightKept, LifecycleAssumed DEF NextWorkerPanics, Goto, InFlight
    <2> QED
      BY <1>2, <2>1, <2>2 DEF RequestNext, HandlerNext
  <1>3. WatcherNext => CountFollows
    BY MonitorStepActive DEF WatcherNext
  <1>4. ASSUME NEW t \in Admins, AdminStep(t)
        PROVE  CountFollows
    <2>1. active' = active
      BY <1>4 DEF AdminStep, BeginReload, BeginShutdown, BeginInspection, LockManager,
                LockPool, StopNext, Resize, StartNext, Visit, NextPass, FinishReload,
                FinishInspection, Leave, Exit, vars, WorkerStep, StopOld, Spawn,
                SpawnFails, Ready
    <2>2. \A r \in Requests : r \in Tasks \ {t}
      BY LifecycleAssumed
    <2> QED
      BY <1>4, <2>1, <2>2, AdminMoves, FlightKept
  <1>5. (PhpNext /\ UNCHANGED adminVars) \/ UNCHANGED lifecycleVars => CountFollows
    BY FlightKept DEF PhpNext, lifecycleVars, vars
  <1> QED
    BY <1>1, <1>2, <1>3, <1>4, <1>5, CancelShrinksFlight, ServerSteps DEF LifecycleNext

\* However many clients disconnect, a drain that finds active_requests 0 has no
\* request in flight: what is dropped at an await is counted too often, never too
\* rarely.
THEOREM ActiveAlwaysCovers == LifecycleSpec => []ActiveCoversInFlight
  <1>1. LifecycleInit => ActiveCoversInFlight
    <2> SUFFICES ASSUME LifecycleInit, NEW w \in Workers
                 PROVE  active[w] >= Cardinality(InFlightOn(w))
      BY DEF ActiveCoversInFlight
    <2>1. InFlightOn(w) = {}
      BY LifecycleAssumed DEF LifecycleInit, InFlightOn, InFlight
    <2>2. active[w] = 0
      BY DEF LifecycleInit, WorkerInit
    <2> QED
      BY <2>1, <2>2, FS_EmptySet
  <1>2. LifecycleControl /\ LifecycleControl' /\ ActiveCoversInFlight
          /\ [LifecycleNext]_lifecycleVars => ActiveCoversInFlight'
    BY ActiveStillCovers
  <1> QED
    BY <1>1, <1>2, LifecycleIsControlled, PTL DEF LifecycleSpec

-----------------------------------------------------------------------------
(* When a reload has gone through the pool, every slot is attended. *)

\* What a step of task u other than a spawn does to the slots: it stops a child
\* only under the slot's lock or in stop_all, and gives a lock back only when a
\* start has ended.
Touches(u) ==
    /\ alive' \subseteq alive
    /\ \A w \in Workers : process'[w] # process[w] =>
          /\ process'[w] = None /\ process[w] \notin alive'
          /\ lock[w] \in {None, u}
          /\ lock'[w] = u \/ (u \in Admins /\ pc[u] = "stopping")
    /\ \A w \in Workers : lock[w] # None /\ lock'[w] = None =>
          cur[u] = w /\ (pc[u] = "ready" \/ (pc[u] = "spawn" /\ SpawnMayFail))
    /\ pc'[u] # "ready"
    /\ pc'[u] = "spawn" => u \in Reloaders \/ process'[cur'[u]] = None

\* stop() kills the child of the slot and empties the slot.
LEMMA StopEmpties ==
    ASSUME Control, NEW w \in Workers, Stop(w)
    PROVE  /\ alive' \subseteq alive
           /\ process'[w] = None
           /\ \A v \in Workers \ {w} : process'[v] = process[v]
           /\ process[w] # None => process[w] \notin alive'
  BY TypeFacts DEF Stop, Die, Vanish

\* A step that leaves the children and the locks alone.
LEMMA KeptTouches ==
    ASSUME Control, NEW u \in Tasks, UNCHANGED <<process, lock>>, alive' \subseteq alive,
           pc'[u] \notin {"spawn", "ready"}
    PROVE  Touches(u)
  BY DEF Touches

\* The steps inside an operation.
LEMMA WorkerTouches ==
    ASSUME Control, NEW u \in Tasks, WorkerStep(u), ~Spawn(u)
    PROVE  Touches(u)
  <1> USE TypeFacts
  <1>0. /\ pc[u] \in OperationLabels
        /\ cur[u] \in Workers /\ lock[cur[u]] = u /\ u # None
        /\ call[u].done \in ReturnLabels /\ call[u].failed \in ReturnLabels
    BY OperationCall, LifecycleAssumed
       DEF WorkerStep, StopOld, Spawn, SpawnFails, Ready, OperationLabels
  <1>1. CASE StopOld(u)
    <2>1. UNCHANGED <<lock, cur>> /\ pc'[u] = "spawn" /\ Stop(cur[u])
      BY <1>1 DEF StopOld
    <2> QED
      BY <1>0, <2>1, StopEmpties DEF Touches
  <1>2. CASE SpawnFails(u) \/ Ready(u)
    <2>1. /\ UNCHANGED <<process, alive>>
          /\ pc[u] = "ready" \/ (pc[u] = "spawn" /\ SpawnMayFail)
      BY <1>2 DEF SpawnFails, Ready
    <2>2. lock' = [lock EXCEPT ![cur[u]] = None] /\ pc'[u] \in ReturnLabels
      BY <1>0, <1>2 DEF SpawnFails, Ready, Return, Goto
    <2>3. pc'[u] \notin {"spawn", "ready"}
      BY <2>2 DEF ReturnLabels
    <2> QED
      BY <1>0, <2>1, <2>2, <2>3 DEF Touches
  <1> QED
    BY <1>1, <1>2 DEF WorkerStep

\* ensure_running() empties a slot only to spawn into it.
LEMMA EnsureTouches ==
    ASSUME Control, NEW u \in Tasks, NEW w \in Workers, lock[w] = None,
           NEW c \in Calls \ {NoCall}, EnsureRunning(u, w, c)
    PROVE  Touches(u)
  <1> USE TypeFacts
  <1>1. CASE IsRunning(w)
    <2>1. c.done \in ReturnLabels
      BY DEF Calls
    <2>2. /\ UNCHANGED <<process, lock, alive>>
          /\ pc' = [pc EXCEPT ![u] = c.done]
      BY <1>1 DEF EnsureRunning, Goto
    <2>3. pc'[u] \notin {"spawn", "ready"}
      BY <2>1, <2>2 DEF ReturnLabels
    <2> QED
      BY <2>2, <2>3, KeptTouches
  <1>2. CASE ~IsRunning(w)
    <2>1. /\ lock' = [lock EXCEPT ![w] = u]
          /\ pc'[u] = "spawn" /\ cur'[u] = w
          /\ Stop(w)
      BY <1>2 DEF EnsureRunning, Enter
    <2> QED
      BY <2>1, StopEmpties, LifecycleAssumed DEF Touches
  <1> QED
    BY <1>1, <1>2

\* graceful_recycle() stops nothing when it is entered.
LEMMA RecycleTouches ==
    ASSUME Control, NEW u \in Tasks, NEW w \in Workers, lock[w] = None,
           NEW c \in Calls \ {NoCall}, GracefulRecycle(u, w, c),
           UNCHANGED <<process, alive>>
    PROVE  Touches(u)
  <1> USE TypeFacts
  <1>1. c.done \notin {"spawn", "ready"}
    BY DEF Calls, ReturnLabels
  <1>2. lock' = lock \/ lock' = [lock EXCEPT ![w] = u]
    BY DEF GracefulRecycle, Enter
  <1>3. pc'[u] \notin {"spawn", "ready"}
    BY <1>1 DEF GracefulRecycle, Goto, Enter
  <1> QED
    BY <1>2, <1>3, LifecycleAssumed DEF Touches

\* The steps of a handler.
LEMMA HandlerTouches ==
    ASSUME Control, NEW r \in Requests, HandlerStep(r) \/ Route(r) \/ NextWorkerPanics(r),
           ~Spawn(r)
    PROVE  Touches(r)
  <1> USE TypeFacts, HandlerFacts
  <1>0. /\ {"ensure", "failed", "recycle", "timedout"} \subseteq SlotLabels
        /\ \A l \in HandlerLabels : l \notin {"spawn", "ready"}
        /\ {"idle", "pick", "probe", "ensure", "body", "mark", "connect", "await",
            "ok", "failed", "timedout", "recycle", "panicked"} = HandlerLabels
    BY DEF HandlerLabels, SlotLabels, InFlight
  <1>1. ASSUME NEW l \in HandlerLabels, NEW w, Goto(r, w, l),
               UNCHANGED <<alive, lock, process>>
        PROVE  Touches(r)
    BY <1>0, <1>1, KeptTouches DEF Goto
  <1>2. CASE Route(r) \/ EnterPool(r)
    BY <1>2, KeptTouches DEF Route, EnterPool
  <1>3. CASE ProbeHit(r) \/ Fallback(r) \/ NextWorkerPanics(r)
    BY <1>0, <1>1, <1>3 DEF ProbeHit, Fallback, Choose, NextWorkerPanics
  <1>4. CASE ProbeMiss(r)
    BY <1>4, KeptTouches DEF ProbeMiss
  <1>5. CASE EnsureBefore(r)
    BY <1>0, <1>5, EnsureTouches, CallFacts DEF EnsureBefore, Control
  <1>6. CASE ReadBody(r) \/ RefuseBody(r) \/ MarkActive(r)
    BY <1>0, <1>1, <1>6 DEF ReadBody, RefuseBody, MarkActive
  <1>7. CASE Connect(r) \/ ConnectRefused(r)
    BY <1>0, <1>1, <1>7 DEF Connect, ConnectRefused, Dial
  <1>8. CASE Receive(r) \/ Timeout(r)
    BY <1>0, <1>1, <1>8 DEF Receive, Timeout, HangUp, Abandon
  <1>9. CASE Settle(r)
    <2>1. PICK l \in {"recycle", "idle"} : Goto(r, cur[r], l)
      BY <1>9 DEF Settle
    <2> QED
      BY <1>0, <1>1, <1>9, <2>1 DEF Settle
  <1>10. CASE RecycleAfter(r)
    BY <1>0, <1>10, RecycleTouches, CallFacts DEF RecycleAfter, Control
  <1>11. CASE SettleFailed(r)
    BY <1>0, <1>11, EnsureTouches, CallFacts DEF SettleFailed, Control
  <1>12. CASE SettleTimedOut(r)
    BY <1>0, <1>12, RecycleTouches, CallFacts DEF SettleTimedOut, Control
  <1>13. CASE WorkerStep(r)
    BY <1>13, WorkerTouches
  <1> QED
    BY <1>2, <1>3, <1>4, <1>5, <1>6, <1>7, <1>8, <1>9, <1>10, <1>11, <1>12,
       <1>13 DEF HandlerStep

\* The steps of the monitor.
LEMMA MonitorTouches ==
    ASSUME Control, MonitorNext, ~Spawn(Monitor)
    PROVE  Touches(Monitor)
  <1> USE TypeFacts, CallFacts
  <1>0. Monitor \in Tasks
    BY LifecycleAssumed
  <1>1. CASE Wake(pmLock) \/ Snapshot(poolLock, pool)
    BY <1>0, <1>1, KeptTouches DEF Wake, Snapshot
  <1>2. CASE SweepTrack
    BY <1>0, <1>2, KeptTouches DEF SweepTrack
  <1>3. CASE EndRound
    BY <1>0, <1>3, KeptTouches DEF EndRound, Goto
  <1>4. CASE SweepRecycle
    <2>1. Head(todo) \in Workers
      BY <1>4 DEF SweepRecycle, MonitorTypeOK
    <2> QED
      BY <1>0, <1>4, <2>1, RecycleTouches DEF SweepRecycle
  <1>5. CASE Evict
    <2>1. heaviest.slot \in Workers
      BY <1>5 DEF Evict, MonitorTypeOK
    <2> QED
      BY <1>0, <1>5, <2>1, RecycleTouches DEF Evict
  <1>6. CASE WorkerStep(Monitor)
    BY <1>0, <1>6, WorkerTouches
  <1> QED
    BY <1>1, <1>2, <1>3, <1>4, <1>5, <1>6 DEF MonitorNext

\* The steps of the admin tasks.
LEMMA AdminTouches ==
    ASSUME LifecycleControl, NEW t \in Admins, AdminStep(t), ~Spawn(t)
    PROVE  Touches(t)
  <1> USE LifecycleFacts, TypeFacts
  <1>0. t \in Tasks /\ t # None
    BY LifecycleAssumed
  <1>1. CASE BeginReload(t) \/ BeginShutdown(t) \/ BeginInspection(t) \/ LockManager(t)
    BY <1>0, <1>1, KeptTouches
       DEF BeginReload, BeginShutdown, BeginInspection, LockManager
  <1>2. CASE LockPool(t) \/ Resize(t)
    BY <1>0, <1>2, KeptTouches DEF LockPool, Resize
  <1>3. CASE StopNext(t)
    <2>1. /\ pc[t] = "stopping" /\ UNCHANGED <<lock, pc>> /\ Stop(NextSlot(t))
          /\ lock[NextSlot(t)] = None /\ NextSlot(t) \in Workers
      BY <1>0, <1>3, NextSlotType DEF StopNext, VisitNext
    <2> QED
      BY <1>0, <2>1, StopEmpties DEF Touches
  <1>4. CASE t \in Reloaders /\ StartNext(t)
    <2>1. /\ NextSlot(t) \in Workers /\ UNCHANGED <<alive, process>>
          /\ lock[NextSlot(t)] = None
          /\ lock' = [lock EXCEPT ![NextSlot(t)] = t]
          /\ pc'[t] = "spawn"
      BY <1>0, <1>4, NextSlotType DEF StartNext, VisitNext, Enter
    <2> QED
      BY <1>0, <1>4, <2>1 DEF Touches
  <1>5. CASE Visit(t) \/ NextPass(t) \/ FinishReload(t) \/ FinishInspection(t) \/ Exit(t)
    BY <1>0, <1>5, KeptTouches
       DEF Visit, VisitNext, NextPass, FinishReload, FinishInspection, Leave, Exit, vars
  <1>6. CASE WorkerStep(t)
    BY <1>0, <1>6, WorkerTouches
  <1> QED
    BY <1>1, <1>2, <1>3, <1>4, <1>5, <1>6 DEF AdminStep

\* Only a task that runs operations touches slots, and a spawn fills the slot it
\* works with.
LEMMA SpawnFills ==
    ASSUME Control, NEW u \in Tasks, Spawn(u)
    PROVE  /\ cur[u] \in Workers /\ lock[cur[u]] = u
           /\ UNCHANGED <<lock, cur>>
           /\ pc[u] = "spawn" /\ pc'[u] = "ready"
           /\ \E p \in Pids : /\ p # None /\ p \notin alive
                              /\ \A w \in Workers : process[w] # p
                              /\ alive' = alive \cup {p}
                              /\ process' = [process EXCEPT ![cur[u]] = p]
  <1>1. /\ cur[u] \in Workers /\ lock[cur[u]] = u
    BY OperationCall DEF Spawn, OperationLabels
  <1>2. PICK p \in FreshPids : /\ Launch(p, SocketOf[cur[u]])
                               /\ process' = [process EXCEPT ![cur[u]] = p]
    BY DEF Spawn
  <1>3. /\ p \in Pids /\ p \notin alive /\ p # None
        /\ \A w \in Workers : process[w] # p
    BY <1>2, Assumptions DEF FreshPids, ServerAssumption
  <1>4. UNCHANGED <<lock, cur>> /\ pc[u] = "spawn" /\ pc'[u] = "ready"
    BY TypeFacts DEF Spawn
  <1> QED
    BY <1>1, <1>2, <1>3, <1>4 DEF Launch

\* Whoever steps, the step is one task's, a disconnect or one of PHP's.
LEMMA StepOfOne ==
    ASSUME LifecycleControl, [LifecycleNext]_lifecycleVars
    PROVE  \/ \E u \in Tasks :
                /\ \A v \in Tasks \ {u} : pc'[v] = pc[v] /\ cur'[v] = cur[v]
                /\ Spawn(u) \/ Touches(u)
           \/ \E t \in Cancellable : Cancel(t)
           \/ UNCHANGED <<process, lock, pc, cur>> /\ alive' \subseteq alive
  <1> USE LifecycleFacts
  <1>1. ASSUME NEW r \in Requests, RequestNext(r)
        PROVE  \E u \in Tasks :
                 /\ \A v \in Tasks \ {u} : pc'[v] = pc[v] /\ cur'[v] = cur[v]
                 /\ Spawn(u) \/ Touches(u)
    <2>1. HandlerStep(r) \/ Route(r) \/ NextWorkerPanics(r)
      BY <1>1 DEF RequestNext, HandlerNext
    <2>2. r \in Tasks /\ (Spawn(r) \/ Touches(r))
      BY <2>1, HandlerTouches, LifecycleAssumed
    <2>3. \A v \in Tasks \ {r} : pc'[v] = pc[v] /\ cur'[v] = cur[v]
      BY <2>1, HandlerMoves
    <2> QED
      BY <2>2, <2>3
  <1>2. ASSUME WatcherNext
        PROVE  \E u \in Tasks :
                 /\ \A v \in Tasks \ {u} : pc'[v] = pc[v] /\ cur'[v] = cur[v]
                 /\ Spawn(u) \/ Touches(u)
    BY <1>2, MonitorTouches, MonitorMoves, LifecycleAssumed DEF WatcherNext
  <1>3. ASSUME NEW t \in Admins, AdminStep(t)
        PROVE  \E u \in Tasks :
                 /\ \A v \in Tasks \ {u} : pc'[v] = pc[v] /\ cur'[v] = cur[v]
                 /\ Spawn(u) \/ Touches(u)
    BY <1>3, AdminTouches, AdminMoves, LifecycleAssumed
  <1>4. PhpNext => UNCHANGED <<process, lock, pc, cur>> /\ alive' \subseteq alive
    BY DEF PhpNext, ProcNext, Boot, Accept, Respond, CloseSilently, Close, Crash, Die,
           Terminate, Vanish
  <1>5. UNCHANGED lifecycleVars => UNCHANGED <<process, lock, pc, cur, alive>>
    BY DEF lifecycleVars, vars
  <1> QED
    BY <1>1, <1>2, <1>3, <1>4, <1>5, ServerSteps DEF LifecycleNext

\* The holder of the pool's mutex is alone in the pool.
LEMMA AloneInPool ==
    ASSUME LifecycleControl, NEW t \in Reloaders, Starting(t)
    PROVE  /\ t \in Tasks /\ poolLock = t /\ pmLock = t
           /\ \A u \in Admins : u # t => pc[u] \in {"rest", "manager", "pool"}
  <1>1. t \in Admins /\ t \in Tasks /\ Admins \subseteq Tasks
    BY LifecycleAssumed DEF Admins
  <1>2. pc[t] \notin {"rest", "manager", "pool"}
    BY AdminLabelFacts DEF Starting
  <1> QED
    BY <1>1, <1>2, LifecycleFacts DEF PoolLocksAreOwned, UnderPool, UnderManager

\* A start that waits for its process has one.
LEMMA ReadyKept ==
    ASSUME LifecycleControl, [LifecycleNext]_lifecycleVars,
           \A t \in Tasks : pc[t] = "ready" => process[cur[t]] # None,
           NEW t \in Tasks, pc'[t] = "ready"
    PROVE  process'[cur'[t]] # None
  <1> USE LifecycleFacts, TypeFacts
  <1>1. pc[t] = "ready" => cur[t] \in Workers /\ lock[cur[t]] = t /\ t # None
    BY OperationCall, LifecycleAssumed DEF OperationLabels
  <1>2. ASSUME NEW u \in Tasks, Spawn(u),
               \A v \in Tasks \ {u} : pc'[v] = pc[v] /\ cur'[v] = cur[v]
        PROVE  process'[cur'[t]] # None
    <2>1. PICK p \in Pids : p # None /\ process' = [process EXCEPT ![cur[u]] = p]
      BY <1>2, SpawnFills
    <2>2. cur' = cur /\ cur[u] \in Workers
      BY <1>2, SpawnFills
    <2>3. CASE t = u
      BY <2>1, <2>2, <2>3
    <2>4. CASE t # u
      BY <1>1, <1>2, <2>1, <2>2, <2>4
    <2> QED
      BY <2>3, <2>4
  <1>3. ASSUME NEW u \in Tasks, Touches(u),
               \A v \in Tasks \ {u} : pc'[v] = pc[v] /\ cur'[v] = cur[v]
        PROVE  process'[cur'[t]] # None
    <2>1. t # u /\ pc[t] = "ready" /\ cur'[t] = cur[t]
      BY <1>3 DEF Touches
    <2>2. process'[cur[t]] = process[cur[t]]
      BY <1>1, <1>3, <2>1 DEF Touches
    <2> QED
      BY <2>1, <2>2
  <1>4. ASSUME NEW u \in Cancellable, Cancel(u)
        PROVE  process'[cur'[t]] # None
    <2>1. u \in Tasks
      BY LifecycleAssumed DEF Admins
    <2>2. pc'[t] = pc[t] /\ cur'[t] = cur[t] /\ process' = process
      BY <1>4, <2>1 DEF Cancel, Goto
    <2> QED
      BY <2>2
  <1> QED
    BY <1>2, <1>3, <1>4, StepOfOne

\* While a reload starts slots, no step takes from a slot both its child and its
\* lock.
LEMMA AttendedKept ==
    ASSUME LifecycleControl, [LifecycleNext]_lifecycleVars,
           ~SpawnMayFail, Cancellable \cap Requests = {},
           \A t \in Tasks : pc[t] = "ready" => process[cur[t]] # None,
           NEW t \in Reloaders, Starting(t), Starting(t)',
           NEW w \in Workers, Attended(w)
    PROVE  Attended(w)'
  <1> USE LifecycleFacts, TypeFacts, AloneInPool
  <1>1. ASSUME NEW u \in Tasks, Spawn(u)
        PROVE  Attended(w)'
    <2>1. PICK p \in Pids : p # None /\ process' = [process EXCEPT ![cur[u]] = p]
      BY <1>1, SpawnFills
    <2>2. lock' = lock /\ cur[u] \in Workers
      BY <1>1, SpawnFills
    <2> QED
      BY <2>1, <2>2 DEF Attended
  <1>2. ASSUME NEW u \in Tasks, Touches(u)
        PROVE  Attended(w)'
    <2>1. ~(u \in Admins /\ pc[u] = "stopping")
      BY AdminLabelFacts DEF Starting
    <2>2. CASE process[w] # None
      BY <1>2, <2>1, <2>2, LifecycleAssumed DEF Touches, Attended
    <2>3. CASE process[w] = None /\ lock'[w] = None
      <3>1. cur[u] = w /\ pc[u] = "ready"
        BY <1>2, <2>3 DEF Touches, Attended
      <3> QED
        BY <2>3, <3>1
    <2> QED
      BY <2>2, <2>3 DEF Attended
  <1>3. ASSUME NEW u \in Cancellable, Cancel(u)
        PROVE  Attended(w)'
    <2>1. u \in Admins /\ u \in Tasks
      BY LifecycleAssumed DEF Admins
    <2>2. pc'[u] = "rest"
      BY <1>3, <2>1, LifecycleAssumed DEF Cancel, Goto
    <2>3. u # t
      BY <2>2, AdminLabelFacts DEF Starting
    <2>4. pc[u] \notin OperationLabels
      BY <2>1, <2>3, AdminLabelFacts
    <2>5. lock[w] # u
      BY <2>1, <2>4, HoldsNoSlot
    <2> QED
      BY <1>3, <2>5 DEF Cancel, Released, Attended
  <1> QED
    BY <1>1, <1>2, <1>3, StepOfOne DEF Attended

\* How a reload comes to the steps from the first start to the last, and what it
\* does there to the pool and its place in it.
LEMMA StartingStep ==
    ASSUME LifecycleControl, [LifecycleNext]_lifecycleVars,
           NEW t \in Reloaders, Starting(t)'
    PROVE  \/ ~Starting(t) /\ Resize(t)
           \/ Starting(t) /\ StartNext(t)
           \/ Starting(t) /\ pool' = pool /\ at'[t] = at[t]
  <1> USE LifecycleFacts, AdminLabelFacts
  <1>0. t \in Tasks /\ t \in Admins /\ t \notin Requests /\ t # Monitor
    BY LifecycleAssumed DEF Admins
  <1>1. ASSUME NEW r \in Requests, RequestNext(r)
        PROVE  Starting(t) /\ pool' = pool /\ at'[t] = at[t]
    <2>1. /\ HandlerStep(r) \/ Route(r) \/ NextWorkerPanics(r)
          /\ at' = at
      BY <1>1 DEF RequestNext, HandlerNext, Follow
    <2> QED
      BY <1>0, <2>1, HandlerMoves, LifecycleAssumed DEF Starting
  <1>2. ASSUME WatcherNext
        PROVE  Starting(t) /\ pool' = pool /\ at'[t] = at[t]
    <2>1. MonitorNext /\ at' = at
      BY <1>2 DEF WatcherNext, Follow
    <2> QED
      BY <1>0, <2>1, MonitorMoves DEF Starting
  <1>3. ASSUME NEW u \in Admins, AdminStep(u), u # t
        PROVE  Starting(t) /\ pool' = pool /\ at'[t] = at[t]
    <2>0. u \in Tasks
      BY LifecycleAssumed
    <2>1. Starting(t)
      BY <1>0, <1>3, AdminMoves DEF Starting
    <2>2. pc[u] \in {"rest", "manager", "pool"} /\ poolLock = t /\ t # None
      BY <1>3, <2>1, AloneInPool, LifecycleAssumed
    <2>3. CASE BeginReload(u) \/ BeginShutdown(u) \/ BeginInspection(u) \/ LockManager(u)
      BY <2>1, <2>3 DEF BeginReload, BeginShutdown, BeginInspection, LockManager
    <2>4. ~(LockPool(u) \/ StopNext(u) \/ Resize(u) \/ StartNext(u) \/ Visit(u) \/ NextPass(u)
              \/ FinishReload(u) \/ FinishInspection(u) \/ Exit(u))
      BY <2>2 DEF LockPool, StopNext, Resize, StartNext, VisitNext, Visit, NextPass, FinishReload,
                  FinishInspection, Exit
    <2>5. ~WorkerStep(u)
      BY <2>0, <2>2, WorkerMoves
    <2> QED
      BY <1>3, <2>3, <2>4, <2>5 DEF AdminStep
  <1>4. ASSUME AdminStep(t)
        PROVE  \/ ~Starting(t) /\ Resize(t)
               \/ Starting(t) /\ StartNext(t)
               \/ Starting(t) /\ pool' = pool /\ at'[t] = at[t]
    <2>1. CASE Resize(t)
      BY <2>1 DEF Resize, Starting
    <2>2. CASE StartNext(t)
      BY <2>2 DEF StartNext, VisitNext, Starting
    <2>3. CASE WorkerStep(t) /\ UNCHANGED <<poolVars, monitorVars>> /\ Follow(t)
      BY <1>0, <2>3, WorkerMoves DEF Follow, Starting
    <2>4. CASE BeginReload(t) \/ BeginShutdown(t) \/ BeginInspection(t) \/ LockManager(t)
                 \/ LockPool(t) \/ NextPass(t)
      BY <1>0, <2>4 DEF BeginReload, BeginShutdown, BeginInspection, LockManager, LockPool,
                NextPass, Starting
    <2>5. CASE StopNext(t) \/ Visit(t) \/ Exit(t)
      BY <1>0, <2>5 DEF StopNext, Visit, VisitNext, Exit, vars, Starting
    <2>6. CASE FinishReload(t) \/ FinishInspection(t)
      BY <1>0, <2>6 DEF FinishReload, FinishInspection, Leave, Starting
    <2> QED
      BY <1>4, <2>1, <2>2, <2>3, <2>4, <2>5, <2>6 DEF AdminStep
  <1>5. ASSUME NEW u \in Cancellable, Cancel(u)
        PROVE  Starting(t) /\ pool' = pool /\ at'[t] = at[t]
    <2>1. u \in Tasks
      BY LifecycleAssumed DEF Admins
    <2>2. /\ pc'[u] \in {"idle", "rest"} /\ \A v \in Tasks \ {u} : pc'[v] = pc[v]
          /\ \A v \in Tasks \ {u} : at'[v] = at[v]
          /\ pool' = pool
      BY <1>5, <2>1 DEF Cancel, Goto
    <2> QED
      BY <1>0, <2>2 DEF Starting
  <1>6. ASSUME (PhpNext /\ UNCHANGED adminVars) \/ UNCHANGED lifecycleVars
        PROVE  Starting(t) /\ pool' = pool /\ at'[t] = at[t]
    BY <1>6 DEF PhpNext, lifecycleVars, vars, Starting
  <1> QED
    BY <1>1, <1>2, <1>3, <1>4, <1>5, <1>6, ServerSteps DEF LifecycleNext

\* Every step keeps what the reload has gone through attended.
LEMMA PassedStep ==
    ASSUME LifecycleControl, [LifecycleNext]_lifecycleVars,
           ~SpawnMayFail, Cancellable \cap Requests = {}, PassedAttended
    PROVE  PassedAttended'
  <1> USE LifecycleFacts
  <1>1. \A t \in Tasks : pc'[t] = "ready" => process'[cur'[t]] # None
    BY ReadyKept DEF PassedAttended
  <1>2. ASSUME NEW t \in Reloaders, Starting(t)', NEW i \in DOMAIN pool', i <= at'[t]
        PROVE  Attended(pool[i])'
    <2>0. t \in Tasks /\ pool \in Seq(Workers)
      BY LifecycleAssumed, TypeFacts DEF Admins, PoolTypeOK
    <2>1. CASE Resize(t)
      <3>1. at'[t] = 0
        BY <2>0, <2>1 DEF Resize
      <3>2. pool' \in Seq(Workers)
        BY LifecycleStep DEF LifecycleControl, LifecycleTypeOK, ServerTypeOK, PoolTypeOK
      <3>3. i \in Nat /\ i > 0
        BY <1>2, <3>2
      <3> QED
        BY <1>2, <3>1, <3>3
    <2>2. CASE Starting(t) /\ i <= at[t] /\ pool' = pool
      <3>1. pool[i] \in Workers /\ Attended(pool[i])
        BY <1>2, <2>0, <2>2 DEF PassedAttended
      <3>2. \A w \in Workers : Attended(w) => process'[w] # None \/ lock'[w] # None
        BY <1>2, <2>2, AttendedKept DEF PassedAttended, Attended
      <3> QED
        BY <2>2, <3>1, <3>2 DEF Attended
    <2>3. CASE Starting(t) /\ StartNext(t) /\ ~(i <= at[t])
      <3>1. /\ at' = [at EXCEPT ![t] = @ + 1] /\ pool' = pool
            /\ lock' = [lock EXCEPT ![NextSlot(t)] = t]
            /\ at[t] < Len(pool)
        BY <2>3 DEF StartNext, VisitNext, Enter
      <3>5. at[t] \in Nat /\ at'[t] = at[t] + 1 /\ i \in Nat
        BY <1>2, <2>0, <3>1
      <3>2. i = at[t] + 1
        <4>1. i <= at[t] + 1 /\ ~(i <= at[t])
          BY <1>2, <2>3, <3>5
        <4> QED
          BY <3>5, <4>1
      <3>3. pool'[i] = NextSlot(t) /\ NextSlot(t) \in Workers
        <4>1. NextSlot(t) \in Workers
          BY <2>0, <3>1, NextSlotType
        <4> QED
          BY <3>1, <3>2, <4>1 DEF NextSlot
      <3>4. lock'[pool'[i]] # None
        BY <2>0, <3>1, <3>3, TypeFacts, LifecycleAssumed
      <3> QED
        BY <3>4 DEF Attended
    <2>4. StartNext(t) => pool' = pool
      BY DEF StartNext
    <2> QED
      BY <1>2, <2>1, <2>2, <2>3, <2>4, StartingStep
  <1> QED
    BY <1>1, <1>2 DEF PassedAttended

\* start_all takes up every slot that stop_all has stopped: when the reload has
\* gone through the pool, each slot has a child or is in the hands of a handler or
\* of the monitor that is about to start one, whatever they did to the slots in
\* between.  That is so as long as no spawn fails and no client leaves a handler
\* with the slot it has emptied.
THEOREM ReloadsStartEverySlot == LifecycleSpec => []ReloadStartsEverySlot
  <1>1. CASE ~SpawnMayFail /\ Cancellable \cap Requests = {}
    <2>1. LifecycleInit => PassedAttended
      <3> SUFFICES ASSUME LifecycleInit PROVE PassedAttended
        OBVIOUS
      <3>1. \A t \in Tasks : pc[t] \in {"sleep", "rest", "idle"}
        BY DEF LifecycleInit
      <3> QED
        BY <3>1, LifecycleAssumed DEF PassedAttended, Starting, OperationLabels, Admins
    <2>2. LifecycleControl /\ PassedAttended /\ [LifecycleNext]_lifecycleVars => PassedAttended'
      BY <1>1, PassedStep
    <2>3. LifecycleControl /\ PassedAttended => ReloadStartsEverySlot
      <3> SUFFICES ASSUME LifecycleControl, PassedAttended,
                          NEW t \in Reloaders, pc[t] = "starting", PassEnds(t),
                          NEW w \in SlotsIn(pool)
                   PROVE  Attended(w)
        BY DEF ReloadStartsEverySlot
      <3>1. pool \in Seq(Workers)
        BY LifecycleFacts, TypeFacts DEF PoolTypeOK
      <3>2. PICK i \in DOMAIN pool : w = pool[i]
        BY DEF SlotsIn
      <3>3. i <= at[t]
        BY <3>1 DEF PassEnds
      <3> QED
        BY <3>2, <3>3 DEF PassedAttended, Starting
    <2> QED
      BY <2>1, <2>2, <2>3, LifecycleIsControlled, PTL DEF LifecycleSpec
  <1>2. CASE ~(~SpawnMayFail /\ Cancellable \cap Requests = {})
    <2>1. ReloadStartsEverySlot
      BY <1>2 DEF ReloadStartsEverySlot
    <2> QED
      BY <2>1, PTL
  <1> QED
    BY <1>1, <1>2

-----------------------------------------------------------------------------
(* A reload costs at most one process per slot. *)

\* The slot of the round robin is one of the pool.
LEMMA CandidateInPool ==
    ASSUME Control, pool # <<>>
    PROVE  Candidate \in SlotsIn(pool)
  <1>1. pool \in Seq(Workers) /\ current \in Nat /\ current < Len(pool)
    BY TypeFacts DEF PoolTypeOK
  <1>2. current + 1 \in DOMAIN pool
    BY <1>1
  <1> QED
    BY <1>2 DEF Candidate, SlotsIn

\* A handler works with the slot it has, or with the next one of the round robin.
LEMMA HandlerUses ==
    ASSUME Control, NEW r \in Requests, RequestNext(r)
    PROVE  cur'[r] \in SlotsIn(pool) \cup {None, cur[r]}
  <1> USE TypeFacts
  <1>0. r \in Tasks
    BY LifecycleAssumed
  <1>1. CASE Route(r) \/ EnterPool(r) \/ ProbeMiss(r)
    BY <1>1 DEF Route, EnterPool, ProbeMiss
  <1>2. CASE ProbeHit(r) \/ Fallback(r)
    <2>1. CASE pool # <<>>
      BY <1>0, <1>2, <2>1, CandidateInPool DEF ProbeHit, Fallback, Choose, Goto
    <2>2. CASE pool = <<>>
      <3>1. NextWorkerPanics(r)
        BY <1>2, <2>2 DEF RequestNext, ProbeHit, Fallback, Route
      <3> QED
        BY <1>0, <3>1 DEF NextWorkerPanics, Goto
    <2> QED
      BY <2>1, <2>2
  <1>3. CASE EnsureBefore(r) \/ SettleFailed(r)
    BY <1>0, <1>3 DEF EnsureBefore, SettleFailed, EnsureRunning, Goto, Enter
  <1>4. CASE ReadBody(r) \/ RefuseBody(r) \/ MarkActive(r)
    BY <1>0, <1>4 DEF ReadBody, RefuseBody, MarkActive, Goto
  <1>5. CASE Connect(r) \/ ConnectRefused(r) \/ Receive(r) \/ Timeout(r)
    BY <1>0, <1>5 DEF Connect, ConnectRefused, Receive, Timeout, Goto
  <1>6. CASE Settle(r)
    <2>1. PICK l \in {"recycle", "idle"} : Goto(r, cur[r], l)
      BY <1>6 DEF Settle
    <2> QED
      BY <1>0, <2>1 DEF Goto
  <1>7. CASE RecycleAfter(r) \/ SettleTimedOut(r)
    BY <1>0, <1>7 DEF RecycleAfter, SettleTimedOut, GracefulRecycle, Goto, Enter
  <1>8. CASE WorkerStep(r)
    BY <1>0, <1>8 DEF WorkerStep, StopOld, Spawn, SpawnFails, Ready, Return, Goto
  <1>9. CASE NextWorkerPanics(r)
    BY <1>0, <1>9 DEF NextWorkerPanics, Goto
  <1> QED
    BY <1>1, <1>2, <1>3, <1>4, <1>5, <1>6, <1>7, <1>8, <1>9
       DEF RequestNext, HandlerNext, HandlerStep

\* The monitor works with the slots of its snapshot and with its candidate.
LEMMA MonitorUses ==
    ASSUME Control, MonitorNext
    PROVE  /\ cur'[Monitor] \in SlotsIn(todo) \cup {None, heaviest.slot, cur[Monitor]}
           /\ SlotsIn(todo') \subseteq SlotsIn(todo) \cup SlotsIn(pool)
           /\ heaviest'.slot \in SlotsIn(todo) \cup {None, heaviest.slot}
  <1> USE TypeFacts
  <1>0. Monitor \in Tasks /\ todo \in Seq(Workers)
    BY LifecycleAssumed DEF MonitorTypeOK
  <1>1. todo # <<>> =>
          /\ Head(todo) \in SlotsIn(todo)
          /\ SlotsIn(Tail(todo)) \subseteq SlotsIn(todo)
    <2> SUFFICES ASSUME todo # <<>>
                 PROVE  /\ Head(todo) \in SlotsIn(todo)
                        /\ SlotsIn(Tail(todo)) \subseteq SlotsIn(todo)
      OBVIOUS
    <2>1. 1 \in DOMAIN todo /\ Head(todo) = todo[1]
      BY <1>0
    <2>2. ASSUME NEW i \in DOMAIN Tail(todo)
          PROVE  i + 1 \in DOMAIN todo /\ Tail(todo)[i] = todo[i + 1]
      BY <1>0
    <2> QED
      BY <2>1, <2>2 DEF SlotsIn
  <1>2. CASE Wake(pmLock)
    BY <1>2 DEF Wake
  <1>3. CASE Snapshot(poolLock, pool)
    BY <1>3 DEF Snapshot
  <1>4. CASE SweepRecycle
    BY <1>0, <1>1, <1>4 DEF SweepRecycle, GracefulRecycle, Goto, Enter
  <1>5. CASE SweepTrack
    <2>1. todo # <<>> /\ todo' = Tail(todo) /\ cur' = cur
      BY <1>5 DEF SweepTrack
    <2>2. PICK level \in Observed(Head(todo), process[Head(todo)]) :
            heaviest' = IF pressure /\ level > heaviest.level
                          THEN [slot |-> Head(todo), level |-> level] ELSE heaviest
      BY <1>5 DEF SweepTrack
    <2>3. heaviest'.slot \in {Head(todo), heaviest.slot}
      BY <2>2
    <2> QED
      BY <1>1, <2>1, <2>3
  <1>6. CASE EndRound
    BY <1>0, <1>6 DEF EndRound, Goto
  <1>7. CASE Evict
    <2>1. heaviest'.slot = None /\ todo' = todo
      BY <1>7 DEF Evict, NoCandidate
    <2>2. cur'[Monitor] \in {None, heaviest.slot}
      BY <1>0, <1>7 DEF Evict, GracefulRecycle, Goto, Enter
    <2> QED
      BY <2>1, <2>2
  <1>8. CASE WorkerStep(Monitor) /\ UNCHANGED <<poolVars, monitorVars>>
    BY <1>0, <1>8 DEF WorkerStep, StopOld, Spawn, SpawnFails, Ready, Return, Goto
  <1> QED
    BY <1>2, <1>3, <1>4, <1>5, <1>6, <1>7, <1>8 DEF MonitorNext

\* An admin task works with the slots of the pool.
LEMMA AdminUses ==
    ASSUME LifecycleControl, NEW t \in Admins, AdminStep(t)
    PROVE  /\ cur'[t] \in SlotsIn(pool) \cup {None, cur[t]}
           /\ UNCHANGED monitorVars
           /\ t \in Reloaders /\ pc[t] # "drain" => pc'[t] # "drain"
  <1> USE TypeFacts, LifecycleFacts
  <1>0. t \in Tasks
    BY LifecycleAssumed
  <1>1. CASE BeginReload(t) \/ BeginShutdown(t) \/ BeginInspection(t) \/ LockManager(t)
               \/ LockPool(t) \/ NextPass(t)
    BY <1>0, <1>1 DEF BeginReload, BeginShutdown, BeginInspection, LockManager, LockPool,
              NextPass
  <1>2. CASE StopNext(t) \/ Visit(t) \/ Exit(t) \/ Resize(t)
    BY <1>0, <1>2 DEF StopNext, VisitNext, Visit, Exit, vars, Resize
  <1>3. CASE FinishReload(t) \/ FinishInspection(t)
    BY <1>0, <1>3 DEF FinishReload, FinishInspection, Leave
  <1>4. CASE StartNext(t)
    <2>1. at[t] + 1 \in DOMAIN pool
      BY <1>0, <1>4, NextSlotType DEF StartNext, VisitNext
    <2>2. NextSlot(t) \in SlotsIn(pool)
      BY <2>1 DEF NextSlot, SlotsIn
    <2> QED
      BY <1>0, <1>4, <2>2 DEF StartNext, VisitNext, Enter
  <1>5. CASE WorkerStep(t) /\ UNCHANGED <<poolVars, monitorVars>>
    <2>1. cur'[t] \in {None, cur[t]}
      BY <1>0, <1>5 DEF WorkerStep, StopOld, Spawn, SpawnFails, Ready, Return, Goto
    <2>2. pc[t] # "drain" => pc'[t] # "drain"
      <3>1. pc[t] \in OperationLabels /\ call[t].done \in ReturnLabels
              /\ call[t].failed \in ReturnLabels
        BY <1>0, <1>5, WorkerMoves, OperationCall
      <3>2. "drain" \notin ReturnLabels
        BY DEF ReturnLabels
      <3> QED
        BY <1>0, <1>5, <3>1, <3>2 DEF WorkerStep, StopOld, Spawn, SpawnFails, Ready, Return, Goto
    <2> QED
      BY <1>5, <2>1, <2>2
  <1> QED
    BY <1>1, <1>2, <1>3, <1>4, <1>5 DEF AdminStep

\* No task comes by a slot that the pool, the snapshot or the candidate does not have.
LEMMA UsesStep ==
    ASSUME LifecycleControl, [LifecycleNext]_lifecycleVars
    PROVE  /\ \A t \in Tasks :
                cur'[t] \in SlotsIn(pool) \cup SlotsIn(todo) \cup {None, heaviest.slot, cur[t]}
           /\ SlotsIn(todo') \subseteq SlotsIn(todo) \cup SlotsIn(pool)
           /\ heaviest'.slot \in SlotsIn(todo) \cup {None, heaviest.slot}
           /\ \A t \in Reloaders : pc[t] # "drain" => pc'[t] # "drain"
  <1> USE LifecycleFacts
  <1>0. Reloaders \subseteq Admins /\ Admins \subseteq Tasks \ (Requests \cup {Monitor})
    BY LifecycleAssumed DEF Admins
  <1>1. ASSUME NEW r \in Requests, RequestNext(r)
        PROVE  /\ UNCHANGED monitorVars /\ cur'[r] \in SlotsIn(pool) \cup {None, cur[r]}
               /\ r \in Tasks
               /\ \A u \in Tasks \ {r} : pc'[u] = pc[u] /\ cur'[u] = cur[u]
    <2>1. UNCHANGED monitorVars /\ (HandlerStep(r) \/ Route(r) \/ NextWorkerPanics(r))
      BY <1>1 DEF RequestNext, HandlerNext, NextWorkerPanics
    <2> QED
      BY <1>1, <2>1, HandlerUses, HandlerMoves, LifecycleAssumed
  <1>2. ASSUME WatcherNext
        PROVE  /\ MonitorNext /\ Monitor \in Tasks
               /\ \A u \in Tasks \ {Monitor} : pc'[u] = pc[u] /\ cur'[u] = cur[u]
    BY <1>2, MonitorMoves, LifecycleAssumed DEF WatcherNext
  <1>3. ASSUME NEW t \in Cancellable, Cancel(t)
        PROVE  /\ UNCHANGED monitorVars /\ t \in Tasks
               /\ cur'[t] = None /\ pc'[t] \in {"idle", "rest"}
               /\ \A u \in Tasks \ {t} : pc'[u] = pc[u] /\ cur'[u] = cur[u]
    <2>1. t \in Tasks
      BY LifecycleAssumed DEF Admins
    <2> QED
      BY <1>3, <2>1, TypeFacts DEF Cancel, Goto
  <1>4. (PhpNext /\ UNCHANGED adminVars) \/ UNCHANGED lifecycleVars =>
          UNCHANGED <<monitorVars, cur, pc>>
    BY DEF PhpNext, lifecycleVars, vars
  <1>5. CASE \E r \in Requests : RequestNext(r)
    BY <1>0, <1>1, <1>5
  <1>6. CASE WatcherNext
    BY <1>0, <1>2, <1>6, MonitorUses
  <1>7. CASE \E t \in Admins : AdminStep(t)
    BY <1>0, <1>7, AdminUses, AdminMoves
  <1>8. CASE \E t \in Cancellable : Cancel(t)
    BY <1>0, <1>3, <1>8
  <1>9. CASE (PhpNext /\ UNCHANGED adminVars) \/ UNCHANGED lifecycleVars
    BY <1>0, <1>4, <1>9
  <1> QED
    BY <1>5, <1>6, <1>7, <1>8, <1>9, ServerSteps DEF LifecycleNext

\* Only the resize of a reload changes the pool and makes slots.
LEMMA SlotsChange ==
    ASSUME LifecycleControl, [LifecycleNext]_lifecycleVars
    PROVE  UNCHANGED <<pool, made>> \/ \E t \in Reloaders : Resize(t)
  <1> USE LifecycleFacts
  <1>1. ASSUME NEW t \in Admins, AdminStep(t), ~(t \in Reloaders /\ Resize(t))
        PROVE  UNCHANGED <<pool, made>>
    BY <1>1 DEF AdminStep, BeginReload, BeginShutdown, BeginInspection, LockManager, LockPool,
              StopNext, StartNext, Visit, NextPass, FinishReload, FinishInspection,
              Leave, Exit, Follow, vars
  <1>2. ASSUME NEW r \in Requests, RequestNext(r)
        PROVE  UNCHANGED <<pool, made>>
    BY <1>2, HandlerMoves DEF RequestNext, HandlerNext, Follow
  <1>3. WatcherNext => UNCHANGED <<pool, made>>
    BY MonitorMoves DEF WatcherNext, Follow
  <1>4. ASSUME NEW t \in Cancellable, Cancel(t)
        PROVE  UNCHANGED <<pool, made>>
    BY <1>4 DEF Cancel
  <1>5. (PhpNext /\ UNCHANGED adminVars) \/ UNCHANGED lifecycleVars => UNCHANGED <<pool, made>>
    BY DEF PhpNext, lifecycleVars, vars
  <1> QED
    BY <1>1, <1>2, <1>3, <1>4, <1>5, ServerSteps DEF LifecycleNext

\* The pool that a resize leaves behind consists of distinct slots that are made.
LEMMA ResizeMakes ==
    ASSUME LifecycleControl, SlotsAreMade, NEW t \in Reloaders, Resize(t)
    PROVE  /\ made \subseteq made'
           /\ SlotsIn(pool') \subseteq made'
           /\ \A i, j \in DOMAIN pool' : pool'[i] = pool'[j] => i = j
  <1>1. CASE UNCHANGED <<pool, made>>
    BY <1>1 DEF SlotsAreMade
  <1>2. CASE WorkerCount[poolConf] # Len(pool)
    <2>1. PICK slots \in NewSlots(WorkerCount[poolConf]) :
            pool' = slots /\ made' = made \cup SlotsIn(slots)
      BY <1>2 DEF Resize
    <2>2. /\ DOMAIN slots = 1..WorkerCount[poolConf]
          /\ \A i, j \in 1..WorkerCount[poolConf] : slots[i] = slots[j] => i = j
      BY <2>1 DEF NewSlots
    <2> QED
      BY <2>1, <2>2
  <1> QED
    BY <1>1, <1>2 DEF Resize

\* At first the slots of the pool are the ones made.
LEMMA MadeInit == LifecycleInit => SlotsAreMade
  <1> SUFFICES ASSUME LifecycleInit PROVE SlotsAreMade
    OBVIOUS
  <1>1. pool = Slots /\ made = SlotsIn(Slots)
    BY DEF LifecycleInit, HandlerInit
  <1>2. todo = <<>> /\ heaviest.slot = None
    BY DEF LifecycleInit, MonitorInit, NoCandidate
  <1>3. SlotsIn(todo) = {}
    BY <1>2 DEF SlotsIn
  <1>4. \A t \in Tasks : cur[t] = None /\ pc[t] \in {"sleep", "rest", "idle"}
    BY DEF LifecycleInit, WorkerInit
  <1>5. \A w \in Workers : process[w] # None => w \in made
    BY DEF LifecycleInit, WorkerInit
  <1>6. \A i, j \in DOMAIN Slots : Slots[i] = Slots[j] => i = j
    BY LifecycleAssumed DEF LifecycleAssumption
  <1> QED
    BY <1>1, <1>2, <1>3, <1>4, <1>5, <1>6, LifecycleAssumed
       DEF SlotsAreMade, Starting, OperationLabels, Admins

\* Who spawns has emptied the slot, unless it is a reload.
LEMMA SpawnKept ==
    ASSUME LifecycleControl, SlotsAreMade, [LifecycleNext]_lifecycleVars,
           NEW t \in Tasks, pc'[t] = "spawn"
    PROVE  t \in Reloaders \/ process'[cur'[t]] = None
  <1> USE LifecycleFacts, TypeFacts
  <1>1. pc[t] = "spawn" => cur[t] \in Workers /\ lock[cur[t]] = t /\ t # None
    BY OperationCall, LifecycleAssumed DEF OperationLabels
  <1>2. ASSUME NEW u \in Tasks, Spawn(u),
               \A v \in Tasks \ {u} : pc'[v] = pc[v] /\ cur'[v] = cur[v]
        PROVE  t \in Reloaders \/ process'[cur'[t]] = None
    <2>1. PICK p \in Pids : process' = [process EXCEPT ![cur[u]] = p]
      BY <1>2, SpawnFills
    <2>2. t # u /\ cur[u] \in Workers /\ lock[cur[u]] = u
      BY <1>2, SpawnFills
    <2> QED
      BY <1>1, <1>2, <2>1, <2>2 DEF SlotsAreMade
  <1>3. ASSUME NEW u \in Tasks, Touches(u),
               \A v \in Tasks \ {u} : pc'[v] = pc[v] /\ cur'[v] = cur[v]
        PROVE  t \in Reloaders \/ process'[cur'[t]] = None
    <2>1. CASE t = u
      BY <1>3, <2>1 DEF Touches
    <2>2. CASE t # u
      <3>1. pc[t] = "spawn" /\ cur'[t] = cur[t]
        BY <1>3, <2>2
      <3>2. process'[cur[t]] = process[cur[t]]
        BY <1>1, <1>3, <2>2, <3>1 DEF Touches
      <3> QED
        BY <3>1, <3>2 DEF SlotsAreMade
    <2> QED
      BY <2>1, <2>2
  <1>4. ASSUME NEW u \in Cancellable, Cancel(u)
        PROVE  t \in Reloaders \/ process'[cur'[t]] = None
    <2>1. u \in Tasks
      BY LifecycleAssumed DEF Admins
    <2>2. pc'[t] = pc[t] /\ cur'[t] = cur[t] /\ process' = process
      BY <1>4, <2>1 DEF Cancel, Goto
    <2> QED
      BY <2>2 DEF SlotsAreMade
  <1> QED
    BY <1>2, <1>3, <1>4, StepOfOne DEF SlotsAreMade

\* Only slots that have been made get a child.
LEMMA ChildrenKept ==
    ASSUME LifecycleControl, SlotsAreMade, [LifecycleNext]_lifecycleVars,
           NEW w \in Workers, process'[w] # None
    PROVE  w \in made
  <1> USE LifecycleFacts, TypeFacts
  <1>1. ASSUME NEW u \in Tasks, Spawn(u)
        PROVE  w \in made
    <2>1. PICK p \in Pids : process' = [process EXCEPT ![cur[u]] = p]
      BY <1>1, SpawnFills
    <2>2. cur[u] \in Workers /\ cur[u] \in made
      BY <1>1, SpawnFills, Assumptions DEF SlotsAreMade, ServerAssumption
    <2> QED
      BY <2>1, <2>2 DEF SlotsAreMade
  <1>2. ASSUME NEW u \in Tasks, Touches(u)
        PROVE  w \in made
    BY <1>2 DEF Touches, SlotsAreMade
  <1>3. ASSUME NEW u \in Cancellable, Cancel(u)
        PROVE  w \in made
    BY <1>3 DEF Cancel, SlotsAreMade
  <1> QED
    BY <1>1, <1>2, <1>3, StepOfOne DEF SlotsAreMade

\* A reload never goes beyond the end of the pool.
LEMMA PlaceKept ==
    ASSUME LifecycleControl, SlotsAreMade, [LifecycleNext]_lifecycleVars,
           NEW t \in Reloaders, Starting(t)'
    PROVE  at'[t] <= Len(pool')
  <1>0. t \in Tasks /\ pool \in Seq(Workers) /\ at \in [Tasks -> Nat]
    BY LifecycleFacts, TypeFacts, LifecycleAssumed DEF Admins, PoolTypeOK
  <1>1. pool' \in Seq(Workers)
    BY LifecycleStep DEF LifecycleControl, LifecycleTypeOK, ServerTypeOK, PoolTypeOK
  <1>2. CASE Resize(t)
    BY <1>0, <1>1, <1>2 DEF Resize
  <1>3. CASE StartNext(t)
    <2>1. at'[t] = at[t] + 1 /\ at[t] < Len(pool) /\ pool' = pool
      BY <1>0, <1>3 DEF StartNext, VisitNext
    <2> QED
      BY <1>0, <2>1
  <1>4. CASE Starting(t) /\ pool' = pool /\ at'[t] = at[t]
    BY <1>4 DEF SlotsAreMade
  <1> QED
    BY <1>2, <1>3, <1>4, StartingStep

\* Every step of the lifecycle keeps to the slots that are made.
LEMMA MadeStep ==
    ASSUME LifecycleControl, SlotsAreMade, [LifecycleNext]_lifecycleVars
    PROVE  SlotsAreMade' /\ made \subseteq made'
  <1>1. /\ made \subseteq made'
        /\ SlotsIn(pool') \subseteq made'
        /\ \A i, j \in DOMAIN pool' : pool'[i] = pool'[j] => i = j
    BY SlotsChange, ResizeMakes DEF SlotsAreMade
  <1>2. /\ SlotsIn(todo') \subseteq made'
        /\ heaviest'.slot \in made' \cup {None}
        /\ \A t \in Tasks : cur'[t] \in made' \cup {None}
        /\ \A t \in Reloaders : pc'[t] # "drain"
    BY <1>1, UsesStep DEF SlotsAreMade
  <1>3. \A w \in Workers : process'[w] # None => w \in made'
    BY <1>1, ChildrenKept
  <1>4. \A t \in Tasks : pc'[t] = "spawn" => t \in Reloaders \/ process'[cur'[t]] = None
    BY SpawnKept
  <1>5. \A t \in Reloaders : Starting(t)' => at'[t] <= Len(pool')
    BY PlaceKept
  <1> QED
    BY <1>1, <1>2, <1>3, <1>4, <1>5 DEF SlotsAreMade, SlotsIn

\* A step that leaves every child in its slot or kills it drops none.
LEMMA DroppedShrinks ==
    ASSUME alive' \subseteq alive,
           \A w \in Workers : process'[w] # process[w] => process[w] \notin alive'
    PROVE  Dropped' \subseteq Dropped
  BY DEF Dropped

\* Only a reload drops a child, the one that it finds in the slot it spawns into.
LEMMA DroppedStep ==
    ASSUME LifecycleControl, SlotsAreMade, [LifecycleNext]_lifecycleVars
    PROVE  \/ Dropped' \subseteq Dropped
           \/ \E t \in Reloaders : Spawn(t) /\ Dropped' \subseteq Dropped \cup {process[cur[t]]}
  <1> USE LifecycleFacts, TypeFacts
  <1>1. ASSUME NEW u \in Tasks, Spawn(u)
        PROVE  \/ Dropped' \subseteq Dropped
               \/ /\ u \in Reloaders
                  /\ Dropped' \subseteq Dropped \cup {process[cur[u]]}
    <2>1. PICK p \in Pids : /\ p # None /\ p \notin alive
                            /\ alive' = alive \cup {p}
                            /\ process' = [process EXCEPT ![cur[u]] = p]
      BY <1>1, SpawnFills
    <2>2. cur[u] \in Workers /\ pc[u] = "spawn"
      BY <1>1, SpawnFills
    <2>3. Dropped' \subseteq Dropped \cup {process[cur[u]]}
      BY <2>1, <2>2 DEF Dropped
    <2>4. None \notin Dropped'
      <3>1. None \notin alive'
        BY <2>1, Assumptions DEF ServerAssumption, ProcTypeOK
      <3> QED
        BY <3>1 DEF Dropped
    <2> QED
      BY <2>2, <2>3, <2>4 DEF SlotsAreMade
  <1>2. ASSUME NEW u \in Tasks, Touches(u)
        PROVE  Dropped' \subseteq Dropped
    BY <1>2, DroppedShrinks DEF Touches
  <1>3. ASSUME NEW u \in Cancellable, Cancel(u)
        PROVE  Dropped' \subseteq Dropped
    <2>1. CASE u \in Requests
      <3>1. alive' = alive /\ process' = process
        BY <1>3, <2>1 DEF Cancel, Forsake, Abandon, HangUp
      <3> QED
        BY <3>1, DroppedShrinks
    <2>2. CASE u \notin Requests
      BY <1>3, <2>2, DroppedShrinks DEF Cancel
    <2> QED
      BY <2>1, <2>2
  <1>4. UNCHANGED process /\ alive' \subseteq alive => Dropped' \subseteq Dropped
    BY DroppedShrinks
  <1> QED
    BY <1>1, <1>2, <1>3, <1>4, StepOfOne

\* A reload comes to its spawns through the next start only.
LEMMA SpawnEntered ==
    ASSUME LifecycleControl, SlotsAreMade, [LifecycleNext]_lifecycleVars,
           NEW t \in Reloaders, pc'[t] = "spawn", pc[t] # "spawn"
    PROVE  StartNext(t)
  <1> USE LifecycleFacts
  <1>0. t \in Tasks /\ t \in Admins /\ t \notin Requests /\ t # Monitor /\ pc[t] # "drain"
    BY LifecycleAssumed DEF Admins, SlotsAreMade
  <1>1. ASSUME NEW r \in Requests, RequestNext(r)
        PROVE  FALSE
    <2>1. HandlerStep(r) \/ Route(r) \/ NextWorkerPanics(r)
      BY <1>1 DEF RequestNext, HandlerNext
    <2> QED
      BY <1>0, <2>1, HandlerMoves, LifecycleAssumed
  <1>2. ~WatcherNext
    BY <1>0, MonitorMoves DEF WatcherNext
  <1>3. ASSUME NEW u \in Admins, AdminStep(u)
        PROVE  u = t
    BY <1>0, <1>3, AdminMoves
  <1>4. ASSUME AdminStep(t)
        PROVE  StartNext(t)
    <2>1. ~(BeginReload(t) \/ BeginShutdown(t) \/ BeginInspection(t) \/ LockManager(t)
              \/ LockPool(t) \/ NextPass(t))
      BY <1>0 DEF BeginReload, BeginShutdown, BeginInspection, LockManager, LockPool, NextPass
    <2>2. ~(StopNext(t) \/ Visit(t) \/ Exit(t) \/ Resize(t) \/ FinishReload(t)
              \/ FinishInspection(t))
      BY <1>0 DEF StopNext, VisitNext, Visit, Exit, vars, Resize, FinishReload,
                  FinishInspection, Leave
    <2>3. ~WorkerStep(t)
      <3>1. pc[t] \in OperationLabels =>
              call[t].done \in ReturnLabels /\ call[t].failed \in ReturnLabels
        BY <1>0, OperationCall
      <3>2. "spawn" \notin ReturnLabels
        BY DEF ReturnLabels
      <3> QED
        BY <1>0, <3>1, <3>2, TypeFacts
           DEF WorkerStep, StopOld, Spawn, SpawnFails, Ready, Return, Goto, OperationLabels
    <2> QED
      BY <1>4, <2>1, <2>2, <2>3 DEF AdminStep
  <1>5. ASSUME NEW u \in Cancellable, Cancel(u)
        PROVE  FALSE
    <2>1. u \in Tasks
      BY LifecycleAssumed DEF Admins
    <2>2. /\ pc'[u] \in {"idle", "rest"} /\ \A v \in Tasks \ {u} : pc'[v] = pc[v]
      BY <1>5, <2>1 DEF Cancel, Goto
    <2> QED
      BY <1>0, <2>2
  <1>6. (PhpNext /\ UNCHANGED adminVars) \/ UNCHANGED lifecycleVars => FALSE
    BY <1>0 DEF PhpNext, lifecycleVars, vars
  <1> QED
    BY <1>1, <1>2, <1>3, <1>4, <1>5, <1>6, ServerSteps DEF LifecycleNext

\* What a reload has still to start is a number of slots.
LEMMA ToStartType ==
    ASSUME LifecycleControl, SlotsAreMade
    PROVE  /\ ToStart \in Nat
           /\ \A t \in Reloaders : Starting(t) =>
                ToStart = Len(pool) - at[t] + (IF pc[t] = "spawn" THEN 1 ELSE 0)
  <1>1. pool \in Seq(Workers) /\ at \in [Tasks -> Nat]
    BY LifecycleFacts, TypeFacts DEF PoolTypeOK
  <1>2. Len(pool) \in Nat
    BY <1>1
  <1>3. ASSUME Starting(poolLock)
        PROVE  ToStart \in Nat
    <2>1. poolLock \in Reloaders /\ poolLock \in Tasks
      BY <1>3, LifecycleAssumed DEF Starting, Admins
    <2>2. at[poolLock] \in Nat /\ at[poolLock] <= Len(pool)
      BY <1>1, <1>3, <2>1 DEF SlotsAreMade
    <2>3. Len(pool) - at[poolLock] \in Nat
      BY <1>2, <2>2
    <2> QED
      BY <1>3, <2>3 DEF ToStart
  <1>4. ~Starting(poolLock) => ToStart \in Nat
    BY DEF ToStart
  <1>5. \A t \in Reloaders : Starting(t) => poolLock = t
    BY AloneInPool
  <1> QED
    BY <1>3, <1>4, <1>5 DEF ToStart

\* Each spawn of a reload is one that was to come, and only a resize adds to them.
LEMMA ToStartStep ==
    ASSUME LifecycleControl, SlotsAreMade, [LifecycleNext]_lifecycleVars,
           \A t \in Reloaders : ~Resize(t)
    PROVE  /\ ToStart' \in Int
           /\ ToStart' <= ToStart
           /\ \A t \in Reloaders : Spawn(t) => ToStart' <= ToStart - 1
  <1> USE LifecycleFacts
  <1>1. /\ ToStart \in Nat /\ Len(pool) \in Nat
        /\ \A t \in Reloaders : t \in Tasks /\ at[t] \in Nat
    BY ToStartType, TypeFacts, LifecycleAssumed DEF PoolTypeOK, Admins
  <1>2. ASSUME NEW t \in Reloaders, Spawn(t)
        PROVE  /\ pc[t] = "spawn" /\ pc'[t] = "ready"
               /\ Starting(t) /\ poolLock = t /\ ToStart = Len(pool) - at[t] + 1
    <2>1. pc[t] = "spawn" /\ pc'[t] = "ready"
      BY <1>1, <1>2, SpawnFills
    <2>2. Starting(t)
      BY <2>1, AdminLabelFacts DEF Starting
    <2> QED
      BY <2>1, <2>2, AloneInPool, ToStartType
  <1>3. CASE Starting(poolLock)'
    <2>0. PICK h \in Reloaders : poolLock' = h
      BY <1>3 DEF Starting
    <2>1. h \in Reloaders /\ Starting(h)'
      BY <1>3, <2>0 DEF Starting
    <2>2. ToStart' = Len(pool') - at'[h] + (IF pc'[h] = "spawn" THEN 1 ELSE 0)
      BY <1>3, <2>0 DEF ToStart
    <2>3. Starting(h) /\ poolLock = h
      <3>1. Starting(h)
        BY <2>1, StartingStep
      <3> QED
        BY <3>1, AloneInPool
    <2>4. ToStart = Len(pool) - at[h] + (IF pc[h] = "spawn" THEN 1 ELSE 0)
      BY <2>1, <2>3, ToStartType
    <2>5. CASE StartNext(h)
      <3>1. /\ at'[h] = at[h] + 1 /\ pool' = pool
            /\ pc[h] = "starting" /\ pc'[h] = "spawn"
        BY <1>1, <2>1, <2>5 DEF StartNext, VisitNext, Enter
      <3>2. \A t \in Reloaders : ~Spawn(t)
        BY <1>2, <2>3, <3>1
      <3>3. ToStart' = Len(pool) - (at[h] + 1) + 1 /\ ToStart = Len(pool) - at[h] + 0
        BY <2>2, <2>4, <3>1
      <3>4. at[h] \in Nat
        BY <1>1, <2>1
      <3> QED
        BY <1>1, <3>2, <3>3, <3>4
    <2>6. CASE pool' = pool /\ at'[h] = at[h]
      <3>1. at[h] \in Nat
        BY <1>1, <2>1
      <3>2. CASE ~\E t \in Reloaders : Spawn(t)
        <4>1. pc'[h] = "spawn" => pc[h] = "spawn"
          <5> SUFFICES ASSUME pc'[h] = "spawn", pc[h] # "spawn"
                       PROVE  FALSE
            OBVIOUS
          <5>1. StartNext(h)
            BY <2>1, SpawnEntered
          <5>2. at'[h] = at[h] + 1
            BY <1>1, <2>1, <5>1 DEF StartNext, VisitNext
          <5> QED
            BY <2>6, <3>1, <5>2
        <4>2. ToStart' = Len(pool) - at[h] + (IF pc'[h] = "spawn" THEN 1 ELSE 0)
          BY <2>2, <2>6
        <4> QED
          BY <1>1, <2>4, <3>1, <3>2, <4>1, <4>2
      <3>3. CASE \E t \in Reloaders : Spawn(t)
        <4>1. pc'[h] = "ready" /\ ToStart = Len(pool) - at[h] + 1
          BY <1>2, <2>3, <3>3
        <4>2. ToStart' = Len(pool) - at[h] + 0
          BY <2>2, <2>6, <4>1
        <4> QED
          BY <1>1, <3>1, <4>1, <4>2
      <3> QED
        BY <3>2, <3>3
    <2> QED
      BY <2>1, <2>5, <2>6, StartingStep
  <1>4. CASE ~Starting(poolLock)'
    <2>1. ToStart' = 0
      BY <1>4 DEF ToStart
    <2>2. ASSUME NEW t \in Reloaders, Spawn(t)
          PROVE  ToStart >= 1
      <3>1. at[t] \in Nat /\ at[t] <= Len(pool)
        BY <1>1, <1>2, <2>2 DEF SlotsAreMade
      <3>2. ToStart = Len(pool) - at[t] + 1
        BY <1>2, <2>2
      <3> QED
        BY <1>1, <3>1, <3>2
    <2> QED
      BY <1>1, <2>1, <2>2
  <1> QED
    BY <1>3, <1>4

\* As many reloads wait for their resize as before, less the one that resizes, or
\* one more with the one that begins.
LEMMA PendingStep ==
    ASSUME LifecycleControl, [LifecycleNext]_lifecycleVars
    PROVE  \/ reloads' = reloads /\ Pending' \subseteq Pending
           \/ \E t \in Reloaders : BeginReload(t) /\ Pending' \subseteq Pending \cup {t}
  <1> USE LifecycleFacts
  <1>0. /\ Reloaders \subseteq Tasks /\ Reloaders \cap Requests = {} /\ Monitor \notin Reloaders
        /\ Reloaders \subseteq Admins
    BY LifecycleAssumed DEF Admins
  <1>1. ASSUME NEW r \in Requests, RequestNext(r)
        PROVE  reloads' = reloads /\ Pending' \subseteq Pending
    <2>1. HandlerStep(r) \/ Route(r) \/ NextWorkerPanics(r)
      BY <1>1 DEF RequestNext, HandlerNext
    <2>2. reloads' = reloads
      BY <1>1 DEF RequestNext, Follow
    <2> QED
      BY <1>0, <2>1, <2>2, HandlerMoves DEF Pending
  <1>2. ASSUME WatcherNext
        PROVE  reloads' = reloads /\ Pending' \subseteq Pending
    <2>1. reloads' = reloads /\ MonitorNext
      BY <1>2 DEF WatcherNext, Follow
    <2> QED
      BY <1>0, <2>1, MonitorMoves DEF Pending
  <1>3. ASSUME NEW t \in Admins, AdminStep(t), ~(t \in Reloaders /\ BeginReload(t))
        PROVE  reloads' = reloads /\ Pending' \subseteq Pending
    <2>0. t \in Tasks
      BY LifecycleAssumed
    <2>1. reloads' = reloads
      BY <1>3 DEF AdminStep, BeginShutdown, BeginInspection, LockManager, LockPool,
              StopNext, Resize, StartNext, Visit, NextPass, FinishReload, FinishInspection,
              Leave, Exit, Follow, vars
    <2>2. t \in Reloaders /\ pc'[t] \in {"manager", "pool", "stopping"} =>
            pc[t] \in {"manager", "pool", "stopping"}
      <3>1. CASE (t \in Killers /\ BeginShutdown(t)) \/ (t \in Inspectors /\ BeginInspection(t))
        BY <3>1, LifecycleAssumed
      <3>2. CASE LockManager(t) \/ LockPool(t) \/ StopNext(t) \/ Exit(t)
        BY <3>2 DEF LockManager, LockPool, StopNext, VisitNext, Exit
      <3>3. CASE Resize(t) \/ FinishReload(t)
        BY <2>0, <3>3 DEF Resize, FinishReload, Leave
      <3>4. CASE StartNext(t)
        BY <2>0, <3>4 DEF StartNext, Enter
      <3>5. CASE Visit(t) \/ (t \in Inspectors /\ NextPass(t)) \/ FinishInspection(t)
        BY <2>0, <3>5, LifecycleAssumed DEF Visit, FinishInspection, Leave
      <3>6. CASE WorkerStep(t)
        <4>1. OperationLabels \cap {"manager", "pool", "stopping"} = {}
                /\ ReturnLabels \cap {"manager", "pool", "stopping"} = {}
          BY DEF OperationLabels, ReturnLabels
        <4> QED
          BY <2>0, <3>6, <4>1, WorkerMoves
      <3> QED
        BY <1>3, <3>1, <3>2, <3>3, <3>4, <3>5, <3>6 DEF AdminStep
    <2>3. \A u \in Tasks \ {t} : pc'[u] = pc[u]
      BY <1>3, AdminMoves
    <2> QED
      BY <1>0, <2>1, <2>2, <2>3 DEF Pending
  <1>4. ASSUME NEW t \in Reloaders, BeginReload(t)
        PROVE  Pending' \subseteq Pending \cup {t}
    <2>1. \A u \in Tasks \ {t} : pc'[u] = pc[u]
      BY <1>4 DEF BeginReload
    <2> QED
      BY <1>0, <2>1 DEF Pending
  <1>5. ASSUME NEW t \in Cancellable, Cancel(t)
        PROVE  reloads' = reloads /\ Pending' \subseteq Pending
    <2>1. t \in Tasks
      BY LifecycleAssumed DEF Admins
    <2>2. pc'[t] \in {"idle", "rest"} /\ \A u \in Tasks \ {t} : pc'[u] = pc[u]
      BY <1>5, <2>1 DEF Cancel, Goto
    <2> QED
      BY <1>0, <1>5, <2>2 DEF Cancel, Pending
  <1>6. (PhpNext /\ UNCHANGED adminVars) \/ UNCHANGED lifecycleVars =>
          UNCHANGED <<reloads, pc>>
    BY DEF PhpNext, lifecycleVars, vars
  <1>7. UNCHANGED <<reloads, pc>> => reloads' = reloads /\ Pending' \subseteq Pending
    BY DEF Pending
  <1> QED
    BY <1>1, <1>2, <1>3, <1>4, <1>5, <1>6, <1>7, ServerSteps DEF LifecycleNext

\* A pool of distinct slots has as many slots as it is long.
LEMMA PoolSize ==
    ASSUME NEW slots \in Seq(Workers), \A i, j \in DOMAIN slots : slots[i] = slots[j] => i = j
    PROVE  /\ IsFiniteSet(SlotsIn(slots))
           /\ Cardinality(SlotsIn(slots)) = Len(slots)
  <1>1. slots \in [1..Len(slots) -> SlotsIn(slots)]
    BY DEF SlotsIn
  <1>2. slots \in Bijection(1..Len(slots), SlotsIn(slots))
    BY <1>1 DEF Bijection, Injection, Surjection, IsInjective, SlotsIn
  <1>3. Len(slots) \in Nat
    OBVIOUS
  <1>4. IsFiniteSet(1..Len(slots)) /\ Cardinality(1..Len(slots)) = Len(slots)
    BY <1>3, FS_Interval
  <1> QED
    BY <1>2, <1>4, FS_Bijection DEF ExistsBijection

\* The slots of the pool and the replaced ones are all that were made.
LEMMA MadeSize ==
    ASSUME NEW slots \in Seq(Workers), \A i, j \in DOMAIN slots : slots[i] = slots[j] => i = j,
           NEW S, IsFiniteSet(S), SlotsIn(slots) \subseteq S
    PROVE  /\ IsFiniteSet(S \ SlotsIn(slots))
           /\ Len(slots) + Cardinality(S \ SlotsIn(slots)) = Cardinality(S)
           /\ Cardinality(S \ SlotsIn(slots)) \in Nat /\ Cardinality(S) \in Nat
  <1>1. /\ IsFiniteSet(SlotsIn(slots)) /\ Cardinality(SlotsIn(slots)) = Len(slots)
    BY PoolSize
  <1>2. /\ IsFiniteSet(S \ SlotsIn(slots))
        /\ Cardinality(S \ SlotsIn(slots)) = Cardinality(S) - Cardinality(S \cap SlotsIn(slots))
    BY FS_Difference
  <1>3. S \cap SlotsIn(slots) = SlotsIn(slots)
    OBVIOUS
  <1>4. Cardinality(S \ SlotsIn(slots)) \in Nat /\ Cardinality(S) \in Nat
    BY <1>2, FS_CardinalityType
  <1>5. Len(slots) \in Nat
    OBVIOUS
  <1>6. Cardinality(S \ SlotsIn(slots)) = Cardinality(S) - Len(slots)
    BY <1>1, <1>2, <1>3
  <1> QED
    BY <1>2, <1>4, <1>5, <1>6

\* A product of natural numbers grows with each of its factors.
LEMMA ProductGrows ==
    ASSUME NEW a \in Nat, NEW b \in Nat, NEW m \in Nat, NEW n \in Nat, a <= b, m <= n
    PROVE  a * m <= b * n /\ a * m \in Nat /\ b * n \in Nat
  <1>1. PICK x \in Nat : b = a + x
    <2>1. b - a \in Nat /\ b = a + (b - a)
      OBVIOUS
    <2> QED
      BY <2>1
  <1>2. PICK y \in Nat : n = m + y
    <2>1. n - m \in Nat /\ n = m + (n - m)
      OBVIOUS
    <2> QED
      BY <2>1
  <1>3. (a + x) * (m + y) = a * m + a * y + x * m + x * y
    OBVIOUS
  <1>4. a * m \in Nat /\ a * y \in Nat /\ x * m \in Nat /\ x * y \in Nat
    OBVIOUS
  <1>5. b * n = a * m + a * y + x * m + x * y
    BY <1>1, <1>2, <1>3
  <1> QED
    BY <1>4, <1>5

\* What OrphansAreCharged counts are natural numbers.
LEMMA ChargeTypes ==
    ASSUME LifecycleControl, SlotsAreMade, OrphansAreCharged
    PROVE  /\ Cardinality(Dropped) \in Nat /\ Cardinality(made) \in Nat
           /\ Cardinality(Pending) \in Nat /\ reloads \in Nat
           /\ reloads - Cardinality(Pending) \in Nat
           /\ IsFiniteSet(Outside) /\ Cardinality(Outside) \in Nat
           /\ ToStart \in Nat
           /\ Cardinality(Dropped) <= (reloads - Cardinality(Pending)) * Cardinality(made)
  <1>1. /\ Cardinality(Dropped) \in Nat /\ Cardinality(made) \in Nat
        /\ Cardinality(Pending) \in Nat
    BY FS_CardinalityType DEF OrphansAreCharged
  <1>2. reloads \in Nat /\ ToStart \in Nat
    BY LifecycleFacts, ToStartType
  <1>3. reloads - Cardinality(Pending) \in Nat
    BY <1>1, <1>2 DEF OrphansAreCharged
  <1>4. IsFiniteSet(Outside) /\ Cardinality(Outside) \in Nat
    BY FS_Difference, FS_CardinalityType DEF OrphansAreCharged, Outside
  <1>5. (reloads - Cardinality(Pending)) * Cardinality(made) \in Nat
    BY <1>1, <1>3, ProductGrows
  <1>6. Cardinality(Dropped) + ToStart + Cardinality(Outside)
          <= (reloads - Cardinality(Pending)) * Cardinality(made)
    BY DEF OrphansAreCharged
  <1> QED
    BY <1>1, <1>2, <1>3, <1>4, <1>5, <1>6

\* At first nothing has been dropped, and the pool has all the slots there are.
LEMMA ChargeInit == LifecycleInit => OrphansAreCharged
  <1> SUFFICES ASSUME LifecycleInit PROVE OrphansAreCharged
    OBVIOUS
  <1>1. Slots \in Seq(Workers) /\ \A i, j \in DOMAIN Slots : Slots[i] = Slots[j] => i = j
    BY LifecycleAssumed, Assumptions DEF LifecycleAssumption, HandlerAssumption
  <1>2. pool = Slots /\ made = SlotsIn(Slots) /\ reloads = 0 /\ poolLock = None
    BY DEF LifecycleInit, HandlerInit
  <1>3. IsFiniteSet(made) /\ Cardinality(made) \in Nat
    BY <1>1, <1>2, PoolSize, FS_CardinalityType
  <1>4. Outside = {}
    BY <1>2 DEF Outside
  <1>5. Dropped = {}
    <2>1. PICK pid \in [Workers -> Pids \cup {None}], path \in [Pids -> Sockets \cup {None}] :
            /\ \A p \in Pids : (\A w \in Workers : pid[w] # p) => path[p] = None
            /\ ProcInit(path)
            /\ WorkerInit(pid)
      BY DEF LifecycleInit
    <2> QED
      BY <2>1 DEF ProcInit, WorkerInit, Dropped
  <1>6. Pending = {}
    BY LifecycleAssumed DEF LifecycleInit, Pending, Admins
  <1>7. ToStart = 0
    BY <1>2, LifecycleAssumed DEF ToStart, Starting, Admins
  <1>8. /\ IsFiniteSet({}) /\ Cardinality({}) = 0
        /\ (0 - 0) * Cardinality(made) = 0
    BY <1>3, FS_EmptySet
  <1> QED
    BY <1>2, <1>3, <1>4, <1>5, <1>6, <1>7, <1>8 DEF OrphansAreCharged

\* A resize takes charge of one process for every slot that is made.
LEMMA ResizeCharges ==
    ASSUME LifecycleControl, SlotsAreMade, OrphansAreCharged, [LifecycleNext]_lifecycleVars,
           NEW t \in Reloaders, Resize(t)
    PROVE  OrphansAreCharged'
  <1> USE LifecycleFacts, TypeFacts
  <1> DEFINE R == reloads - Cardinality(Pending)
             m == Cardinality(made)
  <1>0. /\ t \in Tasks /\ t \in Admins /\ pc[t] = "stopping" /\ pc'[t] = "starting"
        /\ UNCHANGED <<alive, process, reloads>> /\ at' = [at EXCEPT ![t] = 0]
        /\ poolLock' = poolLock
    BY LifecycleAssumed DEF Resize, Admins
  <1>1. SlotsAreMade' /\ made \subseteq made' /\ LifecycleControl'
    BY MadeStep, LifecycleStep
  <1>2. Dropped' = Dropped
    BY <1>0 DEF Dropped
  <1>3. /\ pool' \in Seq(Workers) /\ SlotsIn(pool') \subseteq made'
        /\ \A i, j \in DOMAIN pool' : pool'[i] = pool'[j] => i = j
    BY <1>1, ResizeMakes DEF LifecycleControl, LifecycleTypeOK, ServerTypeOK, PoolTypeOK
  <1>4. IsFiniteSet(made')
    <2>1. made' = made \/ made' = made \cup SlotsIn(pool')
      BY DEF Resize
    <2>2. IsFiniteSet(made) /\ IsFiniteSet(SlotsIn(pool'))
      BY <1>3, PoolSize DEF OrphansAreCharged
    <2>3. IsFiniteSet(made \cup SlotsIn(pool'))
      BY <2>2, FS_Union
    <2> QED
      BY <2>1, <2>2, <2>3
  <1>5. /\ Len(pool') + Cardinality(Outside') = Cardinality(made')
        /\ Cardinality(Outside') \in Nat /\ Cardinality(made') \in Nat
    BY <1>3, <1>4, MadeSize DEF Outside
  <1>6. ToStart' = Len(pool')
    <2>1. poolLock = t
      BY <1>0, LifecycleAssumed DEF PoolLocksAreOwned, UnderPool
    <2>2. Starting(poolLock)' /\ poolLock' = t
      BY <1>0, <2>1 DEF Starting
    <2>3. at'[t] = 0 /\ pc'[t] # "spawn" /\ Len(pool') \in Nat
      BY <1>0, <1>3
    <2> QED
      BY <2>2, <2>3 DEF ToStart
  <1>7. /\ IsFiniteSet(Pending') /\ Cardinality(Pending') \in Nat
        /\ Cardinality(Pending') <= Cardinality(Pending) - 1
    <2>1. t \in Pending /\ t \notin Pending'
      BY <1>0 DEF Pending
    <2>2. Pending' \subseteq Pending
      BY <1>0, PendingStep DEF BeginReload
    <2>3. Pending' \in SUBSET (Pending \ {t})
      BY <2>1, <2>2
    <2>4. /\ IsFiniteSet(Pending \ {t})
          /\ Cardinality(Pending \ {t}) = Cardinality(Pending) - 1
      BY <2>1, FS_RemoveElement DEF OrphansAreCharged
    <2> QED
      BY <2>3, <2>4, FS_Subset, FS_CardinalityType
  <1>8. m <= Cardinality(made')
    BY <1>1, <1>4, FS_Subset
  <1>9. Cardinality(Dropped) \in Nat /\ R \in Nat /\ m \in Nat /\ Cardinality(Dropped) <= R * m
          /\ Cardinality(Pending) \in Nat
    BY ChargeTypes
  <1>10. R * m <= R * Cardinality(made') /\ R * m \in Nat
    BY <1>5, <1>8, <1>9, ProductGrows
  <1>11. (R + 1) * Cardinality(made') <= (reloads' - Cardinality(Pending')) * Cardinality(made')
    <2>1. reloads' - Cardinality(Pending') \in Nat /\ R + 1 <= reloads' - Cardinality(Pending')
      BY <1>0, <1>7, <1>9
    <2>2. R + 1 \in Nat
      BY <1>9
    <2> HIDE DEF R
    <2> QED
      BY <1>5, <2>1, <2>2, ProductGrows
  <1>12. (R + 1) * Cardinality(made') = R * Cardinality(made') + Cardinality(made')
    <2> HIDE DEF R
    <2> QED
      BY <1>5, <1>9
  <1>13. Cardinality(Dropped') + ToStart' + Cardinality(Outside')
           = Cardinality(Dropped) + Cardinality(made')
    <2>1. Len(pool') \in Nat
      BY <1>3
    <2> QED
      BY <1>2, <1>5, <1>6, <1>9, <2>1
  <1>14. Cardinality(Pending') <= reloads'
    BY <1>0, <1>7, <1>9 DEF OrphansAreCharged
  <1>15. Cardinality(Dropped') + ToStart' + Cardinality(Outside')
           <= (reloads' - Cardinality(Pending')) * Cardinality(made')
    <2>1. Cardinality(Dropped) + Cardinality(made') <= (R + 1) * Cardinality(made')
      <3> HIDE DEF R, m
      <3> QED
        BY <1>5, <1>9, <1>10, <1>12
    <2>2. reloads' - Cardinality(Pending') \in Nat
      BY <1>0, <1>7, <1>14
    <2>3. /\ (reloads' - Cardinality(Pending')) * Cardinality(made') \in Nat
          /\ (R + 1) * Cardinality(made') \in Nat
      <3>1. R + 1 \in Nat
        BY <1>9
      <3> HIDE DEF R
      <3> QED
        BY <1>5, <2>2, <3>1, ProductGrows
    <2> HIDE DEF R, m
    <2> QED
      BY <1>5, <1>9, <1>11, <1>13, <2>1, <2>3
  <1> QED
    BY <1>2, <1>4, <1>7, <1>14, <1>15 DEF OrphansAreCharged

\* Every other step drops no more than a start that was to come.
LEMMA ChargeKept ==
    ASSUME LifecycleControl, SlotsAreMade, OrphansAreCharged, [LifecycleNext]_lifecycleVars,
           \A t \in Reloaders : ~Resize(t)
    PROVE  OrphansAreCharged'
  <1> USE LifecycleFacts, TypeFacts
  <1> DEFINE R == reloads - Cardinality(Pending)
             m == Cardinality(made)
  <1>1. UNCHANGED <<pool, made, Outside>>
    BY SlotsChange DEF Outside
  <1>2. /\ Cardinality(Dropped) \in Nat /\ m \in Nat /\ Cardinality(Pending) \in Nat
        /\ reloads \in Nat /\ R \in Nat /\ Cardinality(Outside) \in Nat /\ ToStart \in Nat
        /\ IsFiniteSet(Dropped) /\ IsFiniteSet(made) /\ IsFiniteSet(Pending)
    BY ChargeTypes DEF OrphansAreCharged
  <1>3. /\ IsFiniteSet(Dropped') /\ Cardinality(Dropped') \in Nat
        /\ Cardinality(Dropped') + ToStart' <= Cardinality(Dropped) + ToStart
    <2>0. ToStart' \in Int /\ ToStart' <= ToStart
      BY ToStartStep
    <2>1. CASE Dropped' \subseteq Dropped
      <3>1. IsFiniteSet(Dropped') /\ Cardinality(Dropped') <= Cardinality(Dropped)
        BY <1>2, <2>1, FS_Subset
      <3>2. Cardinality(Dropped') \in Nat
        BY <3>1, FS_CardinalityType
      <3> QED
        BY <1>2, <2>0, <3>1, <3>2
    <2>2. ASSUME NEW t \in Reloaders, Spawn(t), Dropped' \subseteq Dropped \cup {process[cur[t]]}
          PROVE  /\ IsFiniteSet(Dropped') /\ Cardinality(Dropped') \in Nat
                 /\ Cardinality(Dropped') + ToStart' <= Cardinality(Dropped) + ToStart
      <3> DEFINE D == Dropped \cup {process[cur[t]]}
      <3>1. IsFiniteSet(D) /\ Cardinality(D) <= Cardinality(Dropped) + 1 /\ Cardinality(D) \in Nat
        <4>1. /\ IsFiniteSet(D)
              /\ Cardinality(D) = IF process[cur[t]] \in Dropped
                                    THEN Cardinality(Dropped) ELSE Cardinality(Dropped) + 1
          BY <1>2, FS_AddElement
        <4> QED
          BY <1>2, <4>1
      <3>2. IsFiniteSet(Dropped') /\ Cardinality(Dropped') <= Cardinality(D)
        BY <2>2, <3>1, FS_Subset
      <3>3. Cardinality(Dropped') \in Nat
        BY <3>2, FS_CardinalityType
      <3>4. ToStart' <= ToStart - 1
        BY <2>2, ToStartStep
      <3> HIDE DEF D
      <3> QED
        BY <1>2, <2>0, <3>1, <3>2, <3>3, <3>4
    <2> QED
      BY <2>1, <2>2, DroppedStep
  <1>4. /\ IsFiniteSet(Pending') /\ Cardinality(Pending') \in Nat /\ reloads' \in Nat
        /\ Cardinality(Pending') <= reloads'
        /\ R <= reloads' - Cardinality(Pending')
    <2>0. Cardinality(Pending) <= reloads
      BY DEF OrphansAreCharged
    <2>1. CASE reloads' = reloads /\ Pending' \subseteq Pending
      <3>1. IsFiniteSet(Pending') /\ Cardinality(Pending') <= Cardinality(Pending)
        BY <1>2, <2>1, FS_Subset
      <3>2. Cardinality(Pending') \in Nat
        BY <3>1, FS_CardinalityType
      <3> QED
        BY <1>2, <2>0, <2>1, <3>1, <3>2
    <2>2. ASSUME NEW t \in Reloaders, BeginReload(t), Pending' \subseteq Pending \cup {t}
          PROVE  /\ IsFiniteSet(Pending') /\ Cardinality(Pending') \in Nat /\ reloads' \in Nat
                 /\ Cardinality(Pending') <= reloads'
                 /\ R <= reloads' - Cardinality(Pending')
      <3>1. reloads' = reloads + 1
        BY <2>2 DEF BeginReload
      <3>2. /\ IsFiniteSet(Pending \cup {t})
            /\ Cardinality(Pending \cup {t}) <= Cardinality(Pending) + 1
            /\ Cardinality(Pending \cup {t}) \in Nat
        <4>1. /\ IsFiniteSet(Pending \cup {t})
              /\ Cardinality(Pending \cup {t}) = IF t \in Pending
                                    THEN Cardinality(Pending) ELSE Cardinality(Pending) + 1
          BY <1>2, FS_AddElement
        <4> QED
          BY <1>2, <4>1
      <3>3. IsFiniteSet(Pending') /\ Cardinality(Pending') <= Cardinality(Pending \cup {t})
        BY <2>2, <3>2, FS_Subset
      <3>4. Cardinality(Pending') \in Nat
        BY <3>3, FS_CardinalityType
      <3> QED
        BY <1>2, <2>0, <3>1, <3>2, <3>3, <3>4
    <2> QED
      BY <2>1, <2>2, PendingStep
  <1>5. /\ R * m <= (reloads' - Cardinality(Pending')) * m
        /\ R * m \in Nat /\ (reloads' - Cardinality(Pending')) * m \in Nat
    <2>1. reloads' - Cardinality(Pending') \in Nat
      BY <1>4
    <2> HIDE DEF R, m
    <2> QED
      BY <1>2, <1>4, <2>1, ProductGrows
  <1>6. Cardinality(Dropped) + ToStart + Cardinality(Outside) <= R * m
    BY DEF OrphansAreCharged
  <1>7. ToStart' \in Int
    BY ToStartStep
  <1>8. Cardinality(Dropped') + ToStart' + Cardinality(Outside)
          <= (reloads' - Cardinality(Pending')) * m
    <2> HIDE DEF R, m
    <2> QED
      BY <1>2, <1>3, <1>5, <1>6, <1>7
  <1> QED
    BY <1>1, <1>2, <1>3, <1>4, <1>8 DEF OrphansAreCharged

\* What no slot of the pool has as its child has been dropped or is the child of a
\* slot that was replaced.
LEMMA UnsupervisedAreCharged ==
    ASSUME LifecycleControl, SlotsAreMade, OrphansAreCharged
    PROVE  OrphansPerReload
  <1> DEFINE R == reloads - Cardinality(Pending)
             m == Cardinality(made)
             children == {process[w] : w \in Outside}
  <1>1. /\ Cardinality(Dropped) \in Nat /\ m \in Nat /\ R \in Nat /\ reloads \in Nat
        /\ Cardinality(Pending) \in Nat
        /\ Cardinality(Outside) \in Nat /\ ToStart \in Nat
        /\ IsFiniteSet(Dropped) /\ IsFiniteSet(Outside)
    BY ChargeTypes DEF OrphansAreCharged
  <1>2. Unsupervised \subseteq Dropped \cup children
    <2>1. ASSUME NEW p \in Unsupervised, p \notin Dropped
          PROVE  p \in children
      <3>1. PICK w \in Workers : process[w] = p
        BY <2>1 DEF Unsupervised, Dropped
      <3>2. p # None
        BY <2>1, LifecycleFacts, TypeFacts, Assumptions
           DEF Unsupervised, ServerAssumption, ProcTypeOK
      <3>3. w \in made /\ w \notin SlotsIn(pool)
        BY <2>1, <3>1, <3>2 DEF SlotsAreMade, Unsupervised
      <3> QED
        BY <3>1, <3>3 DEF Outside
    <2> QED
      BY <2>1
  <1>3. IsFiniteSet(children) /\ Cardinality(children) <= Cardinality(Outside)
    <2> DEFINE f == [w \in Outside |-> process[w]]
    <2>1. f \in Surjection(Outside, children)
      BY DEF Surjection
    <2> HIDE DEF f, children
    <2> QED
      BY <1>1, <2>1, FS_Surjection
  <1>4. /\ IsFiniteSet(Dropped \cup children)
        /\ Cardinality(Dropped \cup children) <= Cardinality(Dropped) + Cardinality(Outside)
    <2> HIDE DEF children
    <2>1. /\ IsFiniteSet(Dropped \cup children)
          /\ Cardinality(Dropped \cup children) =
               Cardinality(Dropped) + Cardinality(children) - Cardinality(Dropped \cap children)
      BY <1>1, <1>3, FS_Union
    <2>2. Cardinality(children) \in Nat /\ Cardinality(Dropped \cap children) \in Nat
      BY <1>1, <1>3, FS_CardinalityType, FS_Intersection
    <2>3. Cardinality(Dropped \cup children) \in Nat
      BY <2>1, FS_CardinalityType
    <2> QED
      BY <1>1, <1>3, <2>1, <2>2, <2>3
  <1>5. Cardinality(Unsupervised) <= Cardinality(Dropped) + Cardinality(Outside)
    <2> HIDE DEF children
    <2>1. /\ IsFiniteSet(Unsupervised)
          /\ Cardinality(Unsupervised) <= Cardinality(Dropped \cup children)
      BY <1>2, <1>4, FS_Subset
    <2>2. Cardinality(Unsupervised) \in Nat /\ Cardinality(Dropped \cup children) \in Nat
      BY <1>4, <2>1, FS_CardinalityType
    <2> QED
      BY <1>1, <1>4, <2>1, <2>2
  <1>6. R * m <= reloads * m /\ R * m \in Nat /\ reloads * m \in Nat
    <2>1. R <= reloads
      BY <1>1
    <2> HIDE DEF R, m
    <2> QED
      BY <1>1, <2>1, ProductGrows
  <1>7. Cardinality(Dropped) + ToStart + Cardinality(Outside) <= R * m
    BY DEF OrphansAreCharged
  <1>8. Cardinality(Unsupervised) \in Nat
    <2> HIDE DEF children
    <2> QED
      BY <1>2, <1>4, FS_Subset, FS_CardinalityType
  <1>9. Cardinality(Unsupervised) <= reloads * m
    <2> HIDE DEF R, m
    <2> QED
      BY <1>1, <1>5, <1>6, <1>7, <1>8
  <1> QED
    BY <1>9 DEF OrphansPerReload

\* A Child that tokio drops lives on, and start() of a reload drops what it finds
\* in a slot; a replaced slot can be restarted by who still has it.  However often
\* reloads, handlers, the monitor and disconnects meet, that is at most one process
\* per slot and reload.
THEOREM OrphansAreBounded == LifecycleSpec => []OrphansPerReload
  <1>1. LifecycleInit => SlotsAreMade /\ OrphansAreCharged
    BY MadeInit, ChargeInit
  <1>2. LifecycleControl /\ SlotsAreMade /\ OrphansAreCharged /\ [LifecycleNext]_lifecycleVars
          => (SlotsAreMade /\ OrphansAreCharged)'
    BY MadeStep, ResizeCharges, ChargeKept
  <1>3. LifecycleControl /\ SlotsAreMade /\ OrphansAreCharged => OrphansPerReload
    BY UnsupervisedAreCharged
  <1> QED
    BY <1>1, <1>2, <1>3, LifecycleIsControlled, PTL DEF LifecycleSpec
=============================================================================
