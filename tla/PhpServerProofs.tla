--------------------------- MODULE PhpServerProofs ---------------------------
(***************************************************************************)
(* Proofs about PhpServer, for every number of slots, requests and pids.   *)
(***************************************************************************)
EXTENDS PhpServer, FiniteSetTheorems, TLAPS

USE DEF procVars, slotVars, taskVars, poolVars, monitorVars

\* What is assumed of the constants.
LEMMA Assumptions ==
    /\ WorkerAssumption
    /\ HandlerAssumption
    /\ MonitorAssumption
    /\ ServerAssumption
  BY WorkerAssumption, HandlerAssumption, MonitorAssumption, ServerAssumption

-----------------------------------------------------------------------------
\* The initial state is typed and nobody holds a lock.
LEMMA TypeInit == Init => Control /\ pool # <<>>
  <1> SUFFICES ASSUME Init PROVE Control /\ pool # <<>>
    OBVIOUS
  <1> USE Assumptions DEF WorkerAssumption, HandlerAssumption,
          MonitorAssumption, ServerAssumption
  <1>1. ProcTypeOK
    BY DEF Init, ProcInit, ProcTypeOK, Connections, Replies
  <1>2. WorkerTypeOK
    <2>1. pc \in [Tasks -> Labels]
      BY DEF Init, Labels, HandlerLabels, MonitorLabels, AdminLabels
    <2>2. call \in [Tasks -> Calls]
      BY DEF Init, WorkerInit, Calls, NoCall
    <2>3. rss \in [Workers -> Nat]
      <3>1. Levels \cup {0} \subseteq Nat
        OBVIOUS
      <3>2. rss \in [Workers -> Levels \cup {0}]
        BY DEF Init, WorkerInit
      <3> QED
        BY <3>1, <3>2
    <2> QED
      BY <2>1, <2>2, <2>3 DEF Init, WorkerInit, WorkerTypeOK
  <1>3. PoolTypeOK /\ pool # <<>>
    <2>1. Slots \in Seq(Workers) /\ Slots # <<>>
      OBVIOUS
    <2>2. 0 < Len(Slots)
      BY <2>1
    <2> QED
      BY <2>1, <2>2 DEF Init, HandlerInit, PoolTypeOK
  <1>4. MonitorTypeOK
    <2>1. <<>> \in Seq(Workers)
      OBVIOUS
    <2>2. heaviest \in [slot : Workers \cup {None}, level : Nat]
      BY DEF Init, MonitorInit, NoCandidate
    <2> QED
      BY <2>1, <2>2 DEF Init, MonitorInit, MonitorTypeOK
  <1>5. LocksAreOwned
    BY DEF Init, WorkerInit, LocksAreOwned, OperationLabels
  <1>6. \A t \in Tasks : pc[t] \notin SlotLabels
    BY DEF Init, SlotLabels, InFlight
  <1> QED
    BY <1>1, <1>2, <1>3, <1>4, <1>5, <1>6 DEF Control, ServerTypeOK

-----------------------------------------------------------------------------
(* Each operation on the PHP processes keeps their types. *)

\* The process operations that the server calls keep the types: a spawn,
LEMMA LaunchType ==
    ASSUME ProcTypeOK, NEW p \in Pids, NEW s \in Sockets, Launch(p, s)
    PROVE  ProcTypeOK'
  BY DEF ProcTypeOK, Launch

\* the end of a process,
LEMMA VanishType ==
    ASSUME ProcTypeOK, NEW p \in Pids, NEW paths, Vanish(p, paths)
    PROVE  ProcTypeOK'
  <1>1. <<>> \in Seq(Connections)
    OBVIOUS
  <1> QED
    BY <1>1 DEF ProcTypeOK, Vanish, Replies

\* stop() of a slot,
LEMMA StopType ==
    ASSUME ProcTypeOK, WorkerTypeOK, NEW w \in Workers, Stop(w)
    PROVE  ProcTypeOK'
  BY VanishType DEF Stop, Die, WorkerTypeOK, ProcTypeOK

\* a connection that is opened,
LEMMA DialType ==
    ASSUME ProcTypeOK, NEW r \in Requests, NEW p \in Pids, Dial(r, p)
    PROVE  ProcTypeOK'
  <1>1. Append(backlog[p], r) \in Seq(Connections)
    BY DEF ProcTypeOK, Connections
  <1> QED
    BY <1>1 DEF ProcTypeOK, Dial

\* read to its end,
LEMMA HangUpType ==
    ASSUME ProcTypeOK, NEW r \in Requests, HangUp(r)
    PROVE  ProcTypeOK'
  BY DEF ProcTypeOK, HangUp, Replies

\* and dropped before the answer.
LEMMA AbandonType ==
    ASSUME ProcTypeOK, NEW r, NEW mark \in {Gone, Bereft}, Abandon(r, mark)
    PROVE  ProcTypeOK'
  <1>1. ASSUME NEW p \in Pids
        PROVE  backlog'[p] \in Seq(Connections)
    <2>1. backlog[p] \in Seq(Connections)
      BY DEF ProcTypeOK
    <2>2. \A i \in DOMAIN backlog[p] : backlog[p][i] \in Connections
      BY <2>1
    <2> QED
      BY <2>1, <2>2 DEF Abandon, Connections
  <1>2. backlog' \in [Pids -> Seq(Connections)]
    BY <1>1 DEF Abandon
  <1>3. serving' \in [Pids -> Connections \cup {None}]
    BY DEF ProcTypeOK, Abandon, Connections
  <1> QED
    BY <1>2, <1>3 DEF ProcTypeOK, Abandon

\* So does every step that a PHP process takes by itself.
LEMMA ProcNextType ==
    ASSUME ProcTypeOK, ProcNext
    PROVE  ProcTypeOK'
  <1> PICK p \in Pids : \/ Boot(p)
                        \/ Accept(p)
                        \/ Respond(p)
                        \/ CloseSilently(p)
                        \/ Crash(p)
                        \/ Terminate(p)
    BY DEF ProcNext
  <1>1. CASE Boot(p)
    BY <1>1 DEF Boot, ProcTypeOK
  <1>2. CASE Accept(p)
    <2>1. backlog[p] \in Seq(Connections) /\ backlog[p] # <<>>
      BY <1>2 DEF ProcTypeOK, Accept
    <2>2. /\ Head(backlog[p]) \in Connections
          /\ Tail(backlog[p]) \in Seq(Connections)
      BY <2>1
    <2> QED
      BY <1>2, <2>2 DEF Accept, ProcTypeOK
  <1>3. ASSUME NEW outcome \in Replies, Close(p, outcome)
        PROVE  ProcTypeOK'
    BY <1>3 DEF Close, ProcTypeOK
  <1>4. CASE Crash(p)
    BY <1>4, VanishType DEF Crash, Die
  <1>5. CASE Terminate(p)
    BY <1>5, VanishType DEF Terminate
  <1> QED
    BY <1>1, <1>2, <1>3, <1>4, <1>5 DEF Respond, CloseSilently, Replies

-----------------------------------------------------------------------------
(* Control is inductive. *)

\* The labels by name, so that the provers can compare them.
LEMMA LabelFacts ==
    /\ OperationLabels \cap SlotLabels = {}
    /\ SlotLabels \cap Resting = {}
    /\ OperationLabels \cap Resting = {}
    /\ ReturnLabels \cap OperationLabels = {}
    /\ ReturnLabels \subseteq Labels
    /\ SlotLabels \subseteq Labels
    /\ OperationLabels \subseteq Labels
    /\ ReturnLabels \cap SlotLabels = {"body"}
    /\ Resting \subseteq Labels
  BY DEF OperationLabels, SlotLabels, Resting, ReturnLabels, Labels,
         HandlerLabels, MonitorLabels, AdminLabels, InFlight

\* A task that holds no lock goes to a step outside any operation.
LEMMA GotoControl ==
    ASSUME Control, NEW t \in Tasks, pc[t] \notin OperationLabels,
           NEW w \in Workers \cup {None}, NEW l \in Labels \ OperationLabels,
           l \in SlotLabels => w \in Workers,
           Goto(t, w, l), lock' = lock
    PROVE  /\ LocksAreOwned'
           /\ \A u \in Tasks : pc'[u] \in SlotLabels => cur'[u] \in Workers
           /\ pc' \in [Tasks -> Labels]
           /\ cur' \in [Tasks -> Workers \cup {None}]
           /\ call' \in [Tasks -> Calls]
  <1> USE Assumptions DEF ServerAssumption
  <1>1. /\ pc \in [Tasks -> Labels]
        /\ cur \in [Tasks -> Workers \cup {None}]
        /\ call \in [Tasks -> Calls]
        /\ lock \in [Workers -> Tasks \cup {None}]
    BY DEF Control, ServerTypeOK, WorkerTypeOK
  <1>2. LocksAreOwned'
    BY <1>1 DEF Goto, Control, LocksAreOwned
  <1>3. \A u \in Tasks : pc'[u] \in SlotLabels => cur'[u] \in Workers
    BY <1>1, LabelFacts DEF Goto, Control
  <1>4. NoCall \in Calls
    BY DEF NoCall, Calls
  <1> QED
    BY <1>1, <1>2, <1>3, <1>4 DEF Goto

\* A task takes a free lock and enters an operation.
LEMMA EnterControl ==
    ASSUME Control, NEW t \in Tasks, pc[t] \notin OperationLabels,
           NEW w \in Workers, lock[w] = None, NEW l \in OperationLabels,
           NEW c \in Calls \ {NoCall}, Enter(t, w, l, c)
    PROVE  /\ LocksAreOwned'
           /\ \A u \in Tasks : pc'[u] \in SlotLabels => cur'[u] \in Workers
           /\ pc' \in [Tasks -> Labels]
           /\ cur' \in [Tasks -> Workers \cup {None}]
           /\ call' \in [Tasks -> Calls]
           /\ lock' \in [Workers -> Tasks \cup {None}]
  <1> USE Assumptions DEF ServerAssumption
  <1>1. /\ pc \in [Tasks -> Labels]
        /\ cur \in [Tasks -> Workers \cup {None}]
        /\ call \in [Tasks -> Calls]
        /\ lock \in [Workers -> Tasks \cup {None}]
    BY DEF Control, ServerTypeOK, WorkerTypeOK
  <1>2. LocksAreOwned'
    BY <1>1 DEF Enter, Control, LocksAreOwned
  <1>3. \A u \in Tasks : pc'[u] \in SlotLabels => cur'[u] \in Workers
    BY <1>1, LabelFacts DEF Enter, Control
  <1> QED
    BY <1>1, <1>2, <1>3, LabelFacts DEF Enter

\* The operation of a task returns.
LEMMA ReturnControl ==
    ASSUME Control, NEW t \in Tasks, pc[t] \in OperationLabels,
           NEW l \in ReturnLabels, Return(t, l)
    PROVE  /\ LocksAreOwned'
           /\ \A u \in Tasks : pc'[u] \in SlotLabels => cur'[u] \in Workers
           /\ pc' \in [Tasks -> Labels]
           /\ cur' \in [Tasks -> Workers \cup {None}]
           /\ call' \in [Tasks -> Calls]
           /\ lock' \in [Workers -> Tasks \cup {None}]
  <1> USE Assumptions DEF ServerAssumption
  <1>1. /\ pc \in [Tasks -> Labels]
        /\ cur \in [Tasks -> Workers \cup {None}]
        /\ call \in [Tasks -> Calls]
        /\ lock \in [Workers -> Tasks \cup {None}]
    BY DEF Control, ServerTypeOK, WorkerTypeOK
  <1>2. cur[t] \in Workers /\ lock[cur[t]] = t
    BY DEF Control, LocksAreOwned
  <1>3. LocksAreOwned'
    BY <1>1, <1>2, LabelFacts DEF Return, Goto, Control, LocksAreOwned
  <1>4. \A u \in Tasks : pc'[u] \in SlotLabels => cur'[u] \in Workers
    BY <1>1, <1>2, LabelFacts DEF Return, Goto, Control
  <1>5. NoCall \in Calls
    BY DEF NoCall, Calls
  <1> QED
    BY <1>1, <1>2, <1>3, <1>4, <1>5, LabelFacts DEF Return, Goto

-----------------------------------------------------------------------------
\* What an operation of a slot needs to know of the state it starts in.
LEMMA TypeFacts ==
    ASSUME Control
    PROVE  /\ lock \in [Workers -> Tasks \cup {None}]
           /\ process \in [Workers -> Pids \cup {None}]
           /\ draining \in [Workers -> BOOLEAN]
           /\ active \in [Workers -> Nat]
           /\ handled \in [Workers -> Nat]
           /\ phpmem \in [Workers -> Nat]
           /\ rss \in [Workers -> Nat]
           /\ pc \in [Tasks -> Labels]
           /\ cur \in [Tasks -> Workers \cup {None}]
           /\ call \in [Tasks -> Calls]
           /\ ProcTypeOK
           /\ PoolTypeOK
           /\ MonitorTypeOK
  BY DEF Control, ServerTypeOK, WorkerTypeOK

\* Memory levels are natural numbers.
LEMMA ObservedIsNat ==
    ASSUME Control, NEW w \in Workers, NEW p, NEW level \in Observed(w, p)
    PROVE  level \in Nat
  <1>1. Levels \subseteq Nat
    BY Assumptions DEF WorkerAssumption
  <1>2. rss[w] \in Nat
    BY TypeFacts
  <1>3. CASE p = None
    BY <1>2, <1>3 DEF Observed
  <1>4. CASE p # None /\ p \in alive
    BY <1>1, <1>4 DEF Observed
  <1>5. CASE p # None /\ p \notin alive
    BY <1>5 DEF Observed
  <1> QED
    BY <1>3, <1>4, <1>5

\* stop() keeps the types of what it changes in the slot.
LEMMA StopRss ==
    ASSUME Control, NEW w \in Workers, Stop(w)
    PROVE  /\ rss' \in [Workers -> Nat]
           /\ process' \in [Workers -> Pids \cup {None}]
           /\ ProcTypeOK'
  <1>1. ProcTypeOK'
    BY StopType DEF Control, ServerTypeOK
  <1>2. process' \in [Workers -> Pids \cup {None}]
    BY TypeFacts DEF Stop
  <1>3. rss' \in [Workers -> Nat]
    BY TypeFacts DEF Stop
  <1> QED
    BY <1>1, <1>2, <1>3

\* Who runs an operation works with a slot whose lock it holds, and the
\* operation knows where to return.
LEMMA OperationCall ==
    ASSUME Control, NEW t \in Tasks, pc[t] \in OperationLabels
    PROVE  /\ cur[t] \in Workers
           /\ lock[cur[t]] = t
           /\ call[t].op \in {"ensure", "recycle", "start"}
           /\ call[t].done \in ReturnLabels
           /\ call[t].failed \in ReturnLabels
  BY TypeFacts DEF Control, LocksAreOwned, Calls

\* A task moves on inside its operation.
LEMMA StayControl ==
    ASSUME Control, NEW t \in Tasks, pc[t] \in OperationLabels,
           NEW l \in OperationLabels, pc' = [pc EXCEPT ![t] = l],
           UNCHANGED <<lock, cur, call>>
    PROVE  /\ LocksAreOwned'
           /\ \A u \in Tasks : pc'[u] \in SlotLabels => cur'[u] \in Workers
           /\ pc' \in [Tasks -> Labels]
  <1> USE Assumptions, TypeFacts DEF ServerAssumption
  <1>1. LocksAreOwned'
    BY DEF Control, LocksAreOwned
  <1> QED
    BY <1>1, LabelFacts DEF Control

\* The steps inside an operation keep Control.
LEMMA WorkerStepControl ==
    ASSUME Control, NEW t \in Tasks, WorkerStep(t)
    PROVE  /\ ProcTypeOK'
           /\ WorkerTypeOK'
           /\ LocksAreOwned'
           /\ \A u \in Tasks : pc'[u] \in SlotLabels => cur'[u] \in Workers
  <1> USE TypeFacts
  <1>0. /\ "drain" \in OperationLabels
        /\ "spawn" \in OperationLabels
        /\ "ready" \in OperationLabels
    BY DEF OperationLabels
  <1>1. CASE StopOld(t)
    BY <1>0, <1>1, StopRss, OperationCall, StayControl
       DEF StopOld, WorkerTypeOK
  <1>2. CASE Spawn(t)
    <2>1. PICK p \in Pids : /\ Launch(p, SocketOf[cur[t]])
                            /\ process' = [process EXCEPT ![cur[t]] = p]
      BY <1>2 DEF Spawn, FreshPids
    <2>2. SocketOf[cur[t]] \in Sockets
      <3>1. cur[t] \in Workers
        BY <1>0, <1>2, OperationCall DEF Spawn
      <3>2. SocketOf \in [Workers -> Sockets]
        BY Assumptions DEF WorkerAssumption
      <3> QED
        BY <3>1, <3>2
    <2>3. ProcTypeOK'
      BY <2>1, <2>2, LaunchType
    <2> QED
      BY <1>0, <1>2, <2>1, <2>3, StayControl DEF Spawn, WorkerTypeOK
  <1>3. CASE SpawnFails(t)
    <2>1. /\ cur[t] \in Workers
          /\ call[t].failed \in ReturnLabels
          /\ Return(t, call[t].failed)
      BY <1>0, <1>3, OperationCall DEF SpawnFails
    <2>2. ProcTypeOK'
      BY <1>3 DEF SpawnFails, ProcTypeOK
    <2>3. draining' \in [Workers -> BOOLEAN]
      BY <1>3, <2>1 DEF SpawnFails, DrainingAfter
    <2> QED
      BY <1>0, <1>3, <2>1, <2>2, <2>3, ReturnControl DEF SpawnFails, WorkerTypeOK
  <1>4. CASE Ready(t)
    <2>1. /\ cur[t] \in Workers
          /\ call[t].done \in ReturnLabels
          /\ Return(t, call[t].done)
      BY <1>0, <1>4, OperationCall DEF Ready
    <2>2. ProcTypeOK'
      BY <1>4 DEF Ready, ProcTypeOK
    <2>3. draining' \in [Workers -> BOOLEAN]
      BY <1>4, <2>1 DEF Ready, DrainingAfter
    <2>4. rss' \in [Workers -> Nat]
      BY <1>4, <2>1, ObservedIsNat DEF Ready
    <2> QED
      BY <1>0, <1>4, <2>1, <2>2, <2>3, <2>4, ReturnControl DEF Ready, WorkerTypeOK
  <1> QED
    BY <1>1, <1>2, <1>3, <1>4 DEF WorkerStep

\* What ensure_running and graceful_recycle keep when a task enters them.
LEMMA EnsureControl ==
    ASSUME Control, NEW t \in Tasks, pc[t] \notin OperationLabels,
           NEW w \in Workers, lock[w] = None,
           NEW c \in Calls \ {NoCall}, EnsureRunning(t, w, c)
    PROVE  /\ ProcTypeOK'
           /\ LocksAreOwned'
           /\ \A u \in Tasks : pc'[u] \in SlotLabels => cur'[u] \in Workers
           /\ pc' \in [Tasks -> Labels]
           /\ cur' \in [Tasks -> Workers \cup {None}]
           /\ call' \in [Tasks -> Calls]
           /\ lock' \in [Workers -> Tasks \cup {None}]
           /\ process' \in [Workers -> Pids \cup {None}]
           /\ rss' \in [Workers -> Nat]
  <1>1. CASE IsRunning(w)
    <2>1. Goto(t, w, c.done) /\ UNCHANGED <<procVars, lock, process, rss>>
      BY <1>1 DEF EnsureRunning
    <2>2. ProcTypeOK'
      BY <2>1, TypeFacts DEF ProcTypeOK
    <2>3. c.done \in Labels \ OperationLabels
      BY LabelFacts DEF Calls
    <2> QED
      BY <2>1, <2>2, <2>3, GotoControl, TypeFacts
  <1>2. CASE ~IsRunning(w)
    <2>1. Enter(t, w, "spawn", c) /\ Stop(w)
      BY <1>2 DEF EnsureRunning
    <2>2. "spawn" \in OperationLabels
      BY DEF OperationLabels
    <2> QED
      BY <2>1, <2>2, EnterControl, StopRss
  <1> QED
    BY <1>1, <1>2

\* graceful_recycle, entered by a task that has just got the lock, keeps the
\* lock discipline.
LEMMA RecycleControl ==
    ASSUME Control, NEW t \in Tasks, pc[t] \notin OperationLabels,
           NEW w \in Workers, lock[w] = None,
           NEW c \in Calls \ {NoCall}, GracefulRecycle(t, w, c)
    PROVE  /\ LocksAreOwned'
           /\ \A u \in Tasks : pc'[u] \in SlotLabels => cur'[u] \in Workers
           /\ pc' \in [Tasks -> Labels]
           /\ cur' \in [Tasks -> Workers \cup {None}]
           /\ call' \in [Tasks -> Calls]
           /\ lock' \in [Workers -> Tasks \cup {None}]
           /\ draining' \in [Workers -> BOOLEAN]
  <1>1. CASE draining[w]
    <2>1. Goto(t, w, c.done) /\ UNCHANGED <<lock, draining>>
      BY <1>1 DEF GracefulRecycle
    <2>2. c.done \in Labels \ OperationLabels
      BY LabelFacts DEF Calls
    <2> QED
      BY <2>1, <2>2, GotoControl, TypeFacts
  <1>2. CASE ~draining[w]
    <2>1. /\ Enter(t, w, "drain", c)
          /\ draining' = [draining EXCEPT ![w] = TRUE]
      BY <1>2 DEF GracefulRecycle
    <2>2. "drain" \in OperationLabels
      BY DEF OperationLabels
    <2> QED
      BY <2>1, <2>2, EnterControl, TypeFacts
  <1> QED
    BY <1>1, <1>2

\* The calls that handlers and the monitor make.
LEMMA CallFacts ==
    /\ Ensure("body", "idle") \in Calls \ {NoCall}
    /\ Ensure("idle", "idle") \in Calls \ {NoCall}
    /\ Recycle("idle", "idle") \in Calls \ {NoCall}
    /\ Recycle("sweep", "sweep") \in Calls \ {NoCall}
    /\ Recycle("sleep", "sleep") \in Calls \ {NoCall}
  BY DEF Ensure, Recycle, Calls, NoCall, ReturnLabels

\* The decrement stays in the natural numbers.
LEMMA UnmarkType ==
    ASSUME Control, NEW w \in Workers, Unmark(w)
    PROVE  active' \in [Workers -> Nat]
  BY TypeFacts DEF Unmark

\* The round robin always points at a slot of a pool that has any.
LEMMA CandidateType ==
    ASSUME Control, pool # <<>>
    PROVE  /\ Candidate \in Workers
           /\ Advance => current' \in Nat /\ current' < Len(pool)
  <1>1. pool \in Seq(Workers) /\ current \in 0..(Len(pool) - 1)
    BY TypeFacts DEF PoolTypeOK
  <1>2. current + 1 \in 1..Len(pool)
    BY <1>1
  <1>3. Advance => current' \in 0..(Len(pool) - 1)
    BY <1>1, <1>2 DEF Advance
  <1> QED
    BY <1>1, <1>2, <1>3 DEF Candidate

\* Choosing a slot keeps Control.
LEMMA ChooseControl ==
    ASSUME Control, pool # <<>>, NEW r \in Requests, NEW w \in Workers,
           pc[r] = "probe", Choose(r, w)
    PROVE  /\ ProcTypeOK'
           /\ WorkerTypeOK'
           /\ PoolTypeOK'
           /\ LocksAreOwned'
           /\ \A u \in Tasks : pc'[u] \in SlotLabels => cur'[u] \in Workers
  <1> USE TypeFacts
  <1>1. r \in Tasks
    BY Assumptions DEF HandlerAssumption
  <1>2. pc[r] \notin OperationLabels /\ "ensure" \in Labels \ OperationLabels
    BY DEF OperationLabels, Labels, HandlerLabels
  <1>3. ProcTypeOK'
    BY DEF Choose, ProcTypeOK
  <1>4. PoolTypeOK'
    BY CandidateType DEF Choose, PoolTypeOK
  <1> QED
    BY <1>1, <1>2, <1>3, <1>4, GotoControl DEF Choose, WorkerTypeOK

\* Where a handler stands when it takes a step of its own.
LEMMA HandlerFacts ==
    ASSUME Control, NEW r \in Requests
    PROVE  /\ r \in Tasks
           /\ pc[r] \in HandlerLabels => pc[r] \notin OperationLabels
           /\ pc[r] \in SlotLabels => cur[r] \in Workers
  <1>1. r \in Tasks
    BY Assumptions DEF HandlerAssumption
  <1>2. HandlerLabels \cap OperationLabels = {}
    BY DEF HandlerLabels, OperationLabels
  <1> QED
    BY <1>1, <1>2 DEF Control

\* The steps of a handler keep Control.
LEMMA HandlerStepControl ==
    ASSUME Control, NEW r \in Requests, HandlerStep(r) \/ Route(r),
           pc[r] = "probe" => pool # <<>>
    PROVE  /\ ProcTypeOK'
           /\ WorkerTypeOK'
           /\ PoolTypeOK'
           /\ LocksAreOwned'
           /\ \A u \in Tasks : pc'[u] \in SlotLabels => cur'[u] \in Workers
  <1> DEFINE Kept == /\ ProcTypeOK'
                     /\ WorkerTypeOK'
                     /\ PoolTypeOK'
                     /\ LocksAreOwned'
                     /\ \A u \in Tasks : pc'[u] \in SlotLabels => cur'[u] \in Workers
  <1> USE TypeFacts, HandlerFacts
  <1>l. /\ {"probe", "pick", "idle"} \subseteq HandlerLabels \ SlotLabels
        /\ {"ensure", "body", "mark", "recycle", "connect", "await", "ok",
            "failed", "timedout"} \subseteq HandlerLabels \cap SlotLabels
        /\ HandlerLabels \subseteq Labels \ OperationLabels
    BY DEF HandlerLabels, SlotLabels, InFlight, Labels, OperationLabels
  <1>0. ASSUME NEW l \in {"pick", "probe"}, pc[r] \notin OperationLabels,
               pc' = [pc EXCEPT ![r] = l],
               UNCHANGED <<procVars, slotVars, cur, call>>
        PROVE  /\ ProcTypeOK'
               /\ WorkerTypeOK'
               /\ LocksAreOwned'
               /\ \A u \in Tasks : pc'[u] \in SlotLabels => cur'[u] \in Workers
    <2>1. ProcTypeOK'
      BY <1>0 DEF ProcTypeOK
    <2>2. WorkerTypeOK'
      BY <1>0, <1>l DEF WorkerTypeOK
    <2>3. LocksAreOwned'
      BY <1>0, <1>l DEF Control, LocksAreOwned
    <2> QED
      BY <1>0, <1>l, <2>1, <2>2, <2>3 DEF Control
  <1>1. CASE Route(r)
    BY <1>0, <1>1, <1>l DEF Route, PoolTypeOK
  <1>2. CASE EnterPool(r)
    BY <1>0, <1>2, <1>l DEF EnterPool, PoolTypeOK
  <1>3. CASE ProbeHit(r)
    BY <1>3, ChooseControl, CandidateType DEF ProbeHit
  <1>4. CASE ProbeMiss(r)
    <2>1. PoolTypeOK'
      <3>1. current' \in Nat /\ current' < Len(pool)
        BY <1>4, CandidateType DEF ProbeMiss
      <3>2. tries' \in [Requests -> Nat]
        BY <1>4 DEF ProbeMiss, PoolTypeOK
      <3> QED
        BY <1>4, <3>1, <3>2 DEF ProbeMiss, PoolTypeOK
    <2>2. ProcTypeOK' /\ WorkerTypeOK'
      BY <1>4 DEF ProbeMiss, ProcTypeOK, WorkerTypeOK
    <2>3. LocksAreOwned'
      BY <1>4 DEF ProbeMiss, Control, LocksAreOwned
    <2> QED
      BY <1>4, <2>1, <2>2, <2>3 DEF ProbeMiss, Control
  <1>5. CASE Fallback(r)
    BY <1>5, ChooseControl, CandidateType DEF Fallback
  <1>6. CASE EnsureBefore(r)
    BY <1>6, <1>l, EnsureControl, CallFacts
       DEF EnsureBefore, WorkerTypeOK, PoolTypeOK
  <1>7. ASSUME NEW l \in HandlerLabels, pc[r] \in HandlerLabels \cap SlotLabels,
               Goto(r, cur[r], l), UNCHANGED <<slotVars, poolVars>>, ProcTypeOK'
        PROVE  Kept
    BY <1>7, <1>l, GotoControl DEF WorkerTypeOK, PoolTypeOK
  <1>8. CASE ReadBody(r)
    BY <1>7, <1>8, <1>l DEF ReadBody, ProcTypeOK
  <1>9. CASE RefuseBody(r)
    BY <1>7, <1>9, <1>l DEF RefuseBody, ProcTypeOK
  <1>10. CASE MarkActive(r)
    <2>1. ProcTypeOK'
      BY <1>10 DEF MarkActive, ProcTypeOK
    <2>2. active' \in [Workers -> Nat]
      <3>1. active[cur[r]] + 1 \in Nat
        BY <1>10, <1>l DEF MarkActive
      <3> QED
        BY <1>10, <3>1 DEF MarkActive
    <2>3. /\ LocksAreOwned'
          /\ \A u \in Tasks : pc'[u] \in SlotLabels => cur'[u] \in Workers
          /\ pc' \in [Tasks -> Labels]
          /\ cur' \in [Tasks -> Workers \cup {None}]
          /\ call' \in [Tasks -> Calls]
      BY <1>10, <1>l, GotoControl DEF MarkActive
    <2>4. WorkerTypeOK'
      BY <1>10, <2>2, <2>3 DEF MarkActive, WorkerTypeOK
    <2> QED
      BY <1>10, <2>1, <2>3, <2>4 DEF MarkActive, PoolTypeOK
  <1>11. CASE Connect(r)
    <2>1. cur[r] \in Workers
      BY <1>11, <1>l DEF Connect
    <2>2. SocketOf \in [Workers -> Sockets]
      BY Assumptions DEF WorkerAssumption
    <2>3. listener[SocketOf[cur[r]]] \in Pids
      BY <1>11, <2>1, <2>2 DEF Connect, ProcTypeOK
    <2>4. ProcTypeOK'
      BY <1>11, <2>3, DialType DEF Connect
    <2> QED
      BY <1>7, <1>11, <1>l, <2>4 DEF Connect
  <1>12. CASE ConnectRefused(r)
    BY <1>7, <1>12, <1>l DEF ConnectRefused, ProcTypeOK
  <1>13. CASE Receive(r)
    BY <1>7, <1>13, <1>l, HangUpType DEF Receive
  <1>14. CASE Timeout(r)
    BY <1>7, <1>14, <1>l, AbandonType DEF Timeout
  <1>15. CASE Settle(r)
    <2>1. cur[r] \in Workers
      BY <1>15, <1>l DEF Settle
    <2>2. PICK mem \in Levels, level \in Observed(cur[r], process[cur[r]]) :
            /\ phpmem' = [phpmem EXCEPT ![cur[r]] = mem]
            /\ rss' = [rss EXCEPT ![cur[r]] = level]
            /\ Goto(r, cur[r], IF ShouldRestart(level, mem, handled[cur[r]] + 1)
                                 THEN "recycle" ELSE "idle")
      BY <1>15 DEF Settle
    <2>3. mem \in Nat
      BY Assumptions DEF WorkerAssumption
    <2>4. level \in Nat
      BY <2>1, ObservedIsNat
    <2>5. ProcTypeOK'
      BY <1>15 DEF Settle, ProcTypeOK
    <2>6. active' \in [Workers -> Nat]
      BY <1>15, <2>1, UnmarkType DEF Settle
    <2>7. PICK l \in HandlerLabels : Goto(r, cur[r], l)
      BY <2>2, <1>l
    <2>8. /\ LocksAreOwned'
          /\ \A u \in Tasks : pc'[u] \in SlotLabels => cur'[u] \in Workers
          /\ pc' \in [Tasks -> Labels]
          /\ cur' \in [Tasks -> Workers \cup {None}]
          /\ call' \in [Tasks -> Calls]
      BY <1>15, <1>l, <2>1, <2>7, GotoControl DEF Settle
    <2>9. /\ phpmem' \in [Workers -> Nat]
          /\ rss' \in [Workers -> Nat]
          /\ handled' \in [Workers -> Nat]
      <3>1. handled[cur[r]] + 1 \in Nat
        BY <2>1
      <3> QED
        BY <1>15, <2>2, <2>3, <2>4, <3>1 DEF Settle
    <2>10. WorkerTypeOK'
      BY <1>15, <2>6, <2>8, <2>9 DEF Settle, WorkerTypeOK
    <2> QED
      BY <1>15, <2>5, <2>8, <2>10 DEF Settle, PoolTypeOK
  <1>16. CASE RecycleAfter(r)
    <2>1. ProcTypeOK'
      BY <1>16 DEF RecycleAfter, ProcTypeOK
    <2> QED
      BY <1>16, <1>l, <2>1, RecycleControl, CallFacts
         DEF RecycleAfter, WorkerTypeOK, PoolTypeOK
  <1>17. CASE SettleFailed(r)
    BY <1>17, <1>l, EnsureControl, UnmarkType, CallFacts
       DEF SettleFailed, WorkerTypeOK, PoolTypeOK
  <1>18. CASE SettleTimedOut(r)
    <2>1. ProcTypeOK'
      BY <1>18 DEF SettleTimedOut, ProcTypeOK
    <2> QED
      BY <1>18, <1>l, <2>1, RecycleControl, UnmarkType, CallFacts
         DEF SettleTimedOut, WorkerTypeOK, PoolTypeOK
  <1>19. CASE WorkerStep(r) /\ UNCHANGED poolVars
    BY <1>19, WorkerStepControl DEF PoolTypeOK
  <1> QED
    BY <1>1, <1>2, <1>3, <1>4, <1>5, <1>6, <1>8, <1>9, <1>10, <1>11, <1>12,
       <1>13, <1>14, <1>15, <1>16, <1>17, <1>18, <1>19 DEF HandlerStep

\* The steps of the monitor keep Control.
LEMMA MonitorStepControl ==
    ASSUME Control, MonitorNext
    PROVE  Control'
  <1> USE TypeFacts
  <1>m. Monitor \in Tasks
    BY Assumptions DEF MonitorAssumption
  <1>l. /\ {"sleep", "snapshot", "sweep"} \subseteq Labels \ OperationLabels
        /\ {"sleep", "snapshot", "sweep"} \cap SlotLabels = {}
    BY DEF Labels, MonitorLabels, AdminLabels, OperationLabels, SlotLabels, InFlight
  <1>q. todo \in Seq(Workers)
    BY DEF MonitorTypeOK
  <1>h. todo # <<>> => Head(todo) \in Workers /\ Tail(todo) \in Seq(Workers)
    BY <1>q
  <1>1. CASE Wake(pmLock) /\ UNCHANGED poolVars
    <2>1. ProcTypeOK' /\ WorkerTypeOK' /\ PoolTypeOK' /\ MonitorTypeOK'
      BY <1>1, <1>m, <1>l
         DEF Wake, ProcTypeOK, WorkerTypeOK, PoolTypeOK, MonitorTypeOK
    <2>2. LocksAreOwned'
      BY <1>1, <1>m, <1>l DEF Wake, Control, LocksAreOwned
    <2> QED
      BY <1>1, <1>m, <1>l, <2>1, <2>2 DEF Wake, Control, ServerTypeOK
  <1>2. CASE Snapshot(poolLock, pool) /\ UNCHANGED poolVars
    <2>1. ProcTypeOK' /\ WorkerTypeOK' /\ PoolTypeOK' /\ MonitorTypeOK'
      BY <1>2, <1>m, <1>l
         DEF Snapshot, ProcTypeOK, WorkerTypeOK, PoolTypeOK, MonitorTypeOK
    <2>2. LocksAreOwned'
      BY <1>2, <1>m, <1>l DEF Snapshot, Control, LocksAreOwned
    <2> QED
      BY <1>2, <1>m, <1>l, <2>1, <2>2 DEF Snapshot, Control, ServerTypeOK
  <1>3. CASE SweepRecycle /\ UNCHANGED poolVars
    <2>1. rss' \in [Workers -> Nat]
      BY <1>3, <1>h, ObservedIsNat DEF SweepRecycle
    <2>2. /\ LocksAreOwned'
          /\ \A u \in Tasks : pc'[u] \in SlotLabels => cur'[u] \in Workers
          /\ pc' \in [Tasks -> Labels]
          /\ cur' \in [Tasks -> Workers \cup {None}]
          /\ call' \in [Tasks -> Calls]
          /\ lock' \in [Workers -> Tasks \cup {None}]
          /\ draining' \in [Workers -> BOOLEAN]
      BY <1>3, <1>m, <1>l, <1>h, RecycleControl, CallFacts DEF SweepRecycle
    <2>3. ProcTypeOK' /\ PoolTypeOK'
      BY <1>3 DEF SweepRecycle, ProcTypeOK, PoolTypeOK
    <2>4. MonitorTypeOK'
      BY <1>3, <1>h DEF SweepRecycle, MonitorTypeOK
    <2>5. WorkerTypeOK'
      BY <1>3, <2>1, <2>2 DEF SweepRecycle, WorkerTypeOK
    <2> QED
      BY <2>2, <2>3, <2>4, <2>5 DEF Control, ServerTypeOK
  <1>4. CASE SweepTrack /\ UNCHANGED poolVars
    <2>1. PICK level \in Observed(Head(todo), process[Head(todo)]) :
            /\ rss' = [rss EXCEPT ![Head(todo)] = level]
            /\ heaviest' = IF pressure /\ level > heaviest.level
                             THEN [slot |-> Head(todo), level |-> level]
                             ELSE heaviest
      BY <1>4 DEF SweepTrack
    <2>2. level \in Nat
      BY <1>4, <1>h, ObservedIsNat DEF SweepTrack
    <2>3. heaviest' \in [slot : Workers \cup {None}, level : Nat]
      BY <1>4, <1>h, <2>1, <2>2 DEF SweepTrack, MonitorTypeOK
    <2>4. MonitorTypeOK'
      BY <1>4, <1>h, <2>3 DEF SweepTrack, MonitorTypeOK
    <2>5. ProcTypeOK' /\ PoolTypeOK'
      BY <1>4 DEF SweepTrack, ProcTypeOK, PoolTypeOK
    <2>6. WorkerTypeOK'
      BY <1>4, <2>1, <2>2 DEF SweepTrack, WorkerTypeOK
    <2>7. LocksAreOwned'
      BY <1>4 DEF SweepTrack, Control, LocksAreOwned
    <2> QED
      BY <1>4, <2>4, <2>5, <2>6, <2>7 DEF SweepTrack, Control, ServerTypeOK
  <1>5. CASE EndRound /\ UNCHANGED poolVars
    <2>1. /\ LocksAreOwned'
          /\ \A u \in Tasks : pc'[u] \in SlotLabels => cur'[u] \in Workers
          /\ pc' \in [Tasks -> Labels]
          /\ cur' \in [Tasks -> Workers \cup {None}]
          /\ call' \in [Tasks -> Calls]
      BY <1>5, <1>m, <1>l, GotoControl DEF EndRound
    <2>2. ProcTypeOK' /\ PoolTypeOK' /\ MonitorTypeOK'
      BY <1>5 DEF EndRound, ProcTypeOK, PoolTypeOK, MonitorTypeOK
    <2>3. WorkerTypeOK'
      BY <1>5, <2>1 DEF EndRound, WorkerTypeOK
    <2> QED
      BY <2>1, <2>2, <2>3 DEF Control, ServerTypeOK
  <1>6. CASE Evict /\ UNCHANGED poolVars
    <2>1. heaviest.slot \in Workers
      BY <1>6 DEF Evict, MonitorTypeOK
    <2>2. /\ LocksAreOwned'
          /\ \A u \in Tasks : pc'[u] \in SlotLabels => cur'[u] \in Workers
          /\ pc' \in [Tasks -> Labels]
          /\ cur' \in [Tasks -> Workers \cup {None}]
          /\ call' \in [Tasks -> Calls]
          /\ lock' \in [Workers -> Tasks \cup {None}]
          /\ draining' \in [Workers -> BOOLEAN]
      BY <1>6, <1>m, <1>l, <2>1, RecycleControl, CallFacts DEF Evict
    <2>3. ProcTypeOK' /\ PoolTypeOK'
      BY <1>6 DEF Evict, ProcTypeOK, PoolTypeOK
    <2>4. MonitorTypeOK'
      BY <1>6 DEF Evict, MonitorTypeOK, NoCandidate
    <2>5. WorkerTypeOK'
      BY <1>6, <2>2 DEF Evict, WorkerTypeOK
    <2> QED
      BY <2>2, <2>3, <2>4, <2>5 DEF Control, ServerTypeOK
  <1>7. CASE WorkerStep(Monitor) /\ UNCHANGED <<poolVars, monitorVars>>
    <2>1. PoolTypeOK' /\ MonitorTypeOK'
      BY <1>7 DEF PoolTypeOK, MonitorTypeOK
    <2> QED
      BY <1>7, <1>m, <2>1, WorkerStepControl DEF Control, ServerTypeOK
  <1> QED
    BY <1>1, <1>2, <1>3, <1>4, <1>5, <1>6, <1>7 DEF MonitorNext

\* Every step of the server keeps types and lock discipline.
LEMMA ControlStep ==
    ASSUME Control, pool # <<>>, [Next]_vars
    PROVE  Control' /\ pool' # <<>>
  <1>1. CASE UNCHANGED vars
    BY <1>1 DEF vars, Control, ServerTypeOK, ProcTypeOK, WorkerTypeOK, PoolTypeOK,
                MonitorTypeOK, LocksAreOwned
  <1>2. ASSUME NEW r \in Requests, HandlerStep(r) \/ Route(r), UNCHANGED monitorVars
        PROVE  Control'
    <2>1. MonitorTypeOK'
      BY <1>2, TypeFacts DEF MonitorTypeOK
    <2> QED
      BY <1>2, <2>1, HandlerStepControl DEF Control, ServerTypeOK
  <1>3. CASE PhpNext
    <2>1. ProcTypeOK'
      BY <1>3, TypeFacts, ProcNextType DEF PhpNext
    <2>2. UNCHANGED <<slotVars, taskVars, poolVars, monitorVars>>
      BY <1>3 DEF PhpNext
    <2> QED
      BY <2>1, <2>2 DEF Control, ServerTypeOK, WorkerTypeOK, PoolTypeOK,
                        MonitorTypeOK, LocksAreOwned
  <1>4. pool' = pool
    <2>1. ASSUME NEW r \in Requests, HandlerStep(r) \/ Route(r)
          PROVE  pool' = pool
      BY <2>1 DEF HandlerStep, Route, EnterPool, ProbeHit, ProbeMiss, Fallback, Choose,
                  EnsureBefore, ReadBody, RefuseBody, MarkActive, Connect, ConnectRefused,
                  Receive, Timeout, Settle, RecycleAfter, SettleFailed, SettleTimedOut
    <2> QED
      BY <2>1 DEF Next, HandlerNext, MonitorNext, PhpNext, vars
  <1> QED
    BY <1>1, <1>2, <1>3, <1>4, MonitorStepControl DEF Next, HandlerNext

\* Every reachable state has types and a pool.
LEMMA ControlAndPool == Spec => [](Control /\ pool # <<>>)
  <1>1. (Control /\ pool # <<>>) /\ [Next]_vars => (Control /\ pool # <<>>)'
    BY ControlStep
  <1> QED
    BY <1>1, TypeInit, PTL DEF Spec

\* The lock discipline: an operation runs under the lock of its slot, and a
\* lock that is held between two steps is held by the operation on its slot.
THEOREM ControlInvariant == Spec => []Control
  BY ControlAndPool, PTL

\* Every variable keeps its type.
THEOREM TypeCorrect == Spec => []TypeOK
  <1>1. Control /\ pool # <<>> => TypeOK
    BY DEF Control, TypeOK
  <1> QED
    BY <1>1, ControlAndPool, PTL

-----------------------------------------------------------------------------
(* Who moves in a step, and where. *)

\* The labels by name, so that the provers can compare them.
LEMMA AdminLabelFacts ==
    /\ AdminLabels = {"rest", "manager", "pool", "stopping", "starting", "visiting", "leave"}
    /\ OperationLabels = {"drain", "spawn", "ready"}
    /\ AdminLabels \subseteq Labels \ OperationLabels
    /\ AdminLabels \cap SlotLabels = {}
    /\ "probe" \in Labels \ (OperationLabels \cup SlotLabels \cup ReturnLabels)
    /\ {"rest", "manager", "pool", "stopping", "visiting", "snapshot"} \cap ReturnLabels = {}
    /\ {"idle", "panicked"} \subseteq Labels \ (OperationLabels \cup SlotLabels)
  BY DEF AdminLabels, OperationLabels, Labels, HandlerLabels, MonitorLabels, SlotLabels,
         InFlight, ReturnLabels

\* An operation of a task moves that task only, and ends where it was told to.
LEMMA WorkerMoves ==
    ASSUME Control, NEW t \in Tasks, WorkerStep(t)
    PROVE  /\ \A u \in Tasks \ {t} : pc'[u] = pc[u] /\ cur'[u] = cur[u] /\ call'[u] = call[u]
           /\ pc[t] \in OperationLabels
           /\ pc'[t] \in OperationLabels \cup ReturnLabels
  <1> USE TypeFacts
  <1>1. pc[t] \in OperationLabels
    BY DEF WorkerStep, StopOld, Spawn, SpawnFails, Ready, OperationLabels
  <1>2. CASE StopOld(t) \/ Spawn(t)
    BY <1>1, <1>2 DEF StopOld, Spawn, OperationLabels
  <1>3. CASE SpawnFails(t) \/ Ready(t)
    BY <1>1, <1>3, OperationCall DEF SpawnFails, Ready, Return, Goto
  <1> QED
    BY <1>1, <1>2, <1>3 DEF WorkerStep

\* Where the calls of handlers return to.
LEMMA HandlerReturns ==
    /\ Ensure("body", "idle").done = "body"
    /\ Ensure("idle", "idle").done = "idle"
    /\ Recycle("idle", "idle").done = "idle"
    /\ Recycle("sweep", "sweep").done = "sweep"
    /\ Recycle("sleep", "sleep").done = "sleep"
  BY DEF Ensure, Recycle

\* A step of a handler moves that handler only, and takes and gives back the
\* pool's mutex as it begins and ends its scan.
LEMMA StepMoves ==
    ASSUME Control, NEW r \in Requests, HandlerStep(r) \/ Route(r)
    PROVE  /\ \A u \in Tasks \ {r} : pc'[u] = pc[u] /\ cur'[u] = cur[u] /\ call'[u] = call[u]
           /\ UNCHANGED <<pmLock, pool>>
           /\ \/ poolLock = None /\ poolLock' = r /\ pc[r] # "probe" /\ pc'[r] = "probe"
              \/ poolLock' = None /\ pc[r] = "probe" /\ pc'[r] # "probe"
              \/ poolLock' = poolLock /\ (pc'[r] = "probe" <=> pc[r] = "probe")
  <1> USE TypeFacts, HandlerFacts, HandlerReturns
  <1>1. CASE Route(r) \/ EnterPool(r)
    BY <1>1 DEF Route, EnterPool
  <1>2. CASE ProbeHit(r) \/ Fallback(r)
    BY <1>2 DEF ProbeHit, Fallback, Choose, Goto
  <1>3. CASE ProbeMiss(r)
    BY <1>3 DEF ProbeMiss
  <1>4. CASE EnsureBefore(r) \/ SettleFailed(r)
    BY <1>4 DEF EnsureBefore, SettleFailed, EnsureRunning, Goto, Enter
  <1>5. CASE ReadBody(r) \/ RefuseBody(r) \/ MarkActive(r)
    BY <1>5 DEF ReadBody, RefuseBody, MarkActive, Goto
  <1>6. CASE Connect(r) \/ ConnectRefused(r) \/ Receive(r) \/ Timeout(r)
    BY <1>6 DEF Connect, ConnectRefused, Receive, Timeout, Goto
  <1>7. CASE Settle(r)
    <2>1. PICK l \in {"recycle", "idle"} : Goto(r, cur[r], l)
      BY <1>7 DEF Settle
    <2> QED
      BY <1>7, <2>1 DEF Settle, Goto
  <1>8. CASE RecycleAfter(r) \/ SettleTimedOut(r)
    BY <1>8 DEF RecycleAfter, SettleTimedOut, GracefulRecycle, Goto, Enter
  <1>9. CASE WorkerStep(r) /\ UNCHANGED poolVars
    BY <1>9, WorkerMoves, AdminLabelFacts
  <1> QED
    BY <1>1, <1>2, <1>3, <1>4, <1>5, <1>6, <1>7, <1>8, <1>9 DEF HandlerStep

\* A step of the monitor moves the monitor only, and takes none of the mutexes
\* of pool and manager across a step.
LEMMA MonitorMoves ==
    ASSUME Control, MonitorNext
    PROVE  /\ \A u \in Tasks \ {Monitor} :
                  pc'[u] = pc[u] /\ cur'[u] = cur[u] /\ call'[u] = call[u]
           /\ UNCHANGED poolVars
  <1> USE TypeFacts, HandlerReturns
  <1>1. CASE WorkerStep(Monitor)
    BY <1>1, WorkerMoves, Assumptions DEF ServerAssumption, MonitorNext
  <1>2. CASE ~WorkerStep(Monitor)
    BY <1>2 DEF MonitorNext, Wake, Snapshot, SweepRecycle, SweepTrack, EndRound, Evict,
                GracefulRecycle, Goto, Enter
  <1> QED
    BY <1>1, <1>2

-----------------------------------------------------------------------------
(* Supervision is inductive. *)

\* At first each slot has its own child on its own path.
LEMMA SupervisionInit == Init => Supervision
  <1> SUFFICES ASSUME Init PROVE Supervision
    OBVIOUS
  <1>1. \A t \in Tasks : pc[t] # "spawn"
    BY DEF Init
  <1> QED
    BY <1>1, Assumptions
       DEF Init, ProcInit, WorkerInit, Supervision, NoOrphans, ServerAssumption

\* Nothing that Supervision speaks of changes, and nobody begins to spawn.
LEMMA SupervisionKept ==
    ASSUME Control, Supervision, UNCHANGED <<alive, home, process>>,
           \A t \in Tasks : pc'[t] = "spawn" => pc[t] = "spawn" /\ cur'[t] = cur[t]
    PROVE  Supervision'
  BY DEF Supervision, NoOrphans

\* A task leaves for a step outside the spawn.
LEMMA GotoKeepsSupervision ==
    ASSUME Control, Supervision, UNCHANGED <<alive, home, process>>,
           NEW t \in Tasks, NEW l \in Labels \ {"spawn"},
           pc' = [pc EXCEPT ![t] = l],
           \A u \in Tasks \ {t} : cur'[u] = cur[u]
    PROVE  Supervision'
  <1>1. \A u \in Tasks : pc'[u] = "spawn" => pc[u] = "spawn" /\ cur'[u] = cur[u]
    BY TypeFacts
  <1> QED
    BY <1>1, SupervisionKept

\* stop() by a task that goes on to spawn.
LEMMA StopSupervision ==
    ASSUME Control, Supervision, NEW t \in Tasks, NEW w \in Workers, Stop(w),
           pc' = [pc EXCEPT ![t] = "spawn"], cur' = [cur EXCEPT ![t] = w]
    PROVE  Supervision'
  <1> USE TypeFacts
  <1>1. process' = [process EXCEPT ![w] = None]
    BY DEF Stop
  <1>2. alive' = alive \ {process[w]} /\ \A p \in alive' : home'[p] = home[p]
    <2>1. CASE process[w] = None
      BY <2>1, Assumptions DEF Stop, ServerAssumption, ProcTypeOK
    <2>2. CASE process[w] # None
      BY <2>2 DEF Stop, Die, Vanish, ProcTypeOK
    <2> QED
      BY <2>1, <2>2
  <1>3. NoOrphans'
    BY <1>1, <1>2 DEF Supervision, NoOrphans
  <1>4. \A u \in Tasks : pc'[u] = "spawn" => process'[cur'[u]] = None
    <2> SUFFICES ASSUME NEW u \in Tasks, pc'[u] = "spawn"
                 PROVE  process'[cur'[u]] = None
      OBVIOUS
    <2>1. CASE u = t
      BY <1>1, <2>1
    <2>2. CASE u # t
      <3>1. pc[u] = "spawn" /\ cur'[u] = cur[u]
        BY <2>2
      <3>2. cur[u] \in Workers
        BY <3>1, OperationCall DEF OperationLabels
      <3> QED
        BY <1>1, <3>1, <3>2 DEF Supervision
    <2> QED
      BY <2>1, <2>2
  <1>5. \A u, v \in Workers : process'[u] = process'[v] => u = v \/ process'[u] = None
    BY <1>1 DEF Supervision
  <1>6. None \notin alive
    BY Assumptions DEF ServerAssumption, ProcTypeOK
  <1>7. \A v \in Workers : process'[v] \in alive' => home'[process'[v]] = SocketOf[v]
    BY <1>1, <1>2, <1>6 DEF Supervision
  <1> QED
    BY <1>3, <1>4, <1>5, <1>7 DEF Supervision

\* A spawn finds its slot empty, so it cannot leave a child behind.
LEMMA WorkerStepSupervision ==
    ASSUME Control, Supervision, NEW t \in Tasks, WorkerStep(t)
    PROVE  Supervision'
  <1> USE TypeFacts
  <1>0. /\ {"drain", "spawn", "ready"} \subseteq OperationLabels
        /\ "ready" \in Labels \ {"spawn"}
        /\ ReturnLabels \subseteq Labels \ {"spawn"}
    BY DEF OperationLabels, Labels, ReturnLabels, HandlerLabels, MonitorLabels, AdminLabels
  <1>1. CASE StopOld(t)
    <2>1. cur[t] \in Workers
      BY <1>0, <1>1, OperationCall DEF StopOld
    <2>2. cur' = [cur EXCEPT ![t] = cur[t]]
      BY <1>1 DEF StopOld
    <2> QED
      BY <1>1, <2>1, <2>2, StopSupervision DEF StopOld
  <1>2. CASE Spawn(t)
    <2>1. PICK p \in FreshPids : /\ Launch(p, SocketOf[cur[t]])
                                 /\ process' = [process EXCEPT ![cur[t]] = p]
      BY <1>2 DEF Spawn
    <2>2. /\ p \in Pids /\ p \notin alive /\ p # None
          /\ \A w \in Workers : process[w] # p
      BY <2>1, Assumptions DEF FreshPids, ServerAssumption
    <2>3. cur[t] \in Workers /\ lock[cur[t]] = t /\ process[cur[t]] = None
      BY <1>0, <1>2, OperationCall DEF Spawn, Supervision
    <2>4. alive' = alive \cup {p} /\ home' = [home EXCEPT ![p] = SocketOf[cur[t]]]
      BY <2>1 DEF Launch
    <2>5. None \notin alive
      BY Assumptions DEF ServerAssumption, ProcTypeOK
    <2>6. NoOrphans'
      BY <2>1, <2>3, <2>4, <2>5 DEF Supervision, NoOrphans
    <2>7. \A u \in Tasks : pc'[u] = "spawn" => process'[cur'[u]] = None
      <3> SUFFICES ASSUME NEW u \in Tasks, pc'[u] = "spawn"
                   PROVE  process'[cur'[u]] = None
        OBVIOUS
      <3>1. u # t /\ pc[u] = "spawn" /\ cur'[u] = cur[u]
        BY <1>2 DEF Spawn
      <3>2. cur[u] \in Workers /\ lock[cur[u]] = u
        BY <1>0, <3>1, OperationCall
      <3>3. cur[u] # cur[t]
        BY <2>3, <3>1, <3>2
      <3> QED
        BY <2>1, <3>1, <3>2, <3>3 DEF Supervision
    <2>8. \A u, v \in Workers : process'[u] = process'[v] => u = v \/ process'[u] = None
      BY <2>1, <2>2, <2>3 DEF Supervision
    <2>9. \A v \in Workers : process'[v] \in alive' => home'[process'[v]] = SocketOf[v]
      BY <2>1, <2>2, <2>3, <2>4 DEF Supervision, ProcTypeOK
    <2> QED
      BY <2>6, <2>7, <2>8, <2>9 DEF Supervision
  <1>3. CASE SpawnFails(t)
    <2>1. call[t].failed \in ReturnLabels
      BY <1>0, <1>3, OperationCall DEF SpawnFails
    <2> QED
      BY <1>0, <1>3, <2>1, GotoKeepsSupervision DEF SpawnFails, Return, Goto
  <1>4. CASE Ready(t)
    <2>1. call[t].done \in ReturnLabels
      BY <1>0, <1>4, OperationCall DEF Ready
    <2> QED
      BY <1>0, <1>4, <2>1, GotoKeepsSupervision DEF Ready, Return, Goto
  <1> QED
    BY <1>1, <1>2, <1>3, <1>4 DEF WorkerStep

\* ensure_running leaves a live child where it is and reaps a dead one.
LEMMA EnsureSupervision ==
    ASSUME Control, Supervision, NEW t \in Tasks, NEW w \in Workers,
           NEW c \in Calls \ {NoCall}, EnsureRunning(t, w, c)
    PROVE  Supervision'
  <1>1. CASE IsRunning(w)
    <2>1. c.done \in Labels \ {"spawn"}
      BY DEF Calls, ReturnLabels, Labels, HandlerLabels, MonitorLabels, AdminLabels
    <2> QED
      BY <1>1, <2>1, GotoKeepsSupervision, TypeFacts DEF EnsureRunning, Goto
  <1>2. CASE ~IsRunning(w)
    BY <1>2, StopSupervision DEF EnsureRunning, Enter
  <1> QED
    BY <1>1, <1>2

\* graceful_recycle changes no child when it is entered.
LEMMA RecycleSupervision ==
    ASSUME Control, Supervision, NEW t \in Tasks, NEW w \in Workers,
           NEW c \in Calls \ {NoCall}, GracefulRecycle(t, w, c),
           UNCHANGED <<alive, home, process>>
    PROVE  Supervision'
  <1>1. c.done \in Labels \ {"spawn"} /\ "drain" \in Labels \ {"spawn"}
    BY DEF Calls, ReturnLabels, Labels, HandlerLabels, MonitorLabels, AdminLabels, OperationLabels
  <1> QED
    BY <1>1, GotoKeepsSupervision, TypeFacts DEF GracefulRecycle, Goto, Enter

\* Every step of a handler keeps children and slots in correspondence.
LEMMA HandlerStepSupervision ==
    ASSUME Control, Supervision, NEW r \in Requests, HandlerStep(r) \/ Route(r)
    PROVE  Supervision'
  <1> USE TypeFacts, HandlerFacts
  <1>l. /\ HandlerLabels \subseteq Labels \ {"spawn"}
        /\ {"idle", "pick", "probe", "ensure", "body", "mark", "connect", "await",
            "ok", "failed", "timedout", "recycle", "panicked"} = HandlerLabels
        /\ {"ensure", "failed", "recycle", "timedout"} \subseteq SlotLabels
    BY DEF HandlerLabels, Labels, SlotLabels, InFlight
  <1>1. ASSUME NEW l \in HandlerLabels, NEW w, Goto(r, w, l),
               UNCHANGED <<alive, home, process>>
        PROVE  Supervision'
    BY <1>1, <1>l, GotoKeepsSupervision DEF Goto
  <1>2. CASE Route(r) \/ EnterPool(r)
    BY <1>2, <1>l, GotoKeepsSupervision DEF Route, EnterPool
  <1>3. CASE ProbeHit(r) \/ Fallback(r)
    BY <1>1, <1>3, <1>l DEF ProbeHit, Fallback, Choose
  <1>4. CASE ProbeMiss(r)
    BY <1>4, SupervisionKept DEF ProbeMiss
  <1>5. CASE EnsureBefore(r)
    BY <1>5, <1>l, EnsureSupervision, CallFacts DEF EnsureBefore
  <1>6. CASE ReadBody(r) \/ RefuseBody(r) \/ MarkActive(r)
    BY <1>1, <1>6, <1>l DEF ReadBody, RefuseBody, MarkActive
  <1>7. CASE Connect(r) \/ ConnectRefused(r)
    BY <1>1, <1>7, <1>l DEF Connect, ConnectRefused, Dial
  <1>8. CASE Receive(r) \/ Timeout(r)
    BY <1>1, <1>8, <1>l DEF Receive, Timeout, HangUp, Abandon
  <1>9. CASE Settle(r)
    <2>1. PICK l \in {"recycle", "idle"} : Goto(r, cur[r], l)
      BY <1>9 DEF Settle
    <2> QED
      BY <1>1, <1>9, <1>l, <2>1 DEF Settle
  <1>10. CASE RecycleAfter(r)
    BY <1>10, <1>l, RecycleSupervision, CallFacts DEF RecycleAfter
  <1>11. CASE SettleFailed(r)
    BY <1>11, <1>l, EnsureSupervision, CallFacts DEF SettleFailed
  <1>12. CASE SettleTimedOut(r)
    BY <1>12, <1>l, RecycleSupervision, CallFacts DEF SettleTimedOut
  <1>13. CASE WorkerStep(r)
    BY <1>13, WorkerStepSupervision
  <1> QED
    BY <1>2, <1>3, <1>4, <1>5, <1>6, <1>7, <1>8, <1>9, <1>10, <1>11, <1>12,
       <1>13 DEF HandlerStep

\* Every step of the monitor does.
LEMMA MonitorStepSupervision ==
    ASSUME Control, Supervision, MonitorNext
    PROVE  Supervision'
  <1> USE TypeFacts
  <1>m. Monitor \in Tasks
    BY Assumptions DEF MonitorAssumption
  <1>l. MonitorLabels = {"sleep", "snapshot", "sweep"}
        /\ MonitorLabels \subseteq Labels \ {"spawn"}
    BY DEF Labels, MonitorLabels, AdminLabels
  <1>h. todo # <<>> => Head(todo) \in Workers
    BY DEF MonitorTypeOK
  <1>1. CASE Wake(pmLock) \/ Snapshot(poolLock, pool)
    BY <1>1, <1>m, <1>l, GotoKeepsSupervision DEF Wake, Snapshot
  <1>2. CASE SweepRecycle
    BY <1>2, <1>m, <1>h, RecycleSupervision, CallFacts DEF SweepRecycle
  <1>3. CASE SweepTrack
    BY <1>3, SupervisionKept DEF SweepTrack
  <1>4. CASE EndRound
    BY <1>4, <1>m, <1>l, GotoKeepsSupervision DEF EndRound, Goto
  <1>5. CASE Evict
    <2>1. heaviest.slot \in Workers
      BY <1>5 DEF Evict, MonitorTypeOK
    <2> QED
      BY <1>5, <1>m, <2>1, RecycleSupervision, CallFacts DEF Evict
  <1>6. CASE WorkerStep(Monitor)
    BY <1>6, <1>m, WorkerStepSupervision
  <1> QED
    BY <1>1, <1>2, <1>3, <1>4, <1>5, <1>6 DEF MonitorNext

\* A process that ends leaves its slot with a zombie.
LEMMA PhpStepSupervision ==
    ASSUME Control, Supervision, PhpNext
    PROVE  Supervision'
  <1>0. UNCHANGED <<process, pc, cur>>
    BY DEF PhpNext
  <1>1. alive' \subseteq alive /\ \A p \in alive' : home'[p] = home[p]
    <2>1. ASSUME NEW p \in Pids, NEW paths, Vanish(p, paths)
          PROVE  alive' \subseteq alive /\ \A q \in alive' : home'[q] = home[q]
      BY <2>1, TypeFacts DEF Vanish, ProcTypeOK
    <2> QED
      BY <2>1 DEF PhpNext, ProcNext, Boot, Accept, Respond, CloseSilently, Close,
                  Crash, Die, Terminate
  <1> QED
    BY <1>0, <1>1 DEF Supervision, NoOrphans

\* So does every step of the server.
LEMMA SupervisionStep ==
    ASSUME Control, Supervision, [Next]_vars
    PROVE  Supervision'
  <1>1. CASE UNCHANGED vars
    BY <1>1 DEF vars, Supervision, NoOrphans
  <1> QED
    BY <1>1, HandlerStepSupervision, MonitorStepSupervision, PhpStepSupervision
       DEF Next, HandlerNext

\* Children and slots correspond: a spawn never overwrites a live child.
THEOREM SupervisionInvariant == Spec => []Supervision
  BY SupervisionInit, SupervisionStep, ControlInvariant, PTL DEF Spec

\* No interleaving of handlers, monitor and dying processes leaves a PHP
\* process that no slot supervises.
THEOREM NoOrphansEver == Spec => []NoOrphans
  <1>1. Supervision => NoOrphans
    BY DEF Supervision
  <1> QED
    BY <1>1, SupervisionInvariant, PTL

\* When every slot has its own socket path, two processes never share one.
THEOREM SocketsAreExclusive ==
    ASSUME \A v, w \in Workers : SocketOf[v] = SocketOf[w] => v = w
    PROVE  Spec => []OneProcessPerSocket
  <1>1. Control /\ Supervision => OneProcessPerSocket
    BY DEF Supervision, NoOrphans, OneProcessPerSocket
  <1> QED
    BY <1>1, ControlInvariant, SupervisionInvariant, PTL

-----------------------------------------------------------------------------
(* Draining is inductive, and freezes active_requests. *)

\* No slot drains at first.
LEMMA DrainingInit == Init => Draining
  BY DEF Init, WorkerInit, Draining

\* A step that leaves the locks, the drains and the draining tasks alone.
LEMMA DrainingKept ==
    ASSUME Control, Draining, NEW t \in Tasks, pc[t] \notin OperationLabels,
           UNCHANGED <<lock, draining>>,
           \A u \in Tasks \ {t} : pc'[u] = pc[u] /\ call'[u] = call[u]
    PROVE  Draining'
  BY TypeFacts DEF Draining, OperationLabels

\* An operation that ends leaves its slot not draining.
LEMMA WorkerStepDraining ==
    ASSUME Control, Draining, NEW t \in Tasks, WorkerStep(t)
    PROVE  Draining'
  <1> USE TypeFacts
  <1>0. /\ {"drain", "spawn", "ready"} \subseteq OperationLabels
        /\ pc[t] \in {"drain", "spawn", "ready"}
    BY DEF OperationLabels, WorkerStep, StopOld, Spawn, SpawnFails, Ready
  <1>1. cur[t] \in Workers /\ lock[cur[t]] = t
    BY <1>0, OperationCall
  <1>2. \A w \in Workers : lock[w] = t => w = cur[t]
    <2>1. t # None
      BY Assumptions DEF ServerAssumption
    <2> QED
      BY <2>1 DEF Control, LocksAreOwned
  <1>3. CASE StopOld(t)
    BY <1>1, <1>2, <1>3 DEF StopOld, Draining
  <1>4. CASE Spawn(t)
    BY <1>1, <1>2, <1>4 DEF Spawn, Draining
  <1>5. CASE SpawnFails(t)
    <2>1. draining'[cur[t]] = FALSE
      BY <1>1, <1>5 DEF SpawnFails, DrainingAfter, Draining
    <2> QED
      BY <1>1, <1>2, <1>5, <2>1 DEF SpawnFails, Return, Goto, Draining
  <1>6. CASE Ready(t)
    <2>1. draining'[cur[t]] = FALSE
      BY <1>1, <1>6 DEF Ready, DrainingAfter, Draining
    <2> QED
      BY <1>1, <1>2, <1>6, <2>1 DEF Ready, Return, Goto, Draining
  <1> QED
    BY <1>3, <1>4, <1>5, <1>6 DEF WorkerStep

\* A task that enters an operation on one slot leaves the others' drains alone.
LEMMA EnterDraining ==
    ASSUME Control, Draining, NEW t \in Tasks, pc[t] \notin OperationLabels,
           NEW w \in Workers, lock[w] = None, NEW l, NEW c, Enter(t, w, l, c),
           \/ draining' = draining
           \/ /\ draining' = [draining EXCEPT ![w] = TRUE]
              /\ l = "drain"
              /\ c.op = "recycle"
    PROVE  Draining'
  <1> USE TypeFacts
  <1>1. t # None
    BY Assumptions DEF ServerAssumption
  <1>2. \A v \in Workers : lock[v] = t => FALSE
    BY <1>1 DEF Control, LocksAreOwned
  <1> SUFFICES ASSUME NEW v \in Workers, draining'[v]
               PROVE  /\ lock'[v] # None
                      /\ pc'[lock'[v]] \in {"drain", "spawn"}
                      /\ call'[lock'[v]].op = "recycle"
    BY DEF Draining
  <1>3. CASE v = w
    <2>1. draining' # draining
      BY <1>3 DEF Draining
    <2> QED
      BY <1>1, <1>3, <2>1 DEF Enter
  <1>4. CASE v # w
    <2>1. draining[v]
      BY <1>4
    <2> QED
      BY <1>2, <1>4, <2>1 DEF Enter, Draining
  <1> QED
    BY <1>3, <1>4

\* ensure_running is entered on slots that do not drain only.
LEMMA EnsureDraining ==
    ASSUME Control, Draining, NEW t \in Tasks, pc[t] \notin OperationLabels,
           NEW w \in Workers, lock[w] = None, NEW c,
           EnsureRunning(t, w, c), draining' = draining
    PROVE  Draining'
  <1>1. CASE IsRunning(w)
    BY <1>1, DrainingKept, TypeFacts DEF EnsureRunning, Goto
  <1>2. CASE ~IsRunning(w)
    BY <1>2, EnterDraining DEF EnsureRunning
  <1> QED
    BY <1>1, <1>2

\* graceful_recycle sets draining with the lock in its hands.
LEMMA RecycleDraining ==
    ASSUME Control, Draining, NEW t \in Tasks, pc[t] \notin OperationLabels,
           NEW w \in Workers, lock[w] = None, NEW done, NEW failed,
           GracefulRecycle(t, w, Recycle(done, failed))
    PROVE  Draining'
  <1>1. Recycle(done, failed).op = "recycle"
    BY DEF Recycle
  <1>2. ~draining[w]
    BY DEF Draining
  <1> QED
    BY <1>1, <1>2, EnterDraining DEF GracefulRecycle

\* Every step of a handler keeps draining guarded.
LEMMA HandlerStepDraining ==
    ASSUME Control, Draining, NEW r \in Requests, HandlerStep(r) \/ Route(r)
    PROVE  Draining'
  <1> USE TypeFacts, HandlerFacts
  <1>l. /\ {"idle", "pick", "probe", "ensure", "body", "mark", "connect", "await",
            "ok", "failed", "timedout", "recycle", "panicked"} = HandlerLabels
        /\ {"ensure", "failed", "recycle", "timedout"} \subseteq SlotLabels
    BY DEF HandlerLabels, SlotLabels, InFlight
  <1>1. CASE Route(r) \/ EnterPool(r) \/ ProbeMiss(r)
    BY <1>1, <1>l, DrainingKept DEF Route, EnterPool, ProbeMiss
  <1>2. CASE ProbeHit(r) \/ Fallback(r)
    BY <1>2, <1>l, DrainingKept DEF ProbeHit, Fallback, Choose, Goto
  <1>3. CASE EnsureBefore(r)
    BY <1>3, <1>l, EnsureDraining DEF EnsureBefore
  <1>4. CASE ReadBody(r) \/ RefuseBody(r) \/ MarkActive(r)
    BY <1>4, <1>l, DrainingKept DEF ReadBody, RefuseBody, MarkActive, Goto
  <1>5. CASE Connect(r) \/ ConnectRefused(r)
    BY <1>5, <1>l, DrainingKept DEF Connect, ConnectRefused, Goto
  <1>6. CASE Receive(r) \/ Timeout(r) \/ Settle(r)
    BY <1>6, <1>l, DrainingKept DEF Receive, Timeout, Settle, Goto
  <1>7. CASE RecycleAfter(r)
    BY <1>7, <1>l, RecycleDraining DEF RecycleAfter
  <1>8. CASE SettleFailed(r)
    BY <1>8, <1>l, EnsureDraining DEF SettleFailed
  <1>9. CASE SettleTimedOut(r)
    BY <1>9, <1>l, RecycleDraining DEF SettleTimedOut
  <1>10. CASE WorkerStep(r)
    BY <1>10, WorkerStepDraining
  <1> QED
    BY <1>1, <1>2, <1>3, <1>4, <1>5, <1>6, <1>7, <1>8, <1>9, <1>10 DEF HandlerStep

\* Every step of the monitor does.
LEMMA MonitorStepDraining ==
    ASSUME Control, Draining, MonitorNext
    PROVE  Draining'
  <1> USE TypeFacts
  <1>m. Monitor \in Tasks
    BY Assumptions DEF MonitorAssumption
  <1>l. MonitorLabels = {"sleep", "snapshot", "sweep"}
        /\ MonitorLabels \cap OperationLabels = {}
    BY DEF MonitorLabels, AdminLabels, OperationLabels
  <1>h. todo # <<>> => Head(todo) \in Workers
    BY DEF MonitorTypeOK
  <1>1. CASE Wake(pmLock) \/ Snapshot(poolLock, pool)
    BY <1>1, <1>m, <1>l, DrainingKept DEF Wake, Snapshot
  <1>2. CASE SweepRecycle
    BY <1>2, <1>m, <1>l, <1>h, RecycleDraining DEF SweepRecycle
  <1>3. CASE SweepTrack \/ EndRound
    BY <1>3, <1>m, <1>l, DrainingKept DEF SweepTrack, EndRound, Goto
  <1>4. CASE Evict
    <2>1. heaviest.slot \in Workers
      BY <1>4 DEF Evict, MonitorTypeOK
    <2> QED
      BY <1>4, <1>m, <1>l, <2>1, RecycleDraining DEF Evict
  <1>5. CASE WorkerStep(Monitor)
    BY <1>5, <1>m, WorkerStepDraining
  <1> QED
    BY <1>1, <1>2, <1>3, <1>4, <1>5 DEF MonitorNext

\* So does every step of the server.
LEMMA DrainingStep ==
    ASSUME Control, Draining, [Next]_vars
    PROVE  Draining'
  <1>1. CASE UNCHANGED vars \/ PhpNext
    BY <1>1 DEF vars, PhpNext, Draining
  <1> QED
    BY <1>1, HandlerStepDraining, MonitorStepDraining DEF Next, HandlerNext

\* A slot that drains is always in the hands of a graceful_recycle that has
\* not spawned the replacement yet.
THEOREM DrainingInvariant == Spec => []Draining
  BY DrainingInit, DrainingStep, ControlInvariant, PTL DEF Spec

\* No task ever finds draining TRUE once it has the lock: the mutex, not the
\* flag, is what keeps new requests off a slot that is being recycled.
THEOREM DrainingNeedsLock == Spec => []DrainingIsGuarded
  <1>1. Draining => DrainingIsGuarded
    BY DEF Draining, DrainingIsGuarded
  <1> QED
    BY <1>1, DrainingInvariant, PTL

\* graceful_recycle waits for active_requests to reach 0 while it holds the
\* lock under which alone active_requests can change.
THEOREM DrainsAreFrozen == Spec => DrainFreezesActive
  <1>1. ASSUME Control, Draining, [Next]_vars, NEW w \in Workers, draining[w]
        PROVE  active'[w] = active[w]
    <2>1. lock[w] # None
      BY <1>1 DEF Draining
    <2> USE TypeFacts, HandlerFacts
    <2>2. SlotLabels \cap {"mark", "ok", "failed", "timedout"} =
             {"mark", "ok", "failed", "timedout"}
      BY DEF SlotLabels, InFlight
    <2>3. ASSUME NEW r \in Requests, HandlerStep(r) \/ Route(r)
          PROVE  active'[w] = active[w]
      <3>1. CASE MarkActive(r)
        BY <1>1, <2>1, <2>2, <3>1 DEF MarkActive
      <3>2. CASE Settle(r) \/ SettleFailed(r) \/ SettleTimedOut(r)
        BY <1>1, <2>1, <2>2, <3>2 DEF Settle, SettleFailed, SettleTimedOut, Unmark
      <3> QED
        BY <2>3, <3>1, <3>2
           DEF HandlerStep, Route, EnterPool, ProbeHit, ProbeMiss, Fallback, Choose,
               EnsureBefore, ReadBody, RefuseBody, Connect, ConnectRefused, Receive,
               Timeout, RecycleAfter, WorkerStep, StopOld, Spawn, SpawnFails, Ready
    <2>4. CASE MonitorNext
      BY <2>4 DEF MonitorNext, Wake, Snapshot, SweepRecycle, SweepTrack, EndRound,
                  Evict, WorkerStep, StopOld, Spawn, SpawnFails, Ready
    <2>5. CASE PhpNext \/ UNCHANGED vars
      BY <2>5 DEF PhpNext, vars
    <2> QED
      BY <1>1, <2>3, <2>4, <2>5 DEF Next, HandlerNext
  <1>2. Control /\ Draining /\ [Next]_vars =>
          [\A w \in Workers : draining[w] /\ draining'[w] => active'[w] = active[w]]_vars
    BY <1>1
  <1> QED
    BY <1>2, ControlInvariant, DrainingInvariant, PTL DEF Spec, DrainFreezesActive

-----------------------------------------------------------------------------
(* active_requests follows the requests in flight. *)

\* A step changes the count of every slot as it changes the requests in flight.
CountFollows ==
    \A w \in Workers :
        active'[w] + Cardinality(InFlightOn(w)) = active[w] + Cardinality(InFlightOn(w)')

\* A slot has finitely many requests in flight.
LEMMA InFlightFinite ==
    ASSUME NEW w
    PROVE  /\ IsFiniteSet(InFlightOn(w))
           /\ Cardinality(InFlightOn(w)) \in Nat
           /\ Cardinality(InFlightOn(w)') \in Nat
  <1>1. IsFiniteSet(Requests)
    BY Assumptions DEF ServerAssumption
  <1>2. InFlightOn(w) \subseteq Requests /\ InFlightOn(w)' \subseteq Requests
    BY DEF InFlightOn
  <1> QED
    BY <1>1, <1>2, FS_Subset, FS_CardinalityType

\* No request is counted at first.
LEMMA ActiveInit == Init => ActiveIsExact
  <1> SUFFICES ASSUME Init, NEW w \in Workers
               PROVE  active[w] = Cardinality(InFlightOn(w))
    BY DEF ActiveIsExact
  <1>1. InFlightOn(w) = {}
    BY Assumptions DEF Init, InFlightOn, InFlight, HandlerAssumption
  <1> QED
    BY <1>1, FS_EmptySet DEF Init, WorkerInit

\* Task t moves between steps that are not in flight, or keeps its slot.
LEMMA InFlightKept ==
    ASSUME Control, ActiveCoversInFlight, NEW t \in Tasks, active' = active,
           \A u \in Tasks \ {t} : pc'[u] = pc[u] /\ cur'[u] = cur[u],
           \/ pc[t] \notin InFlight /\ pc'[t] \notin InFlight
           \/ pc[t] \in InFlight /\ pc'[t] \in InFlight /\ cur'[t] = cur[t]
    PROVE  CountFollows
  <1>1. Requests \subseteq Tasks
    BY Assumptions DEF HandlerAssumption
  <1>2. ASSUME NEW w \in Workers
        PROVE  InFlightOn(w)' = InFlightOn(w)
    BY <1>1 DEF InFlightOn
  <1> QED
    BY <1>2 DEF CountFollows

\* Request r enters the flight of its slot.
LEMMA InFlightEntered ==
    ASSUME Control, ActiveCoversInFlight, NEW r \in Requests, NEW w \in Workers,
           cur[r] = w, pc[r] \notin InFlight, NEW l \in InFlight, Goto(r, w, l),
           active' = [active EXCEPT ![w] = @ + 1]
    PROVE  CountFollows
  <1> USE TypeFacts, HandlerFacts
  <1>0. l \notin Resting
    BY DEF InFlight, Resting
  <1>1. InFlightOn(w)' = InFlightOn(w) \cup {r} /\ r \notin InFlightOn(w)
    BY <1>0 DEF InFlightOn, Goto
  <1>2. ASSUME NEW v \in Workers \ {w}
        PROVE  InFlightOn(v)' = InFlightOn(v)
    BY <1>0 DEF InFlightOn, Goto
  <1>3. Cardinality(InFlightOn(w)') = Cardinality(InFlightOn(w)) + 1
    <2>1. Cardinality(InFlightOn(w) \cup {r}) = Cardinality(InFlightOn(w)) + 1
      BY <1>1, InFlightFinite, FS_AddElement
    <2> QED
      BY <1>1, <2>1
  <1>4. active'[w] + Cardinality(InFlightOn(w)) = active[w] + Cardinality(InFlightOn(w)')
    BY <1>3, InFlightFinite
  <1>5. ASSUME NEW v \in Workers \ {w}
        PROVE  active'[v] = active[v] /\ InFlightOn(v)' = InFlightOn(v)
    BY <1>2, <1>5
  <1> QED
    BY <1>4, <1>5 DEF CountFollows

\* Request r leaves the flight of its slot.
LEMMA InFlightLeft ==
    ASSUME Control, ActiveCoversInFlight, NEW r \in Requests, NEW w \in Workers,
           cur[r] = w, pc[r] \in InFlight, pc'[r] \notin InFlight,
           \A u \in Tasks \ {r} : pc'[u] = pc[u] /\ cur'[u] = cur[u],
           Unmark(w)
    PROVE  CountFollows
  <1> USE TypeFacts, HandlerFacts
  <1>r. Requests \subseteq Tasks
    BY Assumptions DEF HandlerAssumption
  <1>1. InFlightOn(w)' = InFlightOn(w) \ {r} /\ r \in InFlightOn(w)
    BY <1>r DEF InFlightOn
  <1>2. ASSUME NEW v \in Workers \ {w}
        PROVE  InFlightOn(v)' = InFlightOn(v)
    BY <1>r DEF InFlightOn
  <1>3. Cardinality(InFlightOn(w)') = Cardinality(InFlightOn(w)) - 1
    <2>1. Cardinality(InFlightOn(w) \ {r}) = Cardinality(InFlightOn(w)) - 1
      BY <1>1, InFlightFinite, FS_RemoveElement
    <2> QED
      BY <1>1, <2>1
  <1>4. active[w] > 0
    <2>1. active[w] >= Cardinality(InFlightOn(w))
      BY DEF ActiveCoversInFlight
    <2>2. Cardinality(InFlightOn(w)) # 0
      BY <1>1, InFlightFinite, FS_EmptySet
    <2> QED
      BY <2>1, <2>2, InFlightFinite
  <1>5. active'[w] + Cardinality(InFlightOn(w)) = active[w] + Cardinality(InFlightOn(w)')
    BY <1>3, <1>4, InFlightFinite DEF Unmark
  <1>6. ASSUME NEW v \in Workers \ {w}
        PROVE  active'[v] = active[v] /\ InFlightOn(v)' = InFlightOn(v)
    BY <1>2, <1>6 DEF Unmark
  <1> QED
    BY <1>5, <1>6 DEF CountFollows

\* The operations on a slot count nothing.
LEMMA WorkerStepActive ==
    ASSUME Control, ActiveCoversInFlight, NEW t \in Tasks, WorkerStep(t)
    PROVE  CountFollows
  <1> USE TypeFacts
  <1>0. /\ OperationLabels = {"drain", "spawn", "ready"}
        /\ OperationLabels \cap InFlight = {}
        /\ ReturnLabels \cap InFlight = {}
    BY DEF OperationLabels, InFlight, ReturnLabels
  <1>1. pc[t] \in OperationLabels
    BY <1>0 DEF WorkerStep, StopOld, Spawn, SpawnFails, Ready
  <1>2. CASE StopOld(t) \/ Spawn(t)
    BY <1>0, <1>1, <1>2, InFlightKept DEF StopOld, Spawn
  <1>3. CASE SpawnFails(t) \/ Ready(t)
    BY <1>0, <1>1, <1>3, InFlightKept, OperationCall
       DEF SpawnFails, Ready, Return, Goto
  <1> QED
    BY <1>2, <1>3 DEF WorkerStep

\* A handler counts itself when it is marked and stops when it settles.
LEMMA HandlerStepActive ==
    ASSUME Control, ActiveCoversInFlight, NEW r \in Requests, HandlerStep(r) \/ Route(r)
    PROVE  CountFollows
  <1> USE TypeFacts, HandlerFacts
  <1>l. /\ InFlight = {"connect", "await", "ok", "failed", "timedout"}
        /\ InFlight \subseteq SlotLabels
        /\ "mark" \in SlotLabels
        /\ Ensure("body", "idle").done = "body"
        /\ Ensure("idle", "idle").done = "idle"
        /\ Recycle("idle", "idle").done = "idle"
    BY DEF InFlight, SlotLabels, Ensure, Recycle
  <1>1. CASE Route(r) \/ EnterPool(r)
    BY <1>1, <1>l, InFlightKept DEF Route, EnterPool
  <1>2. CASE ProbeHit(r) \/ Fallback(r)
    BY <1>2, <1>l, InFlightKept DEF ProbeHit, Fallback, Choose, Goto
  <1>3. CASE ProbeMiss(r)
    BY <1>3, <1>l, InFlightKept DEF ProbeMiss
  <1>4. CASE EnsureBefore(r)
    BY <1>4, <1>l, InFlightKept DEF EnsureBefore, EnsureRunning, Goto, Enter
  <1>5. CASE ReadBody(r) \/ RefuseBody(r)
    BY <1>5, <1>l, InFlightKept DEF ReadBody, RefuseBody, Goto
  <1>6. CASE MarkActive(r)
    BY <1>6, <1>l, InFlightEntered DEF MarkActive
  <1>7. CASE Connect(r) \/ ConnectRefused(r)
    BY <1>7, <1>l, InFlightKept DEF Connect, ConnectRefused, Goto, Resting
  <1>8. CASE Receive(r) \/ Timeout(r)
    BY <1>8, <1>l, InFlightKept DEF Receive, Timeout, Goto, Resting
  <1>9. CASE Settle(r)
    BY <1>9, <1>l, InFlightLeft DEF Settle, Goto
  <1>10. CASE RecycleAfter(r)
    BY <1>10, <1>l, InFlightKept DEF RecycleAfter, GracefulRecycle, Goto, Enter
  <1>11. CASE SettleFailed(r)
    BY <1>11, <1>l, InFlightLeft DEF SettleFailed, EnsureRunning, Goto, Enter
  <1>12. CASE SettleTimedOut(r)
    BY <1>12, <1>l, InFlightLeft DEF SettleTimedOut, GracefulRecycle, Goto, Enter
  <1>13. CASE WorkerStep(r)
    BY <1>13, WorkerStepActive
  <1> QED
    BY <1>1, <1>2, <1>3, <1>4, <1>5, <1>6, <1>7, <1>8, <1>9, <1>10, <1>11,
       <1>12, <1>13 DEF HandlerStep

\* The monitor counts nothing.
LEMMA MonitorStepActive ==
    ASSUME Control, ActiveCoversInFlight, MonitorNext
    PROVE  CountFollows
  <1> USE TypeFacts
  <1>m. Monitor \in Tasks /\ Monitor \notin Requests
    BY Assumptions DEF MonitorAssumption, ServerAssumption
  <1>1. CASE WorkerStep(Monitor)
    BY <1>1, <1>m, WorkerStepActive
  <1>2. CASE ~WorkerStep(Monitor)
    <2>1. /\ active' = active
          /\ \A u \in Tasks \ {Monitor} : pc'[u] = pc[u] /\ cur'[u] = cur[u]
      BY <1>2 DEF MonitorNext, Wake, Snapshot, SweepRecycle, SweepTrack, EndRound,
                  Evict, GracefulRecycle, Goto, Enter
    <2>2. pc[Monitor] \notin InFlight /\ pc'[Monitor] \notin InFlight
      BY <1>2, <1>m
         DEF MonitorNext, Wake, Snapshot, SweepRecycle, SweepTrack, EndRound, Evict,
             GracefulRecycle, Goto, Enter, InFlight, Recycle
    <2> QED
      BY <1>m, <2>1, <2>2, InFlightKept
  <1> QED
    BY <1>1, <1>2

\* Every step of the server keeps the count exact.
LEMMA ActiveStep ==
    ASSUME Control, ActiveCoversInFlight, [Next]_vars
    PROVE  CountFollows
  <1>1. CASE UNCHANGED vars \/ PhpNext
    BY <1>1 DEF vars, PhpNext, CountFollows, InFlightOn
  <1> QED
    BY <1>1, HandlerStepActive, MonitorStepActive DEF Next, HandlerNext

\* active_requests counts exactly the requests between the increment and the
\* decrement, whatever way each of them ends.
THEOREM ActiveCountCorrect == Spec => []ActiveIsExact
  <1>1. Control /\ Control' /\ ActiveIsExact /\ [Next]_vars => ActiveIsExact'
    <2> SUFFICES ASSUME Control, Control', ActiveIsExact, [Next]_vars
                 PROVE  ActiveIsExact'
      OBVIOUS
    <2>1. ActiveCoversInFlight
      BY InFlightFinite DEF ActiveIsExact, ActiveCoversInFlight
    <2>2. CountFollows
      BY <2>1, ActiveStep
    <2>3. active' \in [Workers -> Nat]
      BY DEF Control, ServerTypeOK, WorkerTypeOK
    <2>4. ASSUME NEW w \in Workers
          PROVE  active'[w] = Cardinality(InFlightOn(w)')
      BY <2>2, <2>3, InFlightFinite DEF ActiveIsExact, CountFollows
    <2> QED
      BY <2>4 DEF ActiveIsExact
  <1> QED
    BY <1>1, ActiveInit, ControlInvariant, PTL DEF Spec

\* Whatever way a request or a recycle ends, the marks it has left on the slot
\* are exact.
THEOREM BookkeepingStaysExact == Spec => []BookkeepingIsExact
  <1>1. ActiveIsExact /\ DrainingIsGuarded => BookkeepingIsExact
    BY DEF BookkeepingIsExact
  <1> QED
    BY <1>1, ActiveCountCorrect, DrainingNeedsLock, PTL
=============================================================================
