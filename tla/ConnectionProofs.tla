--------------------------- MODULE ConnectionProofs ---------------------------
(***************************************************************************)
(* No PHP process ever holds a connection of another slot's request, a     *)
(* process serves at most its quota and one request more for each other    *)
(* concurrent request, and the round robin tries every slot before it      *)
(* falls back, for every number of slots, requests and pids.               *)
(***************************************************************************)
EXTENDS PhpHistory, PhpServerProofs

USE DEF procVars, slotVars, taskVars, poolVars, monitorVars

\* What a handler waits for stays the same.
Awaiting == \A r \in Requests : pc[r] = "await" => pc'[r] = "await" /\ cur'[r] = cur[r]

\* At first nobody is connected and nobody listens.
LEMMA ConnectedInit == Init => Connected
  <1> SUFFICES ASSUME Init PROVE Connected
    OBVIOUS
  <1>0. \A p \in Pids : backlog[p] = <<>> /\ serving[p] = None
    BY DEF Init, ProcInit
  <1>1. HeldByOwnSlot
    <2> SUFFICES ASSUME NEW p \in Pids PROVE Held(p) = {}
      BY DEF HeldByOwnSlot
    <2> QED
      BY <1>0, Assumptions DEF Held, Waiting, ServerAssumption
  <1>2. ASSUME NEW p \in Pids PROVE HeldOnce(p)
    <2>1. backlog[p] = <<>>
      BY <1>0
    <2> QED
      BY <2>1 DEF HeldOnce
  <1> QED
    BY <1>1, <1>2 DEF Init, ProcInit, Connected

\* Whose connection a process holds, place by place.
LEMMA HeldIsThere ==
    ASSUME NEW p, NEW r
    PROVE  r \in Held(p) <=> /\ r \in Requests
                             /\ \/ serving[p] = r
                                \/ \E i \in DOMAIN backlog[p] : backlog[p][i] = r
  BY DEF Held, Waiting

\* Who is held waits, on a slot whose child holds it.
LEMMA HeldFacts ==
    ASSUME Control, Connected, NEW p \in Pids, NEW r \in Held(p)
    PROVE  /\ r \in Requests
           /\ pc[r] = "await"
           /\ cur[r] \in Workers
           /\ process[cur[r]] = p
           /\ reply[r] = "none"
  <1>1. r \in Requests /\ pc[r] = "await" /\ process[cur[r]] = p /\ reply[r] = "none"
    BY HeldIsThere DEF Connected, HeldByOwnSlot
  <1>2. r \in Tasks /\ "await" \in SlotLabels
    BY <1>1, Assumptions DEF ServerAssumption, SlotLabels, InFlight
  <1> QED
    BY <1>1, <1>2 DEF Control

-----------------------------------------------------------------------------
(* Steps that move a task, and steps that end a process. *)

\* Neither a process nor a child changes.
LEMMA ConnectedKept ==
    ASSUME Control, Connected, Awaiting, UNCHANGED <<procVars, process>>
    PROVE  Connected'
  <1>1. HeldByOwnSlot'
    BY DEF Connected, HeldByOwnSlot, Awaiting, Held, Waiting
  <1>2. \A p \in Pids : HeldOnce(p)'
    BY DEF Connected, HeldOnce
  <1> QED
    BY <1>1, <1>2 DEF Connected, Awaiting

\* A task that does not wait for an answer moves on.
LEMMA MoveAwaits ==
    ASSUME Control, NEW t \in Tasks, pc[t] # "await", NEW l \in Labels,
           pc' = [pc EXCEPT ![t] = l],
           \A u \in Tasks \ {t} : cur'[u] = cur[u]
    PROVE  Awaiting
  BY TypeFacts, Assumptions DEF Awaiting, ServerAssumption

\* A process that ends takes its connections with it.
LEMMA VanishConnected ==
    ASSUME Control, Connected, Awaiting,
           NEW p \in Pids, NEW paths, Vanish(p, paths),
           \A s \in Sockets : listener[s] = p => s \in paths,
           \A w \in Workers : process[w] # p => process'[w] = process[w]
    PROVE  Connected'
  <1> USE TypeFacts DEF ProcTypeOK
  <1>1. /\ backlog'[p] = <<>> /\ serving'[p] = None
        /\ \A q \in Pids \ {p} : backlog'[q] = backlog[q] /\ serving'[q] = serving[q]
    BY DEF Vanish
  <1>2. Held(p)' = {} /\ \A q \in Pids \ {p} : Held(q)' = Held(q)
    BY <1>1, Assumptions DEF Held, Waiting, ServerAssumption
  <1>3. HeldByOwnSlot'
    <2> SUFFICES ASSUME NEW q \in Pids, NEW r \in Requests, r \in Held(q)'
                 PROVE  pc'[r] = "await" /\ process'[cur'[r]] = q /\ reply'[r] = "none"
      BY DEF HeldByOwnSlot
    <2>1. q # p /\ r \in Held(q)
      BY <1>2
    <2>2. pc[r] = "await" /\ cur[r] \in Workers /\ process[cur[r]] = q /\ reply[r] = "none"
      BY <2>1, HeldFacts
    <2>3. r \notin Held(p)
      BY <2>1, <2>2, HeldFacts
    <2> QED
      BY <2>1, <2>2, <2>3 DEF Awaiting, Vanish
  <1>4. HeldOnce(p)' /\ \A q \in Pids \ {p} : HeldOnce(q)'
    <2>1. HeldOnce(p)'
      BY <1>1 DEF HeldOnce
    <2>2. \A q \in Pids \ {p} : HeldOnce(q)'
      BY <1>1 DEF Connected, HeldOnce
    <2> QED
      BY <2>1, <2>2
  <1>5. \A r \in Requests : reply'[r] # "none" => pc'[r] = "await"
    <2> SUFFICES ASSUME NEW r \in Requests, reply'[r] # "none"
                 PROVE  pc'[r] = "await"
      OBVIOUS
    <2>1. r \in Held(p) \/ reply[r] # "none"
      BY DEF Vanish
    <2> QED
      BY <2>1, HeldFacts DEF Connected, Awaiting
  <1>6. \A s \in Sockets : listener'[s] # None =>
          listener'[s] \in booted' /\ home'[listener'[s]] = s
    BY DEF Connected, Vanish
  <1> QED
    BY <1>3, <1>4, <1>5, <1>6 DEF Connected

\* stop() of a slot.
LEMMA StopConnected ==
    ASSUME Control, Connected, Awaiting, NEW w \in Workers, Stop(w)
    PROVE  Connected'
  <1> USE TypeFacts
  <1>1. CASE process[w] = None
    BY <1>1, ConnectedKept DEF Stop
  <1>2. CASE process[w] # None
    <2>1. process[w] \in Pids
      BY <1>2
    <2>2. \A v \in Workers : process[v] # process[w] => process'[v] = process[v]
      BY DEF Stop
    <2>3. Vanish(process[w], {s \in Sockets : listener[s] = process[w]})
      BY <1>2 DEF Stop, Die
    <2> QED
      BY <2>1, <2>2, <2>3, VanishConnected
  <1> QED
    BY <1>1, <1>2

\* A step of a slot's operation.
LEMMA WorkerStepConnected ==
    ASSUME Control, Supervision, Connected, NEW t \in Tasks, WorkerStep(t)
    PROVE  Connected'
  <1> USE TypeFacts
  <1>0. /\ {"drain", "spawn", "ready"} = OperationLabels
        /\ {"drain", "spawn", "ready"} \subseteq Labels /\ ReturnLabels \subseteq Labels
        /\ "await" \notin {"drain", "spawn", "ready"}
    BY DEF OperationLabels, Labels, ReturnLabels, HandlerLabels, MonitorLabels, AdminLabels
  <1>1. CASE StopOld(t)
    <2>1. cur[t] \in Workers
      BY <1>0, <1>1, OperationCall DEF StopOld
    <2>2. Awaiting
      BY <1>0, <1>1, MoveAwaits DEF StopOld
    <2> QED
      BY <1>1, <2>1, <2>2, StopConnected DEF StopOld
  <1>2. CASE Spawn(t)
    <2>1. PICK p \in FreshPids : /\ Launch(p, SocketOf[cur[t]])
                                 /\ process' = [process EXCEPT ![cur[t]] = p]
      BY <1>2 DEF Spawn
    <2>2. p \in Pids /\ p \notin alive
      BY <2>1 DEF FreshPids
    <2>3. cur[t] \in Workers /\ process[cur[t]] = None
      BY <1>0, <1>2, OperationCall DEF Spawn, Supervision
    <2>4. Awaiting
      BY <1>0, <1>2, MoveAwaits DEF Spawn
    <2>5. UNCHANGED <<booted, backlog, serving, reply>>
      BY <2>1 DEF Launch
    <2>6. HeldByOwnSlot'
      <3> SUFFICES ASSUME NEW q \in Pids, NEW r \in Requests, r \in Held(q)'
                   PROVE  pc'[r] = "await" /\ process'[cur'[r]] = q /\ reply'[r] = "none"
        BY DEF HeldByOwnSlot
      <3>1. r \in Held(q)
        BY <2>5 DEF Held, Waiting
      <3>2. pc[r] = "await" /\ cur[r] \in Workers /\ process[cur[r]] = q /\ reply[r] = "none"
        BY <3>1, HeldFacts
      <3>3. cur[r] # cur[t]
        BY <2>3, <3>2, Assumptions DEF ServerAssumption
      <3> QED
        BY <2>1, <2>4, <2>5, <3>2, <3>3 DEF Awaiting
    <2>7. \A q \in Pids : HeldOnce(q)'
      BY <2>5 DEF Connected, HeldOnce
    <2>8. \A s \in Sockets : listener'[s] # None =>
            listener'[s] \in booted' /\ home'[listener'[s]] = s
      BY <2>1, <2>2, <2>5 DEF Launch, Connected, ProcTypeOK
    <2> QED
      BY <2>4, <2>5, <2>6, <2>7, <2>8 DEF Connected, Awaiting
  <1>3. CASE SpawnFails(t)
    <2>1. call[t].failed \in ReturnLabels
      BY <1>0, <1>3, OperationCall DEF SpawnFails
    <2>2. Awaiting
      BY <1>0, <1>3, <2>1, MoveAwaits DEF SpawnFails, Return, Goto
    <2>3. HeldByOwnSlot'
      BY <1>3, <2>2 DEF SpawnFails, Connected, HeldByOwnSlot, Awaiting, Held, Waiting
    <2>4. \A q \in Pids : HeldOnce(q)'
      BY <1>3 DEF SpawnFails, Connected, HeldOnce
    <2>5. \A s \in Sockets : listener'[s] # None =>
            listener'[s] \in booted' /\ home'[listener'[s]] = s
      BY <1>3 DEF SpawnFails, Connected, ProcTypeOK
    <2> QED
      BY <1>3, <2>2, <2>3, <2>4, <2>5 DEF SpawnFails, Connected, Awaiting
  <1>4. CASE Ready(t)
    <2>1. call[t].done \in ReturnLabels
      BY <1>0, <1>4, OperationCall DEF Ready
    <2>2. Awaiting
      BY <1>0, <1>4, <2>1, MoveAwaits DEF Ready, Return, Goto
    <2> QED
      BY <1>4, <2>2, ConnectedKept DEF Ready
  <1> QED
    BY <1>1, <1>2, <1>3, <1>4 DEF WorkerStep

-----------------------------------------------------------------------------
(* The operations that handlers and the monitor enter. *)

\* ensure_running.
LEMMA EnsureConnected ==
    ASSUME Control, Connected, NEW t \in Tasks, pc[t] # "await", NEW w \in Workers,
           NEW c \in Calls \ {NoCall}, EnsureRunning(t, w, c)
    PROVE  Connected'
  <1>l. c.done \in Labels /\ "spawn" \in Labels
    BY DEF Calls, ReturnLabels, Labels, HandlerLabels, MonitorLabels, AdminLabels, OperationLabels
  <1>1. CASE IsRunning(w)
    <2>1. Awaiting
      BY <1>1, <1>l, MoveAwaits, TypeFacts DEF EnsureRunning, Goto
    <2> QED
      BY <1>1, <2>1, ConnectedKept DEF EnsureRunning
  <1>2. CASE ~IsRunning(w)
    <2>1. Awaiting
      BY <1>2, <1>l, MoveAwaits, TypeFacts DEF EnsureRunning, Enter
    <2> QED
      BY <1>2, <2>1, StopConnected DEF EnsureRunning
  <1> QED
    BY <1>1, <1>2

\* The entry of graceful_recycle.
LEMMA RecycleConnected ==
    ASSUME Control, Connected, NEW t \in Tasks, pc[t] # "await", NEW w \in Workers,
           NEW c \in Calls \ {NoCall}, GracefulRecycle(t, w, c),
           UNCHANGED <<procVars, process>>
    PROVE  Connected'
  <1>l. c.done \in Labels /\ "drain" \in Labels
    BY DEF Calls, ReturnLabels, Labels, HandlerLabels, MonitorLabels, AdminLabels, OperationLabels
  <1>1. Awaiting
    BY <1>l, MoveAwaits, TypeFacts DEF GracefulRecycle, Goto, Enter
  <1> QED
    BY <1>1, ConnectedKept

\* Whoever listens at the socket of a slot is the child of that slot.
LEMMA ListenerIsChild ==
    ASSUME Control, Supervision, Connected,
           \A v, w \in Workers : SocketOf[v] = SocketOf[w] => v = w,
           NEW w \in Workers, listener[SocketOf[w]] # None
    PROVE  process[w] = listener[SocketOf[w]]
  <1>1. SocketOf[w] \in Sockets
    BY Assumptions DEF WorkerAssumption
  <1>2. /\ listener[SocketOf[w]] \in alive
        /\ home[listener[SocketOf[w]]] = SocketOf[w]
    BY <1>1, TypeFacts DEF Connected, ProcTypeOK
  <1>3. PICK v \in Workers : process[v] = listener[SocketOf[w]]
    BY <1>2 DEF Supervision, NoOrphans
  <1> QED
    BY <1>2, <1>3 DEF Supervision

\* A new connection is the only one of its request, and leads to the child of
\* the request's slot.
LEMMA ConnectConnected ==
    ASSUME Control, Supervision, Connected,
           \A v, w \in Workers : SocketOf[v] = SocketOf[w] => v = w,
           NEW r \in Requests, Connect(r)
    PROVE  Connected'
  <1> USE TypeFacts
  <1> DEFINE p == listener[SocketOf[cur[r]]]
  <1>0. /\ r \in Tasks /\ "connect" \in SlotLabels /\ "await" \in Labels
        /\ "await" \notin Resting /\ r # None
    BY Assumptions DEF ServerAssumption, SlotLabels, InFlight, Labels, HandlerLabels, Resting
  <1>1. cur[r] \in Workers /\ process[cur[r]] = p /\ p \in Pids
    BY <1>0, ListenerIsChild DEF Connect, Control
  <1>2. \A q \in Pids : r \notin Held(q)
    BY HeldFacts DEF Connect
  <1>3. /\ backlog' = [backlog EXCEPT ![p] = Append(@, r)]
        /\ UNCHANGED <<alive, booted, home, listener, serving, reply, process>>
        /\ pc' = [pc EXCEPT ![r] = "await"]
        /\ cur' = [cur EXCEPT ![r] = cur[r]]
    BY <1>0 DEF Connect, Dial, Goto
  <1>4. /\ backlog[p] \in Seq(Connections) /\ r \in Connections
        /\ Len(backlog[p]) \in Nat
        /\ DOMAIN backlog[p] = 1..Len(backlog[p])
        /\ DOMAIN backlog'[p] = 1..(Len(backlog[p]) + 1)
        /\ \A i \in DOMAIN backlog[p] : backlog'[p][i] = backlog[p][i]
        /\ backlog'[p][Len(backlog[p]) + 1] = r
    BY <1>1, <1>3 DEF ProcTypeOK, Connections
  <1>5. \A q \in Pids, s \in Requests \ {r} : s \in Held(q)' => s \in Held(q)
    <2> SUFFICES ASSUME NEW q \in Pids, NEW s \in Requests \ {r}, s \in Held(q)'
                 PROVE  s \in Held(q)
      OBVIOUS
    <2>1. serving[q] = s \/ \E i \in DOMAIN backlog'[q] : backlog'[q][i] = s
      BY <1>3 DEF Held, Waiting
    <2>2. CASE serving[q] = s
      BY <2>2, HeldIsThere
    <2>3. CASE \E i \in DOMAIN backlog'[q] : backlog'[q][i] = s
      <3>1. PICK i \in DOMAIN backlog'[q] : backlog'[q][i] = s
        BY <2>3
      <3>2. i \in DOMAIN backlog[q] /\ backlog[q][i] = s
        BY <1>3, <1>4, <3>1 DEF ProcTypeOK
      <3> QED
        BY <3>2, HeldIsThere
    <2> QED
      BY <2>1, <2>2, <2>3
  <1>6. \A q \in Pids \ {p} : r \notin Held(q)'
    <2> SUFFICES ASSUME NEW q \in Pids \ {p} PROVE r \notin Held(q)'
      OBVIOUS
    <2>1. Held(q)' = Held(q)
      BY <1>3 DEF Held, Waiting, ProcTypeOK
    <2> QED
      BY <1>2, <2>1
  <1>7. reply[r] = "none"
    BY DEF Connected, Connect
  <1>8. HeldByOwnSlot'
    <2> SUFFICES ASSUME NEW q \in Pids, NEW s \in Requests, s \in Held(q)'
                 PROVE  pc'[s] = "await" /\ process'[cur'[s]] = q /\ reply'[s] = "none"
      BY DEF HeldByOwnSlot
    <2>1. CASE s = r
      BY <1>0, <1>1, <1>3, <1>6, <1>7, <2>1
    <2>2. CASE s # r
      <3>1. s \in Held(q)
        BY <1>5, <2>2
      <3>2. pc[s] = "await" /\ process[cur[s]] = q /\ reply[s] = "none" /\ s \in Tasks
        BY <3>1, HeldFacts, Assumptions DEF ServerAssumption
      <3> QED
        BY <1>3, <2>2, <3>2
    <2> QED
      BY <2>1, <2>2
  <1>9. ASSUME NEW q \in Pids PROVE HeldOnce(q)'
    <2>1. CASE q # p
      BY <1>3, <2>1 DEF Connected, HeldOnce, ProcTypeOK
    <2>2. CASE q = p
      <3>1. serving[q] # r /\ \A i \in DOMAIN backlog[q] : backlog[q][i] # r
        BY <1>2, HeldIsThere
      <3>2. HeldOnce(q)
        BY DEF Connected
      <3>3. ASSUME NEW i \in DOMAIN backlog'[q]
            PROVE  \/ i = Len(backlog[q]) + 1 /\ backlog'[q][i] = r
                   \/ i \in DOMAIN backlog[q] /\ backlog'[q][i] = backlog[q][i]
        <4>1. i \in 1..(Len(backlog[p]) + 1)
          BY <1>4, <2>2
        <4>2. i = Len(backlog[p]) + 1 \/ i \in DOMAIN backlog[p]
          BY <1>4, <4>1
        <4> QED
          BY <1>4, <2>2, <4>2
      <3>4. ASSUME NEW i \in DOMAIN backlog'[q], NEW j \in DOMAIN backlog'[q],
                   backlog'[q][i] \in Requests, backlog'[q][i] = backlog'[q][j]
            PROVE  i = j
        BY <3>1, <3>2, <3>3, <3>4 DEF HeldOnce
      <3>5. ASSUME NEW i \in DOMAIN backlog'[q], backlog'[q][i] \in Requests
            PROVE  backlog'[q][i] # serving'[q]
        BY <1>3, <3>1, <3>2, <3>3, <3>5 DEF HeldOnce
      <3> QED
        BY <3>4, <3>5 DEF HeldOnce
    <2> QED
      BY <2>1, <2>2
  <1>10. \A s \in Requests : reply'[s] # "none" => pc'[s] = "await"
    BY <1>0, <1>3, Assumptions DEF Connected, ServerAssumption
  <1> QED
    BY <1>3, <1>8, <1>9, <1>10 DEF Connected

\* A handler that gives up leaves a mark in the place of its connection.
LEMMA TimeoutConnected ==
    ASSUME Control, Connected, NEW r \in Requests, Timeout(r)
    PROVE  Connected'
  <1> USE TypeFacts
  <1>0. r \in Tasks
    BY Assumptions DEF ServerAssumption
  <1>m. PICK mark \in {Gone, Bereft} : Abandon(r, mark)
    BY DEF Timeout
  <1>1. /\ UNCHANGED <<alive, booted, home, listener, reply, process>>
        /\ mark \notin Requests
    BY <1>m, Assumptions DEF Timeout, Abandon, ServerAssumption
  <1>a. ASSUME NEW q \in Pids
        PROVE  /\ \/ serving'[q] = serving[q] /\ serving[q] # r
                  \/ serving'[q] = mark /\ serving[q] = r
               /\ DOMAIN backlog'[q] = DOMAIN backlog[q]
               /\ \A i \in DOMAIN backlog[q] :
                    \/ backlog'[q][i] = backlog[q][i] /\ backlog[q][i] # r
                    \/ backlog'[q][i] = mark /\ backlog[q][i] = r
    <2>1. backlog'[q] = [i \in DOMAIN backlog[q] |->
                           IF backlog[q][i] = r THEN mark ELSE backlog[q][i]]
      BY <1>m DEF Abandon
    <2>2. serving'[q] = IF serving[q] = r THEN mark ELSE serving[q]
      BY <1>m DEF Abandon
    <2>3. DOMAIN backlog'[q] = DOMAIN backlog[q]
      BY <2>1
    <2>4. ASSUME NEW i \in DOMAIN backlog[q]
          PROVE  \/ backlog'[q][i] = backlog[q][i] /\ backlog[q][i] # r
                 \/ backlog'[q][i] = mark /\ backlog[q][i] = r
      BY <2>1
    <2> QED
      BY <2>2, <2>3, <2>4
  <1>2. /\ pc' = [pc EXCEPT ![r] = "timedout"]
        /\ \A u \in Tasks \ {r} : cur'[u] = cur[u]
    BY DEF Timeout, Goto
  <1>3. HeldByOwnSlot'
    <2> SUFFICES ASSUME NEW q \in Pids, NEW s \in Requests, s \in Held(q)'
                 PROVE  pc'[s] = "await" /\ process'[cur'[s]] = q /\ reply'[s] = "none"
      BY DEF HeldByOwnSlot
    <2>1. serving'[q] = s \/ \E i \in DOMAIN backlog'[q] : backlog'[q][i] = s
      BY DEF Held, Waiting
    <2>2. s # r /\ (serving[q] = s \/ \E i \in DOMAIN backlog[q] : backlog[q][i] = s)
      BY <1>1, <1>a, <2>1
    <2>3. s \in Held(q)
      BY <2>2, HeldIsThere
    <2> QED
      BY <1>1, <1>2, <2>2, <2>3, HeldFacts, Assumptions DEF ServerAssumption
  <1>4. ASSUME NEW q \in Pids PROVE HeldOnce(q)'
    <2>1. HeldOnce(q)
      BY DEF Connected
    <2>2. ASSUME NEW i \in DOMAIN backlog'[q], backlog'[q][i] \in Requests
          PROVE  i \in DOMAIN backlog[q] /\ backlog'[q][i] = backlog[q][i]
      BY <1>1, <1>a, <2>2
    <2>3. ASSUME NEW i \in DOMAIN backlog'[q], NEW j \in DOMAIN backlog'[q],
                 backlog'[q][i] \in Requests, backlog'[q][i] = backlog'[q][j]
          PROVE  i = j
      BY <2>1, <2>2, <2>3 DEF HeldOnce
    <2>4. ASSUME NEW i \in DOMAIN backlog'[q], backlog'[q][i] \in Requests
          PROVE  backlog'[q][i] # serving'[q]
      BY <1>1, <1>a, <2>1, <2>2, <2>4 DEF HeldOnce
    <2> QED
      BY <2>3, <2>4 DEF HeldOnce
  <1>5. \A s \in Requests : reply'[s] # "none" => pc'[s] = "await"
    BY <1>0, <1>1, <1>2, Assumptions DEF Timeout, Connected, ServerAssumption
  <1> QED
    BY <1>1, <1>3, <1>4, <1>5 DEF Connected

\* A handler that has its answer is held by no process.
LEMMA ReceiveConnected ==
    ASSUME Control, Connected, NEW r \in Requests, Receive(r)
    PROVE  Connected'
  <1> USE TypeFacts
  <1>0. r \in Tasks
    BY Assumptions DEF ServerAssumption
  <1>1. /\ reply' = [reply EXCEPT ![r] = "none"]
        /\ UNCHANGED <<alive, booted, home, listener, backlog, serving, process>>
    BY DEF Receive, HangUp
  <1>2. /\ \A u \in Tasks \ {r} : pc'[u] = pc[u] /\ cur'[u] = cur[u]
    BY DEF Receive, Goto
  <1>3. HeldByOwnSlot'
    <2> SUFFICES ASSUME NEW q \in Pids, NEW s \in Requests, s \in Held(q)'
                 PROVE  pc'[s] = "await" /\ process'[cur'[s]] = q /\ reply'[s] = "none"
      BY DEF HeldByOwnSlot
    <2>1. s \in Held(q)
      BY <1>1 DEF Held, Waiting
    <2>2. s # r
      BY <2>1, HeldFacts DEF Receive
    <2> QED
      BY <1>1, <1>2, <2>1, <2>2, HeldFacts, Assumptions DEF ServerAssumption
  <1>4. \A q \in Pids : HeldOnce(q)'
    BY <1>1 DEF Connected, HeldOnce
  <1>5. \A s \in Requests : reply'[s] # "none" => pc'[s] = "await"
    BY <1>1, <1>2, Assumptions DEF Connected, ServerAssumption, ProcTypeOK
  <1> QED
    BY <1>1, <1>3, <1>4, <1>5 DEF Connected

\* Every step of a handler.
LEMMA HandlerStepConnected ==
    ASSUME Control, Supervision, Connected,
           \A v, w \in Workers : SocketOf[v] = SocketOf[w] => v = w,
           NEW r \in Requests, HandlerStep(r) \/ Route(r)
    PROVE  Connected'
  <1> USE TypeFacts, HandlerFacts
  <1>l. /\ HandlerLabels \subseteq Labels
        /\ {"idle", "pick", "probe", "ensure", "body", "mark", "connect", "await",
            "ok", "failed", "timedout", "recycle", "panicked"} = HandlerLabels
        /\ {"ensure", "failed", "recycle", "timedout"} \subseteq SlotLabels
    BY DEF HandlerLabels, Labels, SlotLabels, InFlight
  <1>1. ASSUME NEW l \in HandlerLabels, NEW w, Goto(r, w, l), pc[r] # "await",
               UNCHANGED <<procVars, process>>
        PROVE  Connected'
    <2>1. Awaiting
      BY <1>1, <1>l, MoveAwaits DEF Goto
    <2> QED
      BY <1>1, <2>1, ConnectedKept
  <1>2. CASE Route(r) \/ EnterPool(r)
    <2>1. Awaiting
      BY <1>2, <1>l, MoveAwaits DEF Route, EnterPool
    <2> QED
      BY <1>2, <2>1, ConnectedKept DEF Route, EnterPool
  <1>3. CASE ProbeHit(r) \/ Fallback(r)
    BY <1>1, <1>3, <1>l DEF ProbeHit, Fallback, Choose
  <1>4. CASE ProbeMiss(r)
    BY <1>4, ConnectedKept DEF ProbeMiss, Awaiting
  <1>5. CASE EnsureBefore(r)
    BY <1>5, <1>l, EnsureConnected, CallFacts DEF EnsureBefore
  <1>6. CASE ReadBody(r) \/ RefuseBody(r) \/ MarkActive(r)
    BY <1>1, <1>6, <1>l DEF ReadBody, RefuseBody, MarkActive
  <1>7. CASE Connect(r)
    BY <1>7, ConnectConnected
  <1>8. CASE ConnectRefused(r)
    BY <1>1, <1>8, <1>l DEF ConnectRefused
  <1>9. CASE Receive(r) \/ Timeout(r)
    BY <1>9, ReceiveConnected, TimeoutConnected
  <1>10. CASE Settle(r)
    <2>1. PICK l \in {"recycle", "idle"} : Goto(r, cur[r], l)
      BY <1>10 DEF Settle
    <2> QED
      BY <1>1, <1>10, <1>l, <2>1 DEF Settle
  <1>11. CASE RecycleAfter(r)
    BY <1>11, <1>l, RecycleConnected, CallFacts DEF RecycleAfter
  <1>12. CASE SettleFailed(r)
    BY <1>12, <1>l, EnsureConnected, CallFacts DEF SettleFailed
  <1>13. CASE SettleTimedOut(r)
    BY <1>13, <1>l, RecycleConnected, CallFacts DEF SettleTimedOut
  <1>14. CASE WorkerStep(r)
    BY <1>14, WorkerStepConnected
  <1> QED
    BY <1>2, <1>3, <1>4, <1>5, <1>6, <1>7, <1>8, <1>9, <1>10, <1>11, <1>12,
       <1>13, <1>14 DEF HandlerStep

\* Every step of the monitor.
LEMMA MonitorStepConnected ==
    ASSUME Control, Supervision, Connected, MonitorNext
    PROVE  Connected'
  <1> USE TypeFacts
  <1>m. Monitor \in Tasks
    BY Assumptions DEF MonitorAssumption
  <1>l. {"sleep", "snapshot", "sweep"} \subseteq Labels
    BY DEF Labels, MonitorLabels
  <1>h. todo # <<>> => Head(todo) \in Workers
    BY DEF MonitorTypeOK
  <1>1. CASE Wake(pmLock) \/ Snapshot(poolLock, pool)
    <2>1. Awaiting
      BY <1>1, <1>m, <1>l, MoveAwaits DEF Wake, Snapshot
    <2> QED
      BY <1>1, <2>1, ConnectedKept DEF Wake, Snapshot
  <1>2. CASE SweepRecycle
    BY <1>2, <1>m, <1>h, RecycleConnected, CallFacts DEF SweepRecycle
  <1>3. CASE SweepTrack
    BY <1>3, ConnectedKept DEF SweepTrack, Awaiting
  <1>4. CASE EndRound
    <2>1. Awaiting
      BY <1>4, <1>m, <1>l, MoveAwaits DEF EndRound, Goto
    <2> QED
      BY <1>4, <2>1, ConnectedKept DEF EndRound
  <1>5. CASE Evict
    <2>1. heaviest.slot \in Workers
      BY <1>5 DEF Evict, MonitorTypeOK
    <2> QED
      BY <1>5, <1>m, <2>1, RecycleConnected, CallFacts DEF Evict
  <1>6. CASE WorkerStep(Monitor)
    BY <1>6, <1>m, WorkerStepConnected
  <1> QED
    BY <1>1, <1>2, <1>3, <1>4, <1>5, <1>6 DEF MonitorNext

-----------------------------------------------------------------------------
(* What PHP does. *)

\* The accept loop moves a connection within its process.
LEMMA AcceptConnected ==
    ASSUME Control, Connected, Awaiting, UNCHANGED process, NEW p \in Pids, Accept(p)
    PROVE  Connected'
  <1> USE TypeFacts
  <1>1. /\ backlog[p] \in Seq(Connections) /\ backlog[p] # <<>>
        /\ UNCHANGED <<alive, booted, home, listener, reply>>
        /\ backlog' = [backlog EXCEPT ![p] = Tail(backlog[p])]
        /\ serving' = [serving EXCEPT ![p] = Head(backlog[p])]
    BY DEF Accept, ProcTypeOK
  <1>2. /\ backlog'[p] = Tail(backlog[p])
        /\ serving'[p] = backlog[p][1]
        /\ \A q \in Pids \ {p} : backlog'[q] = backlog[q] /\ serving'[q] = serving[q]
    BY <1>1 DEF ProcTypeOK
  <1>3. 1 \in DOMAIN backlog[p]
    BY <1>1
  <1>4. ASSUME NEW i \in DOMAIN backlog'[p]
        PROVE  /\ i \in Nat /\ i + 1 \in DOMAIN backlog[p] /\ i + 1 # 1
               /\ backlog'[p][i] = backlog[p][i + 1]
    <2>1. /\ Len(backlog[p]) \in Nat /\ Len(backlog[p]) # 0
          /\ DOMAIN backlog[p] = 1..Len(backlog[p])
          /\ DOMAIN Tail(backlog[p]) = 1..(Len(backlog[p]) - 1)
      BY <1>1
    <2>2. i \in 1..(Len(backlog[p]) - 1)
      BY <1>2, <2>1
    <2>3. Tail(backlog[p])[i] = backlog[p][i + 1]
      BY <1>1, <2>1, <2>2
    <2> QED
      BY <1>2, <2>1, <2>2, <2>3
  <1>5. HeldByOwnSlot'
    <2> SUFFICES ASSUME NEW q \in Pids, NEW s \in Requests, s \in Held(q)'
                 PROVE  pc'[s] = "await" /\ process'[cur'[s]] = q /\ reply'[s] = "none"
      BY DEF HeldByOwnSlot
    <2>1. serving'[q] = s \/ \E i \in DOMAIN backlog'[q] : backlog'[q][i] = s
      BY DEF Held, Waiting
    <2>2. serving[q] = s \/ \E i \in DOMAIN backlog[q] : backlog[q][i] = s
      <3>1. CASE q # p
        BY <1>2, <2>1, <3>1
      <3>2. CASE q = p /\ serving'[p] = s
        BY <1>2, <1>3, <3>2
      <3>3. CASE q = p /\ \E i \in DOMAIN backlog'[p] : backlog'[p][i] = s
        BY <1>4, <3>3
      <3> QED
        BY <2>1, <3>1, <3>2, <3>3
    <2>3. s \in Held(q)
      BY <2>2, HeldIsThere
    <2> QED
      BY <1>1, <2>3, HeldFacts DEF Awaiting
  <1>6. ASSUME NEW q \in Pids PROVE HeldOnce(q)'
    <2>1. HeldOnce(q)
      BY DEF Connected
    <2>2. CASE q # p
      BY <1>2, <2>1, <2>2 DEF HeldOnce
    <2>3. CASE q = p
      <3>1. ASSUME NEW i \in DOMAIN backlog'[q], NEW j \in DOMAIN backlog'[q],
                   backlog'[q][i] \in Requests, backlog'[q][i] = backlog'[q][j]
            PROVE  i = j
        <4>1. i + 1 = j + 1
          BY <1>4, <2>1, <2>3, <3>1 DEF HeldOnce
        <4> QED
          BY <1>4, <2>3, <4>1
      <3>2. ASSUME NEW i \in DOMAIN backlog'[q], backlog'[q][i] \in Requests
            PROVE  backlog'[q][i] # serving'[q]
        <4>1. /\ i + 1 \in DOMAIN backlog[p] /\ i + 1 # 1
              /\ backlog'[q][i] = backlog[p][i + 1]
          BY <1>4, <2>3, <3>2
        <4>2. backlog[p][i + 1] # backlog[p][1]
          BY <1>3, <2>1, <2>3, <3>2, <4>1 DEF HeldOnce
        <4> QED
          BY <1>2, <2>3, <4>1, <4>2
      <3> QED
        BY <3>1, <3>2 DEF HeldOnce
    <2> QED
      BY <2>2, <2>3
  <1> QED
    BY <1>1, <1>5, <1>6 DEF Connected, Awaiting

\* A connection that is closed is held no longer.
LEMMA CloseConnected ==
    ASSUME Control, Connected, Awaiting, UNCHANGED process,
           NEW p \in Pids, NEW outcome, Close(p, outcome)
    PROVE  Connected'
  <1> USE TypeFacts
  <1>1. /\ UNCHANGED <<alive, booted, home, listener, backlog>>
        /\ serving' = [serving EXCEPT ![p] = None]
        /\ \A r \in Requests : reply'[r] = IF r = serving[p] THEN outcome ELSE reply[r]
    BY DEF Close
  <1>2. ASSUME NEW q \in Pids, NEW s \in Requests, s \in Held(q)'
        PROVE  s \in Held(q) /\ s # serving[p]
    <2>1. serving'[q] = s \/ \E i \in DOMAIN backlog[q] : backlog[q][i] = s
      BY <1>1, <1>2 DEF Held, Waiting
    <2>2. serving'[q] = s => serving[q] = s /\ q # p
      BY <1>1, Assumptions DEF ServerAssumption, ProcTypeOK
    <2>3. s \in Held(q)
      BY <2>1, <2>2, HeldIsThere
    <2>4. CASE q # p
      <3>1. s \notin Held(p)
        BY <2>3, <2>4, HeldFacts
      <3> QED
        BY <2>3, <3>1, HeldIsThere
    <2>5. CASE q = p
      BY <2>1, <2>2, <2>3, <2>5 DEF Connected, HeldOnce
    <2> QED
      BY <2>4, <2>5
  <1>3. HeldByOwnSlot'
    BY <1>1, <1>2, HeldFacts DEF HeldByOwnSlot, Awaiting
  <1>4. ASSUME NEW q \in Pids PROVE HeldOnce(q)'
    <2>1. HeldOnce(q) /\ (serving'[q] = serving[q] \/ serving'[q] = None)
      BY <1>1 DEF Connected, ProcTypeOK
    <2> QED
      BY <1>1, <2>1, Assumptions DEF HeldOnce, ServerAssumption
  <1>5. \A s \in Requests : reply'[s] # "none" => pc'[s] = "await"
    <2> SUFFICES ASSUME NEW s \in Requests, reply'[s] # "none" PROVE pc'[s] = "await"
      OBVIOUS
    <2>1. s \in Held(p) \/ reply[s] # "none"
      BY <1>1, HeldIsThere
    <2> QED
      BY <2>1, HeldFacts DEF Connected, Awaiting
  <1> QED
    BY <1>1, <1>3, <1>4, <1>5 DEF Connected

\* Every step of a PHP process.
LEMMA PhpStepConnected ==
    ASSUME Control, Connected, PhpNext
    PROVE  Connected'
  <1> USE TypeFacts
  <1>0. Awaiting /\ UNCHANGED process
    BY DEF PhpNext, Awaiting
  <1>1. PICK p \in Pids : Boot(p) \/ Accept(p) \/ Respond(p) \/ CloseSilently(p)
                            \/ Crash(p) \/ Terminate(p)
    BY DEF PhpNext, ProcNext
  <1>2. CASE Boot(p)
    <2>1. HeldByOwnSlot'
      BY <1>0, <1>2 DEF Boot, Connected, HeldByOwnSlot, Awaiting, Held, Waiting
    <2>2. \A q \in Pids : HeldOnce(q)'
      BY <1>2 DEF Boot, Connected, HeldOnce
    <2>3. \A s \in Sockets : listener'[s] # None =>
            listener'[s] \in booted' /\ home'[listener'[s]] = s
      BY <1>2 DEF Boot, Connected, ProcTypeOK
    <2> QED
      BY <1>0, <1>2, <2>1, <2>2, <2>3 DEF Boot, Connected, Awaiting
  <1>3. CASE Accept(p)
    BY <1>0, <1>3, AcceptConnected
  <1>4. CASE Respond(p) \/ CloseSilently(p)
    BY <1>0, <1>4, CloseConnected DEF Respond, CloseSilently
  <1>5. CASE Crash(p) \/ Terminate(p)
    <2>1. PICK paths : Vanish(p, paths) /\ \A s \in Sockets : listener[s] = p => s \in paths
      BY <1>5 DEF Crash, Die, Terminate
    <2> QED
      BY <1>0, <2>1, VanishConnected
  <1> QED
    BY <1>1, <1>2, <1>3, <1>4, <1>5

\* So does every step of the server.
LEMMA ConnectedStep ==
    ASSUME Control, Supervision, Connected,
           \A v, w \in Workers : SocketOf[v] = SocketOf[w] => v = w,
           [Next]_vars
    PROVE  Connected'
  <1>1. CASE UNCHANGED vars
    BY <1>1, ConnectedKept DEF vars, Awaiting
  <1> QED
    BY <1>1, HandlerStepConnected, MonitorStepConnected, PhpStepConnected
       DEF Next, HandlerNext

\* When every slot has its own socket path, no process ever holds a connection
\* of another slot's request, whatever kills, restarts and gives up.
THEOREM ConnectionsStayApart ==
    ASSUME \A v, w \in Workers : SocketOf[v] = SocketOf[w] => v = w
    PROVE  Spec => []HeldByOwnSlot
  <1>1. Connected /\ Control /\ Supervision /\ [Next]_vars => Connected'
    BY ConnectedStep
  <1>2. Connected => HeldByOwnSlot
    BY DEF Connected
  <1> QED
    BY <1>1, <1>2, ConnectedInit, ControlInvariant, SupervisionInvariant, PTL DEF Spec

\* Processes, sockets and connections: none is left behind, none is shared, and
\* none is crossed.
THEOREM ProcessesStaySound ==
    ASSUME \A v, w \in Workers : SocketOf[v] = SocketOf[w] => v = w
    PROVE  Spec => []ProcessesAreSound
  BY NoOrphansEver, SocketsAreExclusive, ConnectionsStayApart, PTL DEF ProcessesAreSound

-----------------------------------------------------------------------------
(* Charged is inductive. *)

\* The spent requests are finitely many, at most all.
LEMMA SpentFinite ==
    ASSUME NEW w
    PROVE  /\ IsFiniteSet(Requests)
           /\ IsFiniteSet(Spent(w))
           /\ Spent(w) \subseteq Requests
           /\ Cardinality(Spent(w)) \in Nat
           /\ Cardinality(Spent(w)) <= Cardinality(Requests)
           /\ Cardinality(Requests) \in Nat
  <1>1. IsFiniteSet(Requests) /\ Spent(w) \subseteq Requests
    BY Assumptions DEF ServerAssumption, Spent
  <1> QED
    BY <1>1, FS_Subset, FS_CardinalityType

\* Nothing is charged at first.
LEMMA ChargedInit == Init => Charged
  <1> SUFFICES ASSUME Init, NEW w \in Workers
               PROVE  handled[w] < MaxRequests + Cardinality(Spent(w))
    BY DEF Charged
  <1>1. handled[w] = 0
    BY DEF Init, WorkerInit
  <1> QED
    BY <1>1, SpentFinite, Assumptions DEF WorkerAssumption

\* More requests are spent on slot w, and none is charged to it.
LEMMA SpentGrows ==
    ASSUME Control, Charged, NEW w \in Workers, handled'[w] = handled[w],
           Spent(w) \subseteq Spent(w)'
    PROVE  handled'[w] < MaxRequests + Cardinality(Spent(w)')
  <1>1. /\ IsFiniteSet(Requests) /\ Spent(w)' \subseteq Requests
        /\ Cardinality(Spent(w)) \in Nat
    BY SpentFinite DEF Spent
  <1>2. IsFiniteSet(Spent(w)') /\ Cardinality(Spent(w)') \in Nat
    BY <1>1, FS_Subset, FS_CardinalityType
  <1>3. Cardinality(Spent(w)) <= Cardinality(Spent(w)')
    BY <1>2, FS_Subset
  <1>4. handled[w] \in Nat /\ MaxRequests \in Nat
    BY TypeFacts, Assumptions DEF WorkerAssumption
  <1> QED
    BY <1>1, <1>2, <1>3, <1>4 DEF Charged

\* Nobody is charged; no slot gets a process; nobody stops replacing one before
\* it is gone, and nobody can be charged anew to a slot that has none.
LEMMA ChargedKept ==
    ASSUME Control, Charged, handled' = handled,
           \A w \in Workers : process'[w] = process[w] \/ process'[w] = None,
           \A r \in Requests, w \in Workers :
             process'[w] = None /\ CanSettle(r, w)' => CanSettle(r, w),
           \A r \in Requests, w \in Workers :
             Replaces(r, w) => Replaces(r, w)' \/ process'[w] = None
    PROVE  Charged'
  <1> SUFFICES ASSUME NEW w \in Workers
               PROVE  handled'[w] < MaxRequests + Cardinality(Spent(w)')
    BY DEF Charged
  <1>1. ASSUME NEW r \in Spent(w) PROVE r \in Spent(w)'
    <2>1. CASE process[w] = None
      BY <2>1 DEF Spent
    <2>2. CASE process[w] # None /\ process'[w] # None
      BY <2>2 DEF Spent
    <2>3. CASE process[w] # None /\ process'[w] = None
      <3>1. Replaces(r, w)
        BY <2>3 DEF Spent
      <3>2. ~CanSettle(r, w)
        BY <3>1 DEF Replaces, CanSettle
      <3> QED
        BY <2>3, <3>2 DEF Spent
    <2> QED
      BY <2>1, <2>2, <2>3
  <1> QED
    BY <1>1, SpentGrows

\* A task moves on, not from a replacement and not to an answer.
LEMMA ChargedMove ==
    ASSUME Control, Charged, NEW t \in Tasks, NEW l \in Labels \ {"ok", "await"},
           pc[t] \notin {"recycle", "drain"},
           pc' = [pc EXCEPT ![t] = l], \A u \in Tasks \ {t} : cur'[u] = cur[u],
           UNCHANGED <<handled, process, reply>>
    PROVE  Charged'
  <1>1. \A r \in Requests : r \in Tasks
    BY Assumptions DEF ServerAssumption
  <1>2. \A r \in Requests, w \in Workers : CanSettle(r, w)' => CanSettle(r, w)
    BY <1>1, TypeFacts DEF CanSettle
  <1>3. \A r \in Requests, w \in Workers : Replaces(r, w) => Replaces(r, w)'
    BY <1>1, TypeFacts DEF Replaces
  <1> QED
    BY <1>2, <1>3, ChargedKept

\* A task stops the process of slot w, perhaps to replace it.
LEMMA ChargedStop ==
    ASSUME Control, Charged, NEW t \in Tasks, NEW w \in Workers,
           pc[t] \in {"recycle", "drain"} => cur[t] = w,
           Stop(w), pc' = [pc EXCEPT ![t] = "spawn"], cur' = [cur EXCEPT ![t] = w],
           UNCHANGED handled
    PROVE  Charged'
  <1> USE TypeFacts
  <1>1. \A r \in Requests : r \in Tasks
    BY Assumptions DEF ServerAssumption
  <1>2. process' = [process EXCEPT ![w] = None]
    BY DEF Stop
  <1>3. \A r \in Requests : reply'[r] = "response" => reply[r] = "response"
    BY DEF Stop, Die, Vanish
  <1>4. \A r \in Requests, v \in Workers : CanSettle(r, v)' => CanSettle(r, v)
    BY <1>1, <1>3 DEF CanSettle
  <1>5. \A r \in Requests, v \in Workers :
          Replaces(r, v) => Replaces(r, v)' \/ process'[v] = None
    BY <1>1, <1>2 DEF Replaces
  <1> QED
    BY <1>2, <1>4, <1>5, ChargedKept

-----------------------------------------------------------------------------
(* The operations of a slot. *)

\* A new process begins with nothing charged; an operation that fails leaves
\* the slot without one.
LEMMA WorkerStepCharged ==
    ASSUME Control, Supervision, Charged, NEW t \in Tasks, WorkerStep(t)
    PROVE  Charged'
  <1> USE TypeFacts
  <1>0. /\ {"drain", "spawn", "ready"} = OperationLabels
        /\ ReturnLabels \subseteq Labels \ {"ok", "await"}
        /\ "ready" \in Labels
    BY DEF OperationLabels, Labels, ReturnLabels, HandlerLabels, MonitorLabels, AdminLabels
  <1>1. CASE StopOld(t)
    <2>1. cur[t] \in Workers
      BY <1>0, <1>1, OperationCall DEF StopOld
    <2>2. cur' = [cur EXCEPT ![t] = cur[t]]
      BY <1>1 DEF StopOld
    <2> QED
      BY <1>1, <2>1, <2>2, ChargedStop DEF StopOld
  <1>2. CASE Spawn(t)
    <2>1. PICK p \in FreshPids : /\ Launch(p, SocketOf[cur[t]])
                                 /\ process' = [process EXCEPT ![cur[t]] = p]
      BY <1>2 DEF Spawn
    <2>2. cur[t] \in Workers
      BY <1>0, <1>2, OperationCall DEF Spawn
    <2> SUFFICES ASSUME NEW w \in Workers
                 PROVE  handled'[w] < MaxRequests + Cardinality(Spent(w)')
      BY DEF Charged
    <2>3. CASE w = cur[t]
      <3>1. handled'[w] = 0
        BY <1>2, <2>3 DEF Spawn
      <3>2. Cardinality(Spent(w)') \in Nat
        <4>1. Spent(w)' \subseteq Requests /\ IsFiniteSet(Requests)
          BY SpentFinite DEF Spent
        <4> QED
          BY <4>1, FS_Subset, FS_CardinalityType
      <3> QED
        BY <3>1, <3>2, Assumptions DEF WorkerAssumption
    <2>4. CASE w # cur[t]
      <3>1. /\ handled'[w] = handled[w] /\ process'[w] = process[w]
            /\ UNCHANGED <<cur, reply>>
            /\ pc' = [pc EXCEPT ![t] = "ready"]
        BY <1>2, <2>1, <2>4 DEF Spawn, Launch
      <3>2. \A r \in Requests : CanSettle(r, w)' = CanSettle(r, w)
                                /\ Replaces(r, w)' = Replaces(r, w)
        BY <1>2, <2>4, <3>1, Assumptions DEF CanSettle, Replaces, Spawn, ServerAssumption
      <3>3. Spent(w) \subseteq Spent(w)'
        BY <3>1, <3>2 DEF Spent
      <3> QED
        BY <3>1, <3>3, SpentGrows
    <2> QED
      BY <2>3, <2>4
  <1>3. CASE SpawnFails(t)
    <2>1. call[t].failed \in ReturnLabels
      BY <1>0, <1>3, OperationCall DEF SpawnFails
    <2> QED
      BY <1>0, <1>3, <2>1, ChargedMove DEF SpawnFails, Return, Goto
  <1>4. CASE Ready(t)
    <2>1. call[t].done \in ReturnLabels
      BY <1>0, <1>4, OperationCall DEF Ready
    <2> QED
      BY <1>0, <1>4, <2>1, ChargedMove DEF Ready, Return, Goto
  <1> QED
    BY <1>1, <1>2, <1>3, <1>4 DEF WorkerStep

\* ensure_running.
LEMMA EnsureCharged ==
    ASSUME Control, Charged, NEW t \in Tasks, pc[t] \notin {"recycle", "drain"},
           NEW w \in Workers, NEW c \in Calls \ {NoCall}, EnsureRunning(t, w, c),
           UNCHANGED handled
    PROVE  Charged'
  <1>l. c.done \in Labels \ {"ok", "await"}
    BY DEF Calls, ReturnLabels, Labels, HandlerLabels, MonitorLabels, AdminLabels, OperationLabels
  <1>1. CASE IsRunning(w)
    BY <1>1, <1>l, ChargedMove, TypeFacts DEF EnsureRunning, Goto
  <1>2. CASE ~IsRunning(w)
    BY <1>2, ChargedStop DEF EnsureRunning, Enter
  <1> QED
    BY <1>1, <1>2

\* graceful_recycle on a slot whose lock is free: it is not draining, so its
\* process is going to be replaced.
LEMMA RecycleCharged ==
    ASSUME Control, Draining, Charged, NEW t \in Tasks, pc[t] # "drain",
           NEW w \in Workers, lock[w] = None, pc[t] = "recycle" => cur[t] = w,
           NEW c \in Calls \ {NoCall}, GracefulRecycle(t, w, c),
           UNCHANGED <<procVars, process, handled>>
    PROVE  Charged'
  <1> USE TypeFacts
  <1>1. \A r \in Requests : r \in Tasks
    BY Assumptions DEF ServerAssumption
  <1>2. pc' = [pc EXCEPT ![t] = "drain"] /\ cur' = [cur EXCEPT ![t] = w]
    BY DEF GracefulRecycle, Enter, Draining
  <1>3. \A r \in Requests, v \in Workers : CanSettle(r, v)' => CanSettle(r, v)
    BY <1>1, <1>2 DEF CanSettle
  <1>4. \A r \in Requests, v \in Workers : Replaces(r, v) => Replaces(r, v)'
    BY <1>1, <1>2 DEF Replaces
  <1> QED
    BY <1>3, <1>4, ChargedKept

-----------------------------------------------------------------------------
(* The steps of the handlers. *)

\* One more request is charged to slot w: it is spent, or the slot is below its
\* quota.
LEMMA SettleCharged ==
    ASSUME Control, Charged, NEW r \in Requests, Settle(r)
    PROVE  Charged'
  <1> USE TypeFacts, HandlerFacts
  <1>0. cur[r] \in Workers
    BY DEF Settle, SlotLabels, InFlight
  <1>1. PICK mem \in Levels, level \in Observed(cur[r], process[cur[r]]) :
          Goto(r, cur[r], IF ShouldRestart(level, mem, handled[cur[r]] + 1)
                            THEN "recycle" ELSE "idle")
    BY DEF Settle
  <1>2. /\ pc[r] = "ok"
        /\ handled' = [handled EXCEPT ![cur[r]] = @ + 1]
        /\ UNCHANGED <<process, reply>>
        /\ \A u \in Requests \ {r} : pc'[u] = pc[u] /\ cur'[u] = cur[u]
    BY Assumptions DEF Settle, Goto, ServerAssumption
  <1>3. \/ pc'[r] = "recycle" /\ cur'[r] = cur[r]
        \/ pc'[r] = "idle" /\ cur'[r] = None /\ handled[cur[r]] + 1 < MaxRequests
    <2>1. CASE ShouldRestart(level, mem, handled[cur[r]] + 1)
      BY <1>1, <2>1 DEF Goto, Resting
    <2>2. CASE ~ShouldRestart(level, mem, handled[cur[r]] + 1)
      <3>1. handled[cur[r]] + 1 < MaxRequests
        BY <1>0, <2>2, Assumptions DEF ShouldRestart, WorkerAssumption
      <3> QED
        BY <1>1, <2>2, <3>1 DEF Goto, Resting
    <2> QED
      BY <2>1, <2>2
  <1> SUFFICES ASSUME NEW w \in Workers
               PROVE  handled'[w] < MaxRequests + Cardinality(Spent(w)')
    BY DEF Charged
  <1>4. CASE w # cur[r]
    <2>1. cur'[r] # w
      BY <1>3, <1>4, Assumptions DEF ServerAssumption
    <2>2. \A u \in Requests : CanSettle(u, w)' = CanSettle(u, w)
                             /\ Replaces(u, w)' = Replaces(u, w)
      BY <1>2, <1>4, <2>1 DEF CanSettle, Replaces
    <2>3. Spent(w) \subseteq Spent(w)' /\ handled'[w] = handled[w]
      BY <1>2, <1>4, <2>2 DEF Spent
    <2> QED
      BY <2>3, SpentGrows
  <1>5. CASE w = cur[r] /\ pc'[r] = "idle"
    <2>1. handled'[w] < MaxRequests
      BY <1>2, <1>3, <1>5
    <2>2. Cardinality(Spent(w)') \in Nat
      <3>1. Spent(w)' \subseteq Requests /\ IsFiniteSet(Requests)
        BY SpentFinite DEF Spent
      <3> QED
        BY <3>1, FS_Subset, FS_CardinalityType
    <2>3. handled'[w] \in Nat /\ MaxRequests \in Nat
      BY <1>2, Assumptions DEF WorkerAssumption
    <2> QED
      BY <2>1, <2>2, <2>3
  <1>6. CASE w = cur[r] /\ pc'[r] = "recycle"
    <2>1. \A u \in Requests \ {r} : CanSettle(u, w)' = CanSettle(u, w)
                                   /\ Replaces(u, w)' = Replaces(u, w)
      BY <1>2 DEF CanSettle, Replaces
    <2>2. CanSettle(r, w) /\ ~Replaces(r, w)
      BY <1>2, <1>6 DEF CanSettle, Replaces
    <2>7. ~CanSettle(r, w)' /\ Replaces(r, w)'
      <3>1. cur'[r] = w /\ w' = w
        BY <1>3, <1>6
      <3> QED
        BY <1>6, <3>1 DEF CanSettle, Replaces
    <2>3. Spent(w)' = Spent(w) \cup {r} /\ r \notin Spent(w)
      BY <1>2, <2>1, <2>2, <2>7 DEF Spent
    <2>4. Cardinality(Spent(w)') = Cardinality(Spent(w)) + 1
      BY <2>3, SpentFinite, FS_AddElement
    <2>5. handled'[w] = handled[w] + 1 /\ handled[w] \in Nat
      BY <1>2, <1>6
    <2>6. /\ handled[w] < MaxRequests + Cardinality(Spent(w))
          /\ Cardinality(Spent(w)) \in Nat /\ MaxRequests \in Nat
      BY SpentFinite, Assumptions DEF Charged, WorkerAssumption
    <2> QED
      BY <2>4, <2>5, <2>6
  <1> QED
    BY <1>3, <1>4, <1>5, <1>6

\* A handler connects, and has no answer yet.
LEMMA ConnectCharged ==
    ASSUME Control, Connected, Charged, NEW r \in Requests, Connect(r)
    PROVE  Charged'
  <1> USE TypeFacts, HandlerFacts
  <1>1. /\ pc[r] = "connect" /\ pc'[r] = "await" /\ reply'[r] = "none"
        /\ UNCHANGED <<handled, process, reply>>
        /\ \A u \in Requests \ {r} : pc'[u] = pc[u] /\ cur'[u] = cur[u]
    BY Assumptions DEF Connect, Dial, Goto, Connected, ServerAssumption
  <1>2. \A u \in Requests, w \in Workers :
          /\ CanSettle(u, w)' => CanSettle(u, w)
          /\ Replaces(u, w) => Replaces(u, w)'
    BY <1>1 DEF CanSettle, Replaces
  <1> QED
    BY <1>1, <1>2, ChargedKept

\* A handler that reads a response can be charged as before.
LEMMA ReceiveCharged ==
    ASSUME Control, Charged, NEW r \in Requests, Receive(r)
    PROVE  Charged'
  <1> USE TypeFacts, HandlerFacts
  <1>1. /\ pc[r] = "await" /\ pc'[r] \in {"ok", "failed"}
        /\ pc'[r] = "ok" => (reply[r] = "response" /\ cur'[r] = cur[r])
        /\ UNCHANGED <<handled, process>>
        /\ \A u \in Requests \ {r} :
              pc'[u] = pc[u] /\ cur'[u] = cur[u] /\ reply'[u] = reply[u]
    BY Assumptions DEF Receive, HangUp, Goto, Resting, ServerAssumption, ProcTypeOK
  <1>2. \A u \in Requests, w \in Workers :
          /\ CanSettle(u, w)' => CanSettle(u, w)
          /\ Replaces(u, w) => Replaces(u, w)'
    BY <1>1 DEF CanSettle, Replaces
  <1> QED
    BY <1>1, <1>2, ChargedKept

\* Every step of a handler.
LEMMA HandlerStepCharged ==
    ASSUME Control, Supervision, Draining, Connected, Charged,
           NEW r \in Requests, HandlerStep(r) \/ Route(r)
    PROVE  Charged'
  <1> USE TypeFacts, HandlerFacts
  <1>l. /\ HandlerLabels \subseteq Labels
        /\ {"idle", "pick", "probe", "ensure", "body", "mark", "connect", "await",
            "ok", "failed", "timedout", "recycle", "panicked"} = HandlerLabels
        /\ {"ensure", "failed", "recycle", "timedout"} \subseteq SlotLabels
    BY DEF HandlerLabels, Labels, SlotLabels, InFlight
  <1>1. ASSUME NEW l \in HandlerLabels \ {"ok", "await"}, NEW w, Goto(r, w, l),
               pc[r] \notin {"recycle", "drain"}, UNCHANGED <<handled, process, reply>>
        PROVE  Charged'
    BY <1>1, <1>l, ChargedMove DEF Goto
  <1>2. CASE Route(r) \/ EnterPool(r)
    BY <1>2, <1>l, ChargedMove DEF Route, EnterPool
  <1>3. CASE ProbeHit(r) \/ Fallback(r)
    BY <1>1, <1>3, <1>l DEF ProbeHit, Fallback, Choose
  <1>4. CASE ProbeMiss(r)
    BY <1>4, ChargedKept DEF ProbeMiss, CanSettle, Replaces
  <1>5. CASE EnsureBefore(r)
    BY <1>5, <1>l, EnsureCharged, CallFacts DEF EnsureBefore
  <1>6. CASE ReadBody(r) \/ RefuseBody(r) \/ MarkActive(r)
    BY <1>1, <1>6, <1>l DEF ReadBody, RefuseBody, MarkActive
  <1>7. CASE Connect(r)
    BY <1>7, ConnectCharged
  <1>8. CASE ConnectRefused(r)
    BY <1>1, <1>8, <1>l DEF ConnectRefused
  <1>9. CASE Receive(r)
    BY <1>9, ReceiveCharged
  <1>10. CASE Timeout(r)
    BY <1>1, <1>10, <1>l DEF Timeout, Abandon
  <1>11. CASE Settle(r)
    BY <1>11, SettleCharged
  <1>12. CASE RecycleAfter(r)
    BY <1>12, <1>l, RecycleCharged, CallFacts DEF RecycleAfter
  <1>13. CASE SettleFailed(r)
    BY <1>13, <1>l, EnsureCharged, CallFacts DEF SettleFailed
  <1>14. CASE SettleTimedOut(r)
    BY <1>14, <1>l, RecycleCharged, CallFacts DEF SettleTimedOut
  <1>15. CASE WorkerStep(r)
    BY <1>15, WorkerStepCharged
  <1> QED
    BY <1>2, <1>3, <1>4, <1>5, <1>6, <1>7, <1>8, <1>9, <1>10, <1>11, <1>12,
       <1>13, <1>14, <1>15 DEF HandlerStep

-----------------------------------------------------------------------------
(* The steps of the monitor and of PHP. *)

\* Every step of the monitor.
LEMMA MonitorStepCharged ==
    ASSUME Control, Supervision, Draining, Charged, MonitorNext
    PROVE  Charged'
  <1> USE TypeFacts
  <1>m. Monitor \in Tasks
    BY Assumptions DEF MonitorAssumption
  <1>l. {"sleep", "snapshot", "sweep"} \subseteq Labels
    BY DEF Labels, MonitorLabels
  <1>h. todo # <<>> => Head(todo) \in Workers
    BY DEF MonitorTypeOK
  <1>1. CASE Wake(pmLock) \/ Snapshot(poolLock, pool)
    BY <1>1, <1>m, <1>l, ChargedMove DEF Wake, Snapshot
  <1>2. CASE SweepRecycle
    BY <1>2, <1>m, <1>h, RecycleCharged, CallFacts DEF SweepRecycle
  <1>3. CASE SweepTrack
    BY <1>3, ChargedKept DEF SweepTrack, CanSettle, Replaces
  <1>4. CASE EndRound
    BY <1>4, <1>m, <1>l, ChargedMove DEF EndRound, Goto
  <1>5. CASE Evict
    <2>1. heaviest.slot \in Workers
      BY <1>5 DEF Evict, MonitorTypeOK
    <2> QED
      BY <1>5, <1>m, <2>1, RecycleCharged, CallFacts DEF Evict
  <1>6. CASE WorkerStep(Monitor)
    BY <1>6, <1>m, WorkerStepCharged
  <1> QED
    BY <1>1, <1>2, <1>3, <1>4, <1>5, <1>6 DEF MonitorNext

\* PHP answers only requests whose slot has a process.
LEMMA PhpStepCharged ==
    ASSUME Control, Connected, Charged, PhpNext
    PROVE  Charged'
  <1> USE TypeFacts
  <1>0. UNCHANGED <<handled, process, pc, cur>>
    BY DEF PhpNext
  <1>1. ASSUME NEW r \in Requests, reply'[r] = "response", reply[r] # "response"
        PROVE  cur[r] \in Workers /\ process[cur[r]] # None
    <2>1. PICK p \in Pids : Boot(p) \/ Accept(p) \/ Respond(p) \/ CloseSilently(p)
                              \/ Crash(p) \/ Terminate(p)
      BY DEF PhpNext, ProcNext
    <2>2. r = serving[p]
      BY <1>1, <2>1 DEF Boot, Accept, Respond, CloseSilently, Close, Crash, Die,
                        Terminate, Vanish
    <2>3. r \in Held(p)
      BY <2>2, HeldIsThere
    <2> QED
      BY <2>3, HeldFacts, Assumptions DEF ServerAssumption
  <1>2. \A r \in Requests, w \in Workers :
          process'[w] = None /\ CanSettle(r, w)' => CanSettle(r, w)
    BY <1>0, <1>1 DEF CanSettle
  <1>3. \A r \in Requests, w \in Workers : Replaces(r, w) => Replaces(r, w)'
    BY <1>0 DEF Replaces
  <1> QED
    BY <1>0, <1>2, <1>3, ChargedKept

\* So does every step of the server.
LEMMA ChargedStep ==
    ASSUME Control, Supervision, Draining, Connected, Charged, [Next]_vars
    PROVE  Charged'
  <1>1. CASE UNCHANGED vars
    BY <1>1, ChargedKept DEF vars, CanSettle, Replaces
  <1> QED
    BY <1>1, HandlerStepCharged, MonitorStepCharged, PhpStepCharged
       DEF Next, HandlerNext

\* "Auto-restart after N requests": when every slot has its own socket path, a
\* process outlives its quota by less than one request per concurrent request.
THEOREM QuotaIsKept ==
    ASSUME \A v, w \in Workers : SocketOf[v] = SocketOf[w] => v = w
    PROVE  Spec => []QuotaOvershoot
  <1>1. Spec => []Connected
    <2>1. Connected /\ Control /\ Supervision /\ [Next]_vars => Connected'
      BY ConnectedStep
    <2> QED
      BY <2>1, ConnectedInit, ControlInvariant, SupervisionInvariant, PTL DEF Spec
  <1>2. Spec => []Charged
    BY <1>1, ChargedInit, ChargedStep, ControlInvariant, SupervisionInvariant,
       DrainingInvariant, PTL DEF Spec
  <1>3. Control /\ Charged => QuotaOvershoot
    BY SpentFinite, TypeFacts, Assumptions DEF Charged, QuotaOvershoot, WorkerAssumption
  <1> QED
    BY <1>2, <1>3, ControlInvariant, PTL

-----------------------------------------------------------------------------
(* Scanning is inductive. *)

\* At first nobody scans.
LEMMA ScanningInit == HistoryInit => Scanning
  <1> SUFFICES ASSUME HistoryInit, NEW r \in Requests PROVE ScanOf(r)
    BY DEF Scanning
  <1>1. probed[r] = {}
    BY DEF HistoryInit
  <1>2. pc[r] # "probe"
    BY Assumptions DEF HistoryInit, Init, ServerAssumption
  <1> QED
    BY <1>1, <1>2 DEF ScanOf

\* The round robin goes round.
LEMMA RoundRobin ==
    ASSUME NEW n \in Nat, NEW c \in Nat, c < n
    PROVE  (c + 1) % n = IF c + 1 = n THEN 0 ELSE c + 1
  <1>1. CASE c + 1 = n
    BY <1>1
  <1>2. CASE c + 1 < n
    BY <1>2
  <1> QED
    BY <1>1, <1>2

\* What a handler's step does to the scans.
LEMMA ScanSteps ==
    ASSUME Control, NEW r \in Requests, HandlerStep(r) \/ Route(r)
    PROVE  /\ UNCHANGED pool
           /\ \A u \in Requests \ {r} : pc'[u] = pc[u] /\ tries'[u] = tries[u]
           /\ \/ ProbeMiss(r) /\ pc'[r] = "probe"
              \/ EnterPool(r)
              \/ pc[r] = "probe" /\ pc'[r] # "probe"
              \/ /\ pc[r] # "probe" /\ pc'[r] # "probe"
                 /\ UNCHANGED <<poolLock, current, tries>>
  <1> USE TypeFacts, HandlerFacts DEF PoolTypeOK
  <1>0. /\ \A u \in Requests \ {r} : pc'[u] = pc[u]
        /\ UNCHANGED pool
        /\ \/ poolLock = None /\ poolLock' = r /\ pc[r] # "probe" /\ pc'[r] = "probe"
           \/ poolLock' = None /\ pc[r] = "probe" /\ pc'[r] # "probe"
           \/ poolLock' = poolLock /\ (pc'[r] = "probe" <=> pc[r] = "probe")
    BY StepMoves, HandlerFacts
  <1>1. CASE ProbeMiss(r)
    BY <1>0, <1>1 DEF ProbeMiss
  <1>2. CASE EnterPool(r)
    BY <1>0, <1>2 DEF EnterPool
  <1>3. CASE ProbeHit(r) \/ Fallback(r)
    BY <1>0, <1>3 DEF ProbeHit, Fallback, Choose, Goto
  <1>4. CASE ~ProbeMiss(r) /\ ~EnterPool(r) /\ ~ProbeHit(r) /\ ~Fallback(r)
    <2>1. pc[r] # "probe" /\ UNCHANGED <<poolLock, current, tries>>
      <3>1. CASE WorkerStep(r) /\ UNCHANGED poolVars
        BY <3>1, WorkerMoves DEF OperationLabels
      <3>2. CASE Route(r)
        BY <3>2 DEF Route
      <3>3. CASE EnsureBefore(r) \/ ReadBody(r) \/ RefuseBody(r) \/ MarkActive(r)
        BY <3>3 DEF EnsureBefore, ReadBody, RefuseBody, MarkActive
      <3>4. CASE Connect(r) \/ ConnectRefused(r) \/ Receive(r) \/ Timeout(r)
        BY <3>4 DEF Connect, ConnectRefused, Receive, Timeout
      <3>5. CASE Settle(r) \/ RecycleAfter(r) \/ SettleFailed(r) \/ SettleTimedOut(r)
        BY <3>5 DEF Settle, RecycleAfter, SettleFailed, SettleTimedOut
      <3> QED
        BY <1>4, <3>1, <3>2, <3>3, <3>4, <3>5 DEF HandlerStep
    <2>2. pc'[r] # "probe"
      BY <1>0, <2>1, Assumptions DEF ServerAssumption
    <2> QED
      BY <1>0, <2>1, <2>2
  <1> QED
    BY <1>1, <1>2, <1>3, <1>4

\* A scan that neither begins, ends nor goes on stays as it is.
LEMMA ScanKept ==
    ASSUME HistoryNext, NEW u \in Requests, ScanOf(u), UNCHANGED pool, tries[u] \in Nat,
           pc'[u] = "probe" => pc[u] = "probe" /\ UNCHANGED <<poolLock, current>>
                               /\ tries'[u] = tries[u]
    PROVE  ScanOf(u)'
  <1>1. CASE pc'[u] # "probe"
    <2>1. probed'[u] = {}
      BY <1>1 DEF HistoryNext
    <2> QED
      BY <1>1, <2>1 DEF ScanOf
  <1>2. CASE pc'[u] = "probe"
    <2>1. probed'[u] = probed[u]
      BY <1>2 DEF HistoryNext
    <2> QED
      BY <1>2, <2>1 DEF ScanOf, Back
  <1> QED
    BY <1>1, <1>2

\* A scan that begins has tried no slot.
LEMMA ScanBegins ==
    ASSUME Control, pool # <<>>, HistoryNext, NEW r \in Requests, ScanOf(r), EnterPool(r)
    PROVE  ScanOf(r)'
  <1>1. r \in Tasks /\ pc \in [Tasks -> Labels] /\ tries \in [Requests -> Nat]
    BY HandlerFacts, TypeFacts DEF PoolTypeOK
  <1>2. pc'[r] = "probe" /\ tries'[r] = 0 /\ poolLock' = r /\ pool' = pool
    BY <1>1 DEF EnterPool
  <1>3. ~(tries'[r] > tries[r])
    BY <1>1, <1>2
  <1>4. probed'[r] = probed[r]
    BY <1>2, <1>3 DEF HistoryNext
  <1>5. 0 <= Len(pool')
    BY <1>2, TypeFacts DEF PoolTypeOK
  <1> QED
    BY <1>2, <1>4, <1>5 DEF ScanOf

\* Each candidate that a scan rejects is the one just behind the round robin.
LEMMA ScanGoesOn ==
    ASSUME Control, pool # <<>>, HistoryNext, NEW r \in Requests, ScanOf(r), ProbeMiss(r)
    PROVE  ScanOf(r)'
  <1>1. /\ r \in Tasks /\ pc \in [Tasks -> Labels] /\ tries \in [Requests -> Nat]
        /\ pool \in Seq(Workers) /\ current \in Nat /\ current < Len(pool)
    BY HandlerFacts, TypeFacts DEF PoolTypeOK
  <1>2. /\ pc[r] = "probe" /\ pc'[r] = "probe"
        /\ tries[r] < Len(pool)
        /\ tries'[r] = tries[r] + 1
        /\ poolLock' = poolLock /\ pool' = pool
        /\ current' = (current + 1) % Len(pool)
    BY <1>1 DEF ProbeMiss, Advance
  <1>3. Len(pool) \in Nat
    BY <1>1
  <1>4. current' = IF current + 1 = Len(pool) THEN 0 ELSE current + 1
    BY <1>1, <1>2, <1>3, RoundRobin
  <1>5. tries[r] \in Nat
    BY <1>1
  <1>6. probed'[r] = probed[r] \cup {pool[current + 1]}
    <2>1. tries'[r] > tries[r]
      BY <1>2, <1>5
    <2> QED
      BY <1>2, <2>1 DEF HistoryNext, Candidate
  <1>7. probed'[r] \subseteq SlotsIn(pool')
    <2>1. current + 1 \in DOMAIN pool
      BY <1>1, <1>3
    <2> QED
      BY <1>2, <1>6, <2>1 DEF ScanOf, SlotsIn
  <1>8. ASSUME NEW j \in 1..tries'[r]
        PROVE  pool'[Back(j)'] \in probed'[r]
    <2>1. Back(j)' = (IF current' >= j THEN current' - j ELSE current' + Len(pool) - j) + 1
      BY <1>2 DEF Back
    <2>2. CASE j = 1
      <3>1. Back(j)' = current + 1
        BY <1>1, <1>3, <1>4, <2>1, <2>2
      <3> QED
        BY <1>2, <1>6, <3>1
    <2>3. CASE j # 1
      <3>1. j - 1 \in 1..tries[r] /\ j \in Int /\ j <= Len(pool)
        BY <1>2, <1>3, <1>5, <2>3
      <3>2. Back(j)' = Back(j - 1)
        <4>1. Back(j - 1) = (IF current >= j - 1 THEN current - (j - 1)
                                 ELSE current + Len(pool) - (j - 1)) + 1
          BY DEF Back
        <4> QED
          BY <1>1, <1>3, <1>4, <2>1, <3>1, <4>1
      <3>3. pool[Back(j - 1)] \in probed[r]
        BY <1>2, <3>1 DEF ScanOf
      <3> QED
        BY <1>2, <1>6, <3>2, <3>3
    <2> QED
      BY <2>2, <2>3
  <1>9. tries'[r] <= Len(pool')
    BY <1>2, <1>3, <1>5
  <1> QED
    BY <1>2, <1>7, <1>8, <1>9 DEF ScanOf

\* Every step keeps Scanning.
LEMMA ScanningStep ==
    ASSUME Control, pool # <<>>, Scanning, [HistoryNext]_historyVars
    PROVE  Scanning'
  <1> SUFFICES ASSUME NEW u \in Requests PROVE ScanOf(u)'
    BY DEF Scanning
  <1>0. u \in Tasks /\ tries[u] \in Nat /\ ScanOf(u)
    BY HandlerFacts, TypeFacts DEF PoolTypeOK, Scanning
  <1>1. CASE UNCHANGED historyVars
    BY <1>0, <1>1 DEF historyVars, vars, ScanOf, Back
  <1>2. ASSUME HistoryNext, NEW r \in Requests, HandlerStep(r) \/ Route(r)
        PROVE  ScanOf(u)'
    <2>0. /\ UNCHANGED pool
          /\ u # r => pc'[u] = pc[u] /\ tries'[u] = tries[u]
      BY <1>2, ScanSteps
    <2>1. CASE pc[r] # "probe" /\ pc'[r] # "probe" /\ UNCHANGED <<poolLock, current, tries>>
      BY <1>0, <1>2, <2>0, <2>1, ScanKept
    <2>2. CASE pc[r] = "probe" /\ poolLock = r /\ u # r
      <3>1. pc[u] # "probe"
        BY <1>0, <2>2 DEF ScanOf
      <3> QED
        BY <1>0, <1>2, <2>0, <2>2, <3>1, ScanKept
    <2>3. CASE EnterPool(r)
      <3>1. CASE u = r
        BY <1>0, <1>2, <2>3, <3>1, ScanBegins
      <3>2. CASE u # r
        <4>1. poolLock = None /\ pc[u] # "probe"
          BY <1>0, <2>3, Assumptions DEF ScanOf, EnterPool, ServerAssumption
        <4> QED
          BY <1>0, <1>2, <2>0, <3>2, <4>1, ScanKept
      <3> QED
        BY <3>1, <3>2
    <2>4. CASE u = r /\ pc[r] = "probe" /\ pc'[r] # "probe"
      BY <1>0, <1>2, <2>0, <2>4, ScanKept
    <2>5. CASE u = r /\ ProbeMiss(r)
      BY <1>0, <1>2, <2>5, ScanGoesOn
    <2>6. pc[r] = "probe" => poolLock = r
      BY DEF Scanning, ScanOf
    <2>7. ProbeMiss(r) => pc[r] = "probe"
      BY DEF ProbeMiss
    <2> QED
      BY <1>2, <2>1, <2>2, <2>3, <2>4, <2>5, <2>6, <2>7, ScanSteps
  <1>3. CASE HistoryNext /\ MonitorNext
    <2>1. pc'[u] = pc[u] /\ UNCHANGED poolVars
      BY <1>0, <1>3, MonitorMoves, Assumptions DEF ServerAssumption
    <2> QED
      BY <1>0, <1>3, <2>1, ScanKept
  <1>4. CASE HistoryNext /\ PhpNext
    <2>1. pc'[u] = pc[u] /\ UNCHANGED poolVars
      BY <1>4 DEF PhpNext
    <2> QED
      BY <1>0, <1>4, <2>1, ScanKept
  <1> QED
    BY <1>1, <1>2, <1>3, <1>4 DEF HistoryNext, Next, HandlerNext

\* A scan that has tried as many slots as there are has tried them all.
LEMMA ScanIsComplete ==
    ASSUME Control, pool # <<>>, Scanning
    PROVE  ScanCoversPool
  <1> SUFFICES ASSUME NEW r \in Requests, pc[r] = "probe", tries[r] = Len(pool)
               PROVE  SlotsIn(pool) \subseteq probed[r]
    BY DEF Scanning, ScanOf, ScanCoversPool
  <1> SUFFICES ASSUME NEW i \in DOMAIN pool PROVE pool[i] \in probed[r]
    BY DEF SlotsIn
  <1>1. pool \in Seq(Workers) /\ current \in Nat /\ current < Len(pool)
    BY TypeFacts DEF PoolTypeOK
  <1>2. Len(pool) \in Nat /\ i \in 1..Len(pool)
    BY <1>1
  <1> DEFINE j == IF i <= current THEN current + 1 - i ELSE current + Len(pool) + 1 - i
  <1>3. j \in 1..Len(pool) /\ Back(j) = i
    BY <1>1, <1>2 DEF Back
  <1> QED
    BY <1>3 DEF Scanning, ScanOf

\* get_next_worker falls back on a busy slot only when the scan has found every
\* slot of the pool busy, whatever other requests scan meanwhile.
THEOREM ScansCoverThePool == HistorySpec => []ScanCoversPool
  <1>1. HistorySpec => Spec
    <2>1. HistoryInit => Init
      BY DEF HistoryInit
    <2>2. [HistoryNext]_historyVars => [Next]_vars
      BY DEF HistoryNext, historyVars
    <2> QED
      BY <2>1, <2>2, PTL DEF HistorySpec, Spec
  <1>2. Control /\ pool # <<>> /\ Scanning /\ [HistoryNext]_historyVars => Scanning'
    BY ScanningStep
  <1>3. Control /\ pool # <<>> /\ Scanning => ScanCoversPool
    BY ScanIsComplete
  <1> QED
    BY <1>1, <1>2, <1>3, ScanningInit, ControlAndPool, PTL DEF HistorySpec
=============================================================================
