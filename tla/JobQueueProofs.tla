--------------------------- MODULE JobQueueProofs ---------------------------
(***************************************************************************)
(* The job queue implements JobService, for any number of submissions.     *)
(***************************************************************************)
EXTENDS JobQueue, TLAPS

Inv == TypeOK /\ Progress /\ QueueHoldsPending /\ AcceptedIsTracked

\* The elements of a sequence of jobs once another is appended.
LEMMA AppendedElements ==
    ASSUME NEW s \in Seq(Jobs), NEW j \in Jobs
    PROVE  /\ Append(s, j) \in Seq(Jobs)
           /\ Len(Append(s, j)) = Len(s) + 1
           /\ Append(s, j)[Len(s) + 1] = j
           /\ \A i \in DOMAIN s : Append(s, j)[i] = s[i]
OBVIOUS

\* The elements of a sequence of jobs without the first.
LEMMA TailElements ==
    ASSUME NEW s \in Seq(Jobs), s # <<>>
    PROVE  /\ Head(s) = s[1]
           /\ Head(s) \in Jobs
           /\ 1 \in DOMAIN s
           /\ Tail(s) \in Seq(Jobs)
           /\ Len(Tail(s)) = Len(s) - 1
           /\ \A i \in DOMAIN Tail(s) : Tail(s)[i] = s[i + 1] /\ i + 1 \in DOMAIN s
OBVIOUS

\* Only jobs wait.
LEMMA WaitingAreJobs ==
    ASSUME queue \in Seq(Jobs)
    PROVE  Waiting \subseteq Jobs
<1>1. \A i \in DOMAIN queue : queue[i] \in Jobs
  OBVIOUS
<1> QED
  BY <1>1 DEF Waiting

\* Nothing has been submitted at first.
LEMMA InitInv == Init => Inv
<1> SUFFICES ASSUME Init PROVE Inv
  OBVIOUS
<1>1. TypeOK
  BY DEF Init, TypeOK
<1>2. Waiting = {}
  BY DEF Init, Waiting
<1>3. Progress
  BY <1>2, JobAssumption DEF Init, Progress
<1>4. QueueHoldsPending
  BY <1>2 DEF Init, QueueHoldsPending
<1>5. AcceptedIsTracked
  BY DEF Init, AcceptedIsTracked
<1> QED
  BY <1>1, <1>3, <1>4, <1>5 DEF Inv

\* A step that leaves the queue alone, and the statuses of what waits in it.
LEMMA QueueUntouched ==
    ASSUME Inv, UNCHANGED queue, \A j \in Waiting : jobs'[j] = jobs[j] /\ j # taken'
    PROVE  Waiting' = Waiting /\ QueueHoldsPending'
BY DEF Inv, QueueHoldsPending, Waiting

-----------------------------------------------------------------------------
\* The first half of a submission makes its job known.
LEMMA InsertKeeps ==
    ASSUME Inv, NEW j \in Jobs, Insert(j)
    PROVE  Inv'
<1>1. /\ submit[j] = "insert"
      /\ jobs' = [jobs EXCEPT ![j] = "Pending"]
      /\ submit' = [submit EXCEPT ![j] = "push"]
      /\ UNCHANGED <<queue, pc, taken, outcome, client>>
  BY DEF Insert, workerVars
<1>2. j \notin Waiting /\ j # taken
  BY <1>1 DEF Inv, Progress
<1>3. TypeOK'
  BY <1>1 DEF Inv, TypeOK
<1>4. Waiting' = Waiting /\ QueueHoldsPending'
  <2>1. \A k \in Waiting : k \in Jobs
    BY WaitingAreJobs DEF Inv, TypeOK
  <2> QED
    BY <1>1, <1>2, <2>1, QueueUntouched DEF Inv, TypeOK, QueueHoldsPending
<1>5. Progress'
  BY <1>1, <1>2, <1>4 DEF Inv, TypeOK, Progress
<1>6. AcceptedIsTracked'
  BY <1>1, <1>4 DEF Inv, TypeOK, AcceptedIsTracked, Outcomes
<1> QED
  BY <1>3, <1>4, <1>5, <1>6 DEF Inv

\* The second half puts it into the queue, once.
LEMMA EnqueueKeeps ==
    ASSUME Inv, NEW j \in Jobs, Enqueue(j)
    PROVE  Inv'
<1>1. /\ queue \in Seq(Jobs)
      /\ queue' = Append(queue, j)
      /\ submit' = [submit EXCEPT ![j] = "done"]
      /\ submit[j] = "push"
      /\ UNCHANGED <<jobs, pc, taken, outcome, client>>
  BY DEF Inv, TypeOK, Enqueue, workerVars
<1>2. Waiting' = Waiting \cup {j}
  BY <1>1, AppendedElements DEF Waiting
<1>3. jobs[j] = "Pending" /\ j \notin Waiting /\ j # taken
  BY <1>1 DEF Inv, Progress, TypeOK
<1>4. TypeOK'
  BY <1>1, AppendedElements DEF Inv, TypeOK
<1>5. Progress'
  BY <1>1, <1>2, <1>3 DEF Inv, TypeOK, Progress
<1>6. QueueHoldsPending'
  <2>1. \A k \in Waiting' : jobs'[k] = "Pending" /\ k # taken'
    BY <1>1, <1>2, <1>3 DEF Inv, QueueHoldsPending
  <2>2. ASSUME NEW i \in DOMAIN queue', NEW k \in DOMAIN queue', queue'[i] = queue'[k]
        PROVE  i = k
    <3>1. DOMAIN queue = 1..Len(queue) /\ DOMAIN queue' = 1..(Len(queue) + 1)
      BY <1>1, AppendedElements
    <3>2. \A m \in DOMAIN queue : queue'[m] = queue[m] /\ queue[m] \in Waiting
      BY <1>1, AppendedElements DEF Waiting
    <3>3. queue'[Len(queue) + 1] = j
      BY <1>1, AppendedElements
    <3> QED
      BY <1>1, <1>3, <2>2, <3>1, <3>2, <3>3 DEF Inv, QueueHoldsPending
  <2> QED
    BY <2>1, <2>2 DEF QueueHoldsPending
<1>7. AcceptedIsTracked'
  BY <1>1, <1>2 DEF Inv, AcceptedIsTracked, TypeOK
<1> QED
  BY <1>4, <1>5, <1>6, <1>7 DEF Inv

\* The poll loop takes the oldest id into its hands.
LEMMA DequeueKeeps ==
    ASSUME Inv, Dequeue
    PROVE  Inv'
<1>1. /\ queue \in Seq(Jobs) /\ queue # <<>>
      /\ queue' = Tail(queue)
      /\ taken = None
      /\ taken' = Head(queue)
      /\ pc = "sleep" /\ pc' = "mark"
      /\ UNCHANGED <<jobs, submit, outcome, client>>
  BY DEF Inv, TypeOK, Progress, Dequeue
<1>2. DOMAIN queue = 1..Len(queue) /\ DOMAIN queue' = 1..(Len(queue) - 1)
  BY <1>1, TailElements
<1>3. /\ Head(queue) = queue[1] /\ Head(queue) \in Jobs /\ 1 \in DOMAIN queue
      /\ \A i \in DOMAIN queue' : queue'[i] = queue[i + 1] /\ i + 1 \in DOMAIN queue
  BY <1>1, TailElements
<1>4. Waiting = {Head(queue)} \cup Waiting'
  <2>1. ASSUME NEW i \in DOMAIN queue, i # 1
        PROVE  i - 1 \in DOMAIN queue' /\ queue[i] = queue'[i - 1]
    BY <1>1, <1>2, <1>3, <2>1
  <2> QED
    BY <1>3, <2>1 DEF Waiting
<1>5. Head(queue) \notin Waiting'
  <2>1. \A i \in DOMAIN queue' : i + 1 # 1
    BY <1>1, <1>2
  <2> QED
    BY <1>3, <2>1 DEF Inv, QueueHoldsPending, Waiting
<1>6. TypeOK'
  BY <1>1, <1>3, TailElements DEF Inv, TypeOK
<1>7. Progress'
  BY <1>1, <1>3, <1>4, JobAssumption DEF Inv, TypeOK, Progress, QueueHoldsPending
<1>8. QueueHoldsPending'
  <2>1. \A k \in Waiting' : jobs'[k] = "Pending" /\ k # taken'
    BY <1>1, <1>4, <1>5 DEF Inv, QueueHoldsPending
  <2>2. ASSUME NEW i \in DOMAIN queue', NEW k \in DOMAIN queue', queue'[i] = queue'[k]
        PROVE  i = k
    <3>1. i + 1 = k + 1
      BY <1>3, <2>2 DEF Inv, QueueHoldsPending
    <3> QED
      BY <1>1, <1>2, <3>1
  <2> QED
    BY <2>1, <2>2 DEF QueueHoldsPending
<1>9. AcceptedIsTracked'
  BY <1>1, <1>4, JobAssumption DEF Inv, AcceptedIsTracked
<1> QED
  BY <1>6, <1>7, <1>8, <1>9 DEF Inv

\* The poll loop tells the clients that its job runs.
LEMMA MarkKeeps ==
    ASSUME Inv, MarkProcessing
    PROVE  Inv'
<1>1. /\ pc = "mark" /\ pc' = "execute"
      /\ taken \in Jobs
      /\ jobs[taken] = "Pending"
      /\ jobs' = [jobs EXCEPT ![taken] = "Processing"]
      /\ UNCHANGED <<queue, submit, taken, outcome, client>>
  BY DEF Inv, TypeOK, Progress, MarkProcessing, WithStatus
<1>2. \A k \in Waiting : k \in Jobs /\ k # taken
  BY WaitingAreJobs DEF Inv, TypeOK, QueueHoldsPending
<1>3. Waiting' = Waiting /\ QueueHoldsPending'
  BY <1>1, <1>2, QueueUntouched DEF Inv, TypeOK
<1>4. TypeOK'
  BY <1>1 DEF Inv, TypeOK
<1>5. Progress'
  BY <1>1, <1>3 DEF Inv, TypeOK, Progress
<1>6. AcceptedIsTracked'
  BY <1>1, <1>3 DEF Inv, TypeOK, AcceptedIsTracked, Outcomes
<1> QED
  BY <1>3, <1>4, <1>5, <1>6 DEF Inv

\* The poll loop finds the job in the map and learns its outcome.
LEMMA ExecuteKeeps ==
    ASSUME Inv, Execute
    PROVE  Inv'
<1>1. /\ pc = "execute" /\ pc' = "record"
      /\ taken \in Jobs
      /\ outcome' \in Outcomes
      /\ UNCHANGED <<jobs, queue, submit, taken, client>>
  BY DEF Inv, TypeOK, Progress, Execute, queueVars
<1>2. Waiting' = Waiting /\ QueueHoldsPending'
  BY <1>1, QueueUntouched DEF Inv, QueueHoldsPending
<1>3. TypeOK'
  BY <1>1 DEF Inv, TypeOK
<1>4. outcome' # None
  BY <1>1, JobAssumption
<1>5. Progress'
  BY <1>1, <1>2, <1>4 DEF Inv, Progress
<1>6. AcceptedIsTracked'
  BY <1>1, <1>2 DEF Inv, AcceptedIsTracked
<1> QED
  BY <1>2, <1>3, <1>5, <1>6 DEF Inv

\* The outcome is recorded and the poll loop has empty hands.
LEMMA RecordKeeps ==
    ASSUME Inv, Record
    PROVE  Inv'
<1>1. /\ pc = "record" /\ pc' = "sleep"
      /\ taken \in Jobs
      /\ taken' = None
      /\ outcome \in Outcomes
      /\ outcome' = None
      /\ jobs' = [jobs EXCEPT ![taken] = outcome]
      /\ UNCHANGED <<queue, submit, client>>
  BY DEF Inv, TypeOK, Progress, Record, WithStatus
<1>2. \A k \in Waiting : k \in Jobs /\ k # taken
  BY WaitingAreJobs DEF Inv, TypeOK, QueueHoldsPending
<1>3. Waiting' = Waiting /\ QueueHoldsPending'
  BY <1>1, <1>2, QueueUntouched, JobAssumption DEF Inv, TypeOK
<1>4. TypeOK'
  BY <1>1 DEF Inv, TypeOK
<1>5. Progress'
  BY <1>1, <1>3, JobAssumption DEF Inv, TypeOK, Progress, Outcomes
<1>6. AcceptedIsTracked'
  BY <1>1, <1>3 DEF Inv, TypeOK, AcceptedIsTracked
<1> QED
  BY <1>3, <1>4, <1>5, <1>6 DEF Inv

\* The client's own steps do not touch the queue, nor what was accepted.
LEMMA ClientKeeps ==
    ASSUME Inv, NEW j \in Jobs,
           \/ Push(j) \/ Disconnect(j) \/ Pushed(j) \/ PushFails(j) \/ Poll(j)
           \/ StatusFails(j)
    PROVE  Inv'
<1>1. UNCHANGED <<jobs, queue, pc, taken, outcome>>
  BY DEF Push, Disconnect, Pushed, PushFails, Poll, StatusFails, queueVars, workerVars
<1>2. Waiting' = Waiting /\ QueueHoldsPending'
  BY <1>1, QueueUntouched DEF Inv, QueueHoldsPending
<1>3. \A k \in Jobs :
        /\ submit'[k] = "none" => submit[k] = "none"
        /\ submit'[k] = "insert" => submit[k] \in {"none", "insert"}
        /\ submit'[k] = "push" => submit[k] = "push"
        /\ submit[k] = "done" <=> submit'[k] = "done"
        /\ client'[k] = "start" => submit'[k] = "none"
  <2> USE DEF Inv, TypeOK, Progress
  <2>1. CASE Push(j)
    BY <2>1 DEF Push
  <2>2. CASE Disconnect(j)
    BY <2>2 DEF Disconnect
  <2>3. CASE Pushed(j)
    BY <2>3 DEF Pushed
  <2>4. CASE PushFails(j)
    BY <2>4 DEF PushFails
  <2>5. CASE Poll(j)
    BY <2>5 DEF Poll, Verdicts, Wire
  <2>6. CASE StatusFails(j)
    BY <2>6 DEF StatusFails
  <2> QED
    BY <2>1, <2>2, <2>3, <2>4, <2>5, <2>6
<1>4. TypeOK'
  <2> USE DEF Inv, TypeOK
  <2>1. CASE Push(j)
    BY <1>1, <2>1 DEF Push
  <2>2. CASE Disconnect(j)
    BY <1>1, <2>2 DEF Disconnect
  <2>3. CASE Pushed(j)
    BY <1>1, <2>3 DEF Pushed
  <2>4. CASE PushFails(j)
    BY <1>1, <2>4 DEF PushFails
  <2>5. CASE Poll(j)
    BY <1>1, <2>5 DEF Poll, Verdicts, Wire
  <2>6. CASE StatusFails(j)
    BY <1>1, <2>6 DEF StatusFails
  <2> QED
    BY <2>1, <2>2, <2>3, <2>4, <2>5, <2>6
<1>5. Progress'
  BY <1>1, <1>2, <1>3 DEF Inv, Progress
<1>6. AcceptedIsTracked'
  BY <1>1, <1>2, <1>3 DEF Inv, AcceptedIsTracked
<1> QED
  BY <1>2, <1>4, <1>5, <1>6 DEF Inv

\* Every step keeps the invariant.
LEMMA StepInv == Inv /\ [Next]_vars => Inv'
<1> SUFFICES ASSUME Inv, [Next]_vars PROVE Inv'
  OBVIOUS
<1>1. CASE Worker
  BY <1>1, DequeueKeeps, MarkKeeps, ExecuteKeeps, RecordKeeps DEF Worker
<1>2. ASSUME NEW j \in Jobs, Submitter(j)
      PROVE  Inv'
  BY <1>2, InsertKeeps, EnqueueKeeps DEF Submitter
<1>3. ASSUME NEW j \in Jobs,
             \/ Push(j) \/ Disconnect(j) \/ Pushed(j) \/ PushFails(j) \/ Poll(j)
             \/ StatusFails(j)
      PROVE  Inv'
  BY <1>3, ClientKeeps
<1>4. CASE UNCHANGED vars
  <2>1. UNCHANGED <<jobs, queue, submit, pc, taken, outcome, client>>
    BY <1>4 DEF vars, queueVars, workerVars
  <2>2. Waiting' = Waiting /\ QueueHoldsPending'
    BY <2>1, QueueUntouched DEF Inv, QueueHoldsPending
  <2>3. TypeOK' /\ Progress' /\ AcceptedIsTracked'
    BY <2>1, <2>2 DEF Inv, TypeOK, Progress, AcceptedIsTracked
  <2> QED
    BY <2>2, <2>3 DEF Inv
<1> QED
  BY <1>1, <1>2, <1>3, <1>4 DEF Next

\* The inductive invariant holds in every behaviour.
THEOREM QueueInvariant == Spec => []Inv
BY InitInv, StepInv, PTL DEF Spec

\* What the poll loop dequeues is always a Pending job of the map, and no job
\* waits twice.
THEOREM QueueIsSound == Spec => []QueueHoldsPending
<1>1. Inv => QueueHoldsPending
  BY DEF Inv
<1> QED
  BY <1>1, QueueInvariant, PTL

\* The map, the queue and the poll loop fit together in every state.
THEOREM QueueStaysConsistent == Spec => []QueueIsConsistent
<1>1. Inv => QueueIsConsistent
  BY DEF Inv, QueueIsConsistent
<1> QED
  BY <1>1, QueueInvariant, PTL

\* No job whose submission was answered is ever lost.
THEOREM AcceptedIsNeverLost == Spec => []AcceptedIsTracked
<1>1. Inv => AcceptedIsTracked
  BY DEF Inv
<1> QED
  BY <1>1, QueueInvariant, PTL

-----------------------------------------------------------------------------
\* What the line of JobService is when the loop holds an id it has not marked.
LEMMA LineElements ==
    ASSUME NEW s \in Seq(Jobs), NEW j \in Jobs
    PROVE  /\ <<j>> \o s # <<>>
           /\ Head(<<j>> \o s) = j
           /\ Tail(<<j>> \o s) = s
           /\ \A k \in Jobs : Append(<<j>> \o s, k) = <<j>> \o Append(s, k)
OBVIOUS

\* A dequeued id, put before the rest of the queue, is the queue again.
LEMMA DequeuedLine ==
    ASSUME NEW s \in Seq(Jobs), s # <<>>
    PROVE  <<Head(s)>> \o Tail(s) = s
OBVIOUS

\* Every step of the queue is a step of JobService or changes nothing there.
LEMMA StepImplements ==
    ASSUME Inv, [Next]_vars
    PROVE  [Service!Next]_(Service!serviceVars)
<1> USE DEF Service!serviceVars
<1>1. ASSUME NEW j \in Jobs, Insert(j)
      PROVE  Service!Appear(j)
  BY <1>1 DEF Insert, Service!Appear, Inv, Progress, line, workerVars
<1>2. ASSUME NEW j \in Jobs, Enqueue(j)
      PROVE  Service!Accept(j)
  <2>1. /\ queue \in Seq(Jobs) /\ queue' = Append(queue, j)
        /\ submit[j] = "push"
        /\ UNCHANGED <<jobs, pc, taken>>
    BY <1>2 DEF Enqueue, Inv, TypeOK, workerVars
  <2>2. pc = "mark" => taken \in Jobs
    BY DEF Inv, TypeOK, Progress
  <2>3. line' = Append(line, j)
    BY <2>1, <2>2, LineElements DEF line
  <2>4. jobs[j] = "Pending" /\ j \notin Waiting /\ j # taken
    BY <2>1 DEF Inv, Progress, TypeOK
  <2>5. j \notin Service!InLine
    <3>1. CASE pc = "mark"
      <4>1. \A i \in DOMAIN line : line[i] = taken \/ line[i] \in Waiting
        BY <2>1, <2>2, <3>1 DEF line, Waiting
      <4> QED
        BY <2>4, <4>1 DEF Service!InLine
    <3>2. CASE pc # "mark"
      BY <2>4, <3>2 DEF Service!InLine, line, Waiting
    <3> QED
      BY <3>1, <3>2
  <2> QED
    BY <2>1, <2>3, <2>4, <2>5 DEF Service!Accept
<1>3. CASE Dequeue
  <2>1. line' = line
    BY <1>3, DequeuedLine DEF Dequeue, line, Inv, TypeOK
  <2> QED
    BY <1>3, <2>1 DEF Dequeue
<1>4. CASE MarkProcessing
  <2>1. /\ pc = "mark" /\ pc' = "execute" /\ taken \in Jobs /\ queue \in Seq(Jobs)
        /\ jobs[taken] = "Pending"
        /\ jobs' = [jobs EXCEPT ![taken] = "Processing"]
        /\ UNCHANGED <<queue, taken>>
    BY <1>4 DEF MarkProcessing, WithStatus, Inv, TypeOK, Progress
  <2>2. line # <<>> /\ Head(line) = taken /\ Tail(line) = queue
    BY <2>1, LineElements DEF line
  <2>3. line' = queue
    BY <2>1 DEF line
  <2>4. \A j \in Jobs : jobs[j] # "Processing"
    BY <2>1 DEF Inv, Progress
  <2> QED
    BY <2>1, <2>2, <2>3, <2>4 DEF Service!Start, Service!Next
<1>5. CASE Execute
  BY <1>5 DEF Execute, line, Inv, Progress, queueVars
<1>6. CASE Record
  <2>1. /\ pc = "record" /\ pc' = "sleep" /\ taken \in Jobs
        /\ jobs[taken] = "Processing"
        /\ outcome \in Service!Outcomes
        /\ jobs' = [jobs EXCEPT ![taken] = outcome]
        /\ UNCHANGED queue
    BY <1>6 DEF Record, WithStatus, Inv, TypeOK, Progress, Outcomes, Service!Outcomes
  <2>2. line' = line
    BY <2>1 DEF line
  <2> QED
    BY <2>1, <2>2 DEF Service!Finish, Service!Next
<1>7. ASSUME NEW j \in Jobs,
             \/ Push(j) \/ Disconnect(j) \/ Pushed(j) \/ PushFails(j) \/ Poll(j)
             \/ StatusFails(j)
      PROVE  UNCHANGED <<jobs, line>>
  BY <1>7 DEF Push, Disconnect, Pushed, PushFails, Poll, StatusFails, line,
             queueVars, workerVars
<1>8. CASE UNCHANGED vars
  BY <1>8 DEF vars, queueVars, workerVars, line
<1> QED
  BY <1>1, <1>2, <1>3, <1>4, <1>5, <1>6, <1>7, <1>8
     DEF Next, Worker, Submitter, Service!Next

\* The queue implements JobService: jobs start one at a time, in the order in
\* which they were accepted, each once, and end once.
THEOREM QueueImplementsService == Spec => ImplementsService
<1>1. Init => Service!Init
  BY DEF Init, Service!Init, line
<1> QED
  BY <1>1, QueueInvariant, StepImplements, PTL DEF Spec, ImplementsService, Service!Spec
=============================================================================
