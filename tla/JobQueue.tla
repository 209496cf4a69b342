------------------------------ MODULE JobQueue ------------------------------
(***************************************************************************)
(* The background job queue: JobQueue of queue.rs, the submit and status   *)
(* handlers, the single poll loop that main.rs spawns, and the client of   *)
(* lib/BakpiaQueue.php, which submits a job and polls until it is done.    *)
(*                                                                         *)
(* The map of jobs and the queue of ids have a lock each.  submit takes    *)
(* them one after the other, so it is two steps; the others hold one lock  *)
(* for one step.  A job is named by the uuid that submit gives it.         *)
(*                                                                         *)
(* Abstracted: task names, payloads, results and timestamps; time is the   *)
(* choice of giving up.  Jobs live in memory: the end of the server ends   *)
(* the model.                                                              *)
(***************************************************************************)
EXTENDS Naturals, Sequences

CONSTANTS
    Jobs,          \* the submissions
    None,          \* "no job"
    MaxJobs        \* queue.max_jobs

Outcomes == {"Completed", "Failed"}

ASSUME JobAssumption == None \notin Jobs \cup Outcomes /\ MaxJobs \in Nat

VARIABLES
    jobs,          \* jobs[j]: the status in the map, "absent" when not in it
    queue,         \* the ids that wait
    submit,        \* submit[j]: where the handler of the submission is
    pc,            \* the step the poll loop takes next
    taken,         \* the job the poll loop has dequeued, or None
    outcome,       \* what execute returned for it
    client         \* client[j]: where the PHP client of j is

queueVars == <<jobs, queue>>
workerVars == <<pc, taken, outcome>>
vars == <<queueVars, submit, workerVars, client>>

\* "push failed", "status failed", "job failed" and "timed out" are exceptions of
\* the client.
TypeOK ==
    /\ jobs \in [Jobs -> {"absent", "Pending", "Processing"} \cup Outcomes]
    /\ queue \in Seq(Jobs)
    /\ submit \in [Jobs -> {"none", "insert", "push", "done", "dropped"}]
    /\ pc \in {"sleep", "mark", "execute", "record"}
    /\ taken \in Jobs \cup {None}
    /\ outcome \in Outcomes \cup {None}
    /\ client \in [Jobs -> {"start", "pushing", "waiting", "returned",
                            "push failed", "status failed", "job failed",
                            "timed out"}]

Init ==
    /\ jobs = [j \in Jobs |-> "absent"]
    /\ queue = <<>>
    /\ submit = [j \in Jobs |-> "none"]
    /\ pc = "sleep"
    /\ taken = None
    /\ outcome = None
    /\ client = [j \in Jobs |-> "start"]

-----------------------------------------------------------------------------
\* BakpiaQueue::push sends the submission.
Push(j) ==
    /\ client[j] = "start"
    /\ client' = [client EXCEPT ![j] = "pushing"]
    /\ submit' = [submit EXCEPT ![j] = "insert"]
    /\ UNCHANGED <<queueVars, workerVars>>

\* submit(), first lock: the job enters the map.
Insert(j) ==
    /\ submit[j] = "insert"
    /\ jobs' = [jobs EXCEPT ![j] = "Pending"]
    /\ submit' = [submit EXCEPT ![j] = "push"]
    /\ UNCHANGED <<queue, workerVars, client>>

\* Mutant: the queue's lock is only tried, and the job is answered anyway.
EnqueueMayMiss(j) ==
    /\ submit[j] = "push"
    /\ queue' \in {queue, Append(queue, j)}
    /\ submit' = [submit EXCEPT ![j] = "done"]
    /\ UNCHANGED <<jobs, workerVars, client>>

\* submit(), second lock: its id enters the queue, and the job is answered.
Enqueue(j) ==
    /\ submit[j] = "push"
    /\ queue' = Append(queue, j)
    /\ submit' = [submit EXCEPT ![j] = "done"]
    /\ UNCHANGED <<jobs, workerVars, client>>

\* The client's connection is closed: the handler is dropped where it waits.
Disconnect(j) ==
    /\ client[j] = "push failed"
    /\ submit[j] \in {"insert", "push"}
    /\ submit' = [submit EXCEPT ![j] = "dropped"]
    /\ UNCHANGED <<queueVars, workerVars, client>>

-----------------------------------------------------------------------------
\* Mutant: the id is read with front() and stays in the queue.
DequeuePeeks ==
    /\ pc = "sleep"
    /\ queue # <<>>
    /\ taken' = Head(queue)
    /\ pc' = "mark"
    /\ UNCHANGED <<jobs, queue, submit, outcome, client>>

\* Mutant: the newest id is taken.
DequeueNewest ==
    /\ pc = "sleep"
    /\ queue # <<>>
    /\ taken' = queue[Len(queue)]
    /\ queue' = SubSeq(queue, 1, Len(queue) - 1)
    /\ pc' = "mark"
    /\ UNCHANGED <<jobs, submit, outcome, client>>

\* The poll interval is over and an id waits.
Dequeue ==
    /\ pc = "sleep"
    /\ queue # <<>>
    /\ taken' = Head(queue)
    /\ queue' = Tail(queue)
    /\ pc' = "mark"
    /\ UNCHANGED <<jobs, submit, outcome, client>>

\* The mark_ operations pass over an id that the map does not know.
WithStatus(j, status) ==
    IF jobs[j] = "absent" THEN jobs ELSE [jobs EXCEPT ![j] = status]

\* mark_processing().
MarkProcessing ==
    /\ pc = "mark"
    /\ jobs' = WithStatus(taken, "Processing")
    /\ pc' = "execute"
    /\ UNCHANGED <<queue, submit, taken, outcome, client>>

\* get_status() looks the job up; its task is not registered, or its handler
\* returns a result or an error.  An id without a job is dropped.
Execute ==
    /\ pc = "execute"
    /\ IF jobs[taken] = "absent"
         THEN pc' = "sleep" /\ taken' = None /\ UNCHANGED outcome
         ELSE pc' = "record" /\ outcome' \in Outcomes /\ UNCHANGED taken
    /\ UNCHANGED <<queueVars, submit, client>>

\* Mutant: an error is logged and nothing is recorded.
RecordResultsOnly ==
    /\ pc = "record"
    /\ jobs' = IF outcome = "Failed" THEN jobs ELSE WithStatus(taken, outcome)
    /\ pc' = "sleep"
    /\ taken' = None
    /\ outcome' = None
    /\ UNCHANGED <<queue, submit, client>>

\* mark_completed() or mark_failed().
Record ==
    /\ pc = "record"
    /\ jobs' = WithStatus(taken, outcome)
    /\ pc' = "sleep"
    /\ taken' = None
    /\ outcome' = None
    /\ UNCHANGED <<queue, submit, client>>

-----------------------------------------------------------------------------
\* push() returns the job's id, and the caller waits for the job.
Pushed(j) ==
    /\ client[j] = "pushing"
    /\ submit[j] = "done"
    /\ client' = [client EXCEPT ![j] = "waiting"]
    /\ UNCHANGED <<queueVars, submit, workerVars>>

\* CURLOPT_TIMEOUT is over before the answer has arrived.
PushFails(j) ==
    /\ client[j] = "pushing"
    /\ client' = [client EXCEPT ![j] = "push failed"]
    /\ UNCHANGED <<queueVars, submit, workerVars>>

\* The status in the answer: serde writes Failed(error) as an object and the
\* other variants as strings.
Wire(status) == IF status = "Failed" THEN "object" ELSE status

\* What a round of waitUntilComplete() makes of it; status() throws when the job
\* is not found.
Verdicts(wire) ==
    CASE wire = "absent"    -> {"status failed"}
      [] wire = "Completed" -> {"returned"}
      [] wire = "Failed"    -> {"job failed"}
      [] OTHER              -> {"waiting", "timed out"}

\* One round of waitUntilComplete().
Poll(j) ==
    /\ client[j] = "waiting"
    /\ \E verdict \in Verdicts(Wire(jobs[j])) :
         client' = [client EXCEPT ![j] = verdict]
    /\ UNCHANGED <<queueVars, submit, workerVars>>

\* status() throws: the request fails, or what comes back is no answer to it.
StatusFails(j) ==
    /\ client[j] = "waiting"
    /\ client' = [client EXCEPT ![j] = "status failed"]
    /\ UNCHANGED <<queueVars, submit, workerVars>>

Worker == Dequeue \/ MarkProcessing \/ Execute \/ Record

Submitter(j) == Insert(j) \/ Enqueue(j)

Next ==
    \/ Worker
    \/ \E j \in Jobs :
         \/ Push(j)
         \/ Submitter(j)
         \/ Disconnect(j)
         \/ Pushed(j)
         \/ PushFails(j)
         \/ Poll(j)
         \/ StatusFails(j)

Spec == Init /\ [][Next]_vars

(***************************************************************************)
(* Fairness.  The poll loop is a tokio task: it is run, its timer fires    *)
(* and each lock it takes is held for one step by others.  Nothing is      *)
(* assumed of the clients.                                                 *)
(***************************************************************************)
FairSpec == Spec /\ WF_vars(Worker)

-----------------------------------------------------------------------------
Waiting == {queue[i] : i \in DOMAIN queue}

\* Every id that waits has its job in the map, still Pending, and waits once:
\* the poll loop finds what it dequeues and runs no job twice.
QueueHoldsPending ==
    /\ \A j \in Waiting : jobs[j] = "Pending" /\ j # taken
    /\ \A i, k \in DOMAIN queue : queue[i] = queue[k] => i = k

\* A job whose submission was answered is never forgotten: until it is done
\* it waits in the queue or is in the hands of the poll loop.
AcceptedIsTracked ==
    \A j \in Jobs :
        submit[j] = "done" => j \in Waiting \/ j = taken \/ jobs[j] \in Outcomes

\* The line of JobService: an id leaves it when its job is marked.
line == IF pc = "mark" THEN <<taken>> \o queue ELSE queue

Service == INSTANCE JobService WITH status <- jobs, line <- line

\* The queue keeps the promise of JobService: jobs start one at a time, in
\* the order they were accepted, once each, and a result is final.
ImplementsService == Service!Spec

\* Every job whose submission was answered is eventually done.
JobsFinish ==
    \A j \in Jobs : submit[j] = "done" ~> jobs[j] \in Outcomes

-----------------------------------------------------------------------------
(***************************************************************************)
(* What the documentation promises and the code does not do: TLC refutes   *)
(* each (README, Known divergences).                                       *)
(***************************************************************************)

\* bakpiarun.yaml on queue.max_jobs: "Maximum jobs in queue (prevent memory
\* overflow)".
QueueIsBounded == Len(queue) <= MaxJobs

\* BakpiaQueue.php: waitUntilComplete throws "jika timeout atau job gagal";
\* a client that is told of a failed job and ends its wait reports the failure.
FailureIsReported ==
    [][\A j \in Jobs :
         client[j] = "waiting" /\ jobs[j] = "Failed" /\
         client'[j] \notin {"waiting", "status failed"} => client'[j] = "job failed"]_vars

-----------------------------------------------------------------------------
\* Where the poll loop and the submissions are, and what they have done: the
\* inductive invariant behind the properties above.
Progress ==
    /\ pc = "sleep" <=> taken = None
    /\ pc = "mark" => jobs[taken] = "Pending"
    /\ pc \in {"execute", "record"} => jobs[taken] = "Processing"
    /\ pc = "record" <=> outcome # None
    /\ \A j \in Jobs :
         /\ client[j] = "start" => submit[j] = "none"
         /\ jobs[j] = "Processing" => j = taken
         /\ submit[j] \in {"none", "insert"} => jobs[j] = "absent"
         /\ submit[j] = "push" => jobs[j] = "Pending"
         /\ j \in Waiting \/ j = taken => submit[j] = "done"

\* The map, the queue, the poll loop and the clients fit together at all times:
\* what waits is known, Pending and waits once, and each part is where the
\* others take it to be.
QueueIsConsistent == TypeOK /\ QueueHoldsPending /\ Progress
=============================================================================
