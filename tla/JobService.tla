----------------------------- MODULE JobService -----------------------------
(***************************************************************************)
(* What the job queue promises its clients: a job that becomes known is    *)
(* Pending; once accepted it takes its place in the line; jobs are started *)
(* one at a time in the order of the line, each of them once, and a job    *)
(* that was started ends Completed or Failed and stays so.                 *)
(***************************************************************************)
EXTENDS Sequences

CONSTANTS Jobs

VARIABLES
    status,        \* status[j]: what a client that asks for job j is told
    line           \* the accepted jobs that have not been started

serviceVars == <<status, line>>

Outcomes == {"Completed", "Failed"}
Statuses == {"absent", "Pending", "Processing"} \cup Outcomes

InLine == {line[i] : i \in DOMAIN line}

Init ==
    /\ status = [j \in Jobs |-> "absent"]
    /\ line = <<>>

\* Job j becomes known.
Appear(j) ==
    /\ status[j] = "absent"
    /\ status' = [status EXCEPT ![j] = "Pending"]
    /\ UNCHANGED line

\* Job j is accepted.
Accept(j) ==
    /\ status[j] = "Pending"
    /\ j \notin InLine
    /\ line' = Append(line, j)
    /\ UNCHANGED status

\* The first job of the line is started when no other job runs.
Start ==
    /\ line # <<>>
    /\ \A j \in Jobs : status[j] # "Processing"
    /\ status' = [status EXCEPT ![Head(line)] = "Processing"]
    /\ line' = Tail(line)

\* The job that runs ends.
Finish(j) ==
    /\ status[j] = "Processing"
    /\ \E outcome \in Outcomes : status' = [status EXCEPT ![j] = outcome]
    /\ UNCHANGED line

Next ==
    \/ Start
    \/ \E j \in Jobs : Appear(j) \/ Accept(j) \/ Finish(j)

Spec == Init /\ [][Next]_serviceVars
=============================================================================
