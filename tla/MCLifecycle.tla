----------------------------- MODULE MCLifecycle -----------------------------
(* Instances of ServerLifecycle for TLC. *)
EXTENDS ServerLifecycle, TLC

CONSTANTS monitor, hup, http, ctrlc, scrape, r1, r2, w1, w2, w3, s1, s2, c1, c2, c3

MCTasks == {monitor} \cup Requests \cup Admins
MCSlots1 == <<w1>>

\* w1 is the first slot of the first pool; w2, w3 are made for two workers.
MCSocketOf == [w \in Workers |-> IF w = w3 THEN s2 ELSE s1]
MCPathOf == <<s1, s2>>

\* The other configurations double and abolish the workers.
MCWorkerCount == [c \in Configs |-> CASE c = c1 -> 1 [] c = c2 -> 2 [] c = c3 -> 0]

\* Bound: how far abandoned requests push active_requests up, and what heaps up
\* in a slot that is never recycled again.
DisconnectBound ==
    /\ \A w \in Workers : active[w] <= 2 /\ handled[w] <= MaxRequests
    /\ \A p \in Pids : Len(backlog[p]) <= 2

PidSymmetry == Permutations(Pids)
=============================================================================
