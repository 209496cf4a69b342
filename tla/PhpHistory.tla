------------------------------ MODULE PhpHistory ------------------------------
(***************************************************************************)
(* PhpServer with two history variables: the slots that a scan of          *)
(* get_next_worker has tried, and whether the monitor has recycled a slot  *)
(* for its own sake since it woke up.                                      *)
(***************************************************************************)
EXTENDS PhpServer

VARIABLES probed, recycled

historyVars == <<vars, probed, recycled>>

HistoryInit ==
    /\ Init
    /\ probed = [r \in Requests |-> {}]
    /\ recycled = FALSE

HistoryNext ==
    /\ Next
    /\ probed' = [r \in Requests |->
                    IF pc'[r] # "probe" THEN {}
                    ELSE IF tries'[r] > tries[r] THEN probed[r] \cup {Candidate}
                    ELSE probed[r]]
    /\ recycled' = /\ pc[Monitor] # "sleep"
                   /\ \/ recycled
                      \/ pc[Monitor] = "sweep" /\ todo # <<>> /\ pc'[Monitor] = "drain"

HistorySpec == HistoryInit /\ [][HistoryNext]_historyVars

\* get_next_worker falls back on a busy slot only after it has tried every
\* slot of the pool, however many requests scan at the same time.
ScanCoversPool ==
    \A r \in Requests :
        pc[r] = "probe" /\ tries[r] = Len(pool) => probed[r] = SlotsIn(pool)

\* anti_oom.rs says that the heaviest worker is recycled when "no individual
\* worker was recycled yet": TLC refutes it.
EvictionIsLastResort ==
    [][pc[Monitor] = "sweep" /\ todo = <<>> /\ pc'[Monitor] = "drain"
       => ~recycled]_historyVars

-----------------------------------------------------------------------------
(* The inductive invariant behind ScanCoversPool: ConnectionProofs. *)

\* The place in the pool, from 1, that was the candidate of the round robin j
\* steps before.
Back(j) == (IF current >= j THEN current - j ELSE current + Len(pool) - j) + 1

\* Who scans holds the pool's mutex, so that the slots the scan has tried are
\* those the round robin has just gone through.
ScanOf(r) ==
    /\ probed[r] \subseteq SlotsIn(pool)
    /\ pc[r] = "probe" =>
         /\ poolLock = r
         /\ tries[r] <= Len(pool)
         /\ \A j \in 1..tries[r] : pool[Back(j)] \in probed[r]

Scanning == \A r \in Requests : ScanOf(r)
=============================================================================
