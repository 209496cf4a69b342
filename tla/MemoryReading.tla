---------------------------- MODULE MemoryReading ----------------------------
(***************************************************************************)
(* read_cgroup_v2_memory: how the monitor learns how much memory is used   *)
(* and how much there is, from files that the kernel changes while it      *)
(* reads them one after the other.                                         *)
(*                                                                         *)
(* A file is a number, or None where there is no file to read, Garbled if  *)
(* it is no number, or Max, the word that stands for no limit.  The kernel *)
(* writes an absent limit of cgroup v1 as a number beyond 2^60: NoLimit.   *)
(* The lines of /proc/meminfo are one file; a line that is missing is None.*)
(***************************************************************************)
EXTENDS Integers, FiniteSets

CONSTANTS
    Machines,                    \* what the files may say when a reading begins
    Levels,                      \* the numbers that files have
    Threshold,                   \* cgroup_threshold_percent
    NoLimit,
    None, Garbled, Max,
    MaxInstants                  \* how many different contents there are

VARIABLES
    files,           \* what the files say now
    seen,            \* all that they have said since the reading began
    step,            \* what is read next
    usage, limit,    \* current_bytes and max_bytes
    source,
    pressure         \* cgroup_pressure of start_monitor

vars == <<files, seen, step, usage, limit, source, pressure>>

IsNumber(x) == x \in Levels \cup {NoLimit}

Init ==
    /\ files \in Machines
    /\ seen = {files}
    /\ step = "v2Usage"
    /\ usage = 0 /\ limit = 0
    /\ source = "unavailable"
    /\ pressure = FALSE

\* What changes on a running machine: memory is used and released, limits are
\* set, lifted and set again.  No file comes or goes, and the machine keeps its
\* size.
Changing ==
    [v2Usage   |-> Levels,
     v2Limit   |-> Levels \cup {Max},
     v1Usage   |-> Levels,
     v1Limit   |-> Levels \cup {NoLimit},
     available |-> Levels]

Change ==
    /\ step \notin {"judge", "done"}
    /\ \E name \in DOMAIN Changing :
         /\ files[name] \in Changing[name]
         /\ \E x \in Changing[name] : files' = [files EXCEPT ![name] = x]
    /\ seen' = seen \cup {files'}
    /\ Cardinality(seen') <= MaxInstants
    /\ UNCHANGED <<step, usage, limit, source, pressure>>

-----------------------------------------------------------------------------
\* parse_kb_line: a line that is no number counts as 0, as does a missing one.
Line(x) == IF IsNumber(x) THEN x ELSE 0

Goto(next) ==
    /\ step' = next
    /\ UNCHANGED <<files, seen, pressure>>

\* cgroup v2, if its usage is a number.
ReadUsage ==
    /\ step = "v2Usage"
    /\ IF IsNumber(files.v2Usage)
         THEN usage' = files.v2Usage /\ source' = "cgroup_v2" /\ Goto("v2Limit")
         ELSE UNCHANGED <<usage, source>> /\ Goto("v1Usage")
    /\ UNCHANGED limit

\* Its limit; without one, the size of the machine.
ReadLimit ==
    /\ step = "v2Limit"
    /\ IF files.v2Limit \in {None, Max}
         THEN UNCHANGED limit /\ Goto("total")
         ELSE limit' = Line(files.v2Limit) /\ Goto("judge")
    /\ UNCHANGED <<usage, source>>

\* cgroup v1, if its usage is a number.
ReadOldUsage ==
    /\ step = "v1Usage"
    /\ IF IsNumber(files.v1Usage)
         THEN usage' = files.v1Usage /\ source' = "cgroup_v1" /\ Goto("v1Limit")
         ELSE UNCHANGED <<usage, source>> /\ Goto("meminfo")
    /\ UNCHANGED limit

\* Mutant: the number that stands for no limit is taken for one.
ReadOldLimitAny ==
    /\ step = "v1Limit"
    /\ IF IsNumber(files.v1Limit)
         THEN limit' = files.v1Limit /\ Goto("judge")
         ELSE UNCHANGED limit /\ Goto("total")
    /\ UNCHANGED <<usage, source>>

\* Its limit, if it is one.
ReadOldLimit ==
    /\ step = "v1Limit"
    /\ IF IsNumber(files.v1Limit) /\ files.v1Limit # NoLimit
         THEN limit' = files.v1Limit /\ Goto("judge")
         ELSE UNCHANGED limit /\ Goto("total")
    /\ UNCHANGED <<usage, source>>

\* read_host_memtotal_bytes
ReadTotal ==
    /\ step = "total"
    /\ limit' = Line(files.total)
    /\ Goto("judge")
    /\ UNCHANGED <<usage, source>>

\* read_host_meminfo_used_and_total, with a subtraction that stops at 0.
ReadMeminfo ==
    /\ step = "meminfo"
    /\ IF Line(files.total) > 0
         THEN /\ usage' = IF files.total >= Line(files.available)
                            THEN files.total - Line(files.available) ELSE 0
              /\ limit' = files.total
              /\ source' = "proc_meminfo"
         ELSE UNCHANGED <<usage, limit, source>>
    /\ Goto("judge")

\* What a usage is judged to be under a limit, 0 for none.  The percentage is a
\* rounded one: where it is the threshold exactly it may be found below it.
Judged(u, l) ==
    IF l = 0 THEN {FALSE}
    ELSE IF 100 * u = Threshold * l THEN BOOLEAN
    ELSE {100 * u > Threshold * l}

\* usage_percent, and its comparison with the threshold in start_monitor.
Judge ==
    /\ step = "judge"
    /\ pressure' \in Judged(usage, limit)
    /\ step' = "done"
    /\ UNCHANGED <<files, seen, usage, limit, source>>

Next ==
    \/ Change
    \/ ReadUsage \/ ReadLimit
    \/ ReadOldUsage \/ ReadOldLimit
    \/ ReadTotal \/ ReadMeminfo
    \/ Judge

Spec == Init /\ [][Next]_vars

-----------------------------------------------------------------------------
(* The memory at one instant, by the meaning of the files.                 *)

\* The limit of the innermost group that counts its usage.
GroupLimit(w) ==
    IF IsNumber(w.v2Usage) THEN w.v2Limit
    ELSE IF IsNumber(w.v1Usage) THEN w.v1Limit
    ELSE None

\* The files tell what is used and how much there is: no limit is garbled, a
\* group has no more than its machine, and a machine without groups says what
\* is available of what it has.
Told(w) ==
    /\ GroupLimit(w) # Garbled
    /\ GroupLimit(w) \in Levels /\ w.total \in Levels => GroupLimit(w) <= w.total
    /\ \/ IsNumber(w.v2Usage) \/ IsNumber(w.v1Usage)
       \/ w.total \in Levels /\ w.available \in Levels /\ w.available <= w.total

UsageIn(w) ==
    IF IsNumber(w.v2Usage) THEN w.v2Usage
    ELSE IF IsNumber(w.v1Usage) THEN w.v1Usage
    ELSE w.total - w.available

\* The limit of the group, or the size of the machine; 0 if neither is known.
LimitIn(w) ==
    IF GroupLimit(w) \in Levels THEN GroupLimit(w)
    ELSE IF w.total \in Levels THEN w.total
    ELSE 0

\* The pressure under which the monitor evicts a worker is that of a usage and
\* a limit that there were while it read, whatever changed meanwhile; and if
\* only one of the two changed, they were there together.
PressureIsReal ==
    step = "done" /\ (\A w \in seen : Told(w)) =>
      \E w, v \in seen :
        /\ pressure \in Judged(UsageIn(w), LimitIn(v))
        /\ \/ w = v
           \/ /\ \E x \in seen : UsageIn(x) # UsageIn(w)
              /\ \E x \in seen : LimitIn(x) # LimitIn(v)

\* The usage and the limit of cgroup_mem, taken for those of one instant.
PressureAtOnce ==
    step = "done" /\ (\A w \in seen : Told(w)) =>
      \E w \in seen : pressure \in Judged(UsageIn(w), LimitIn(w))

\* The doc comment of max_bytes: "0 if unlimited".
UnlimitedIsZero ==
    step = "done" /\ source = "cgroup_v2" /\ (\A w \in seen : w.v2Limit = Max) => limit = 0
=============================================================================
