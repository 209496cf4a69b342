----------------------------- MODULE MCPhpServer -----------------------------
(* Instances of PhpServer for TLC. *)
EXTENDS PhpServer, TLC

CONSTANTS monitor, w1, w2, r1, r2

MCTasks1 == {r1, monitor}
MCTasks2 == {r1, r2, monitor}
MCSocketOf == [w \in Workers |-> w]
MCSlots1 == <<w1>>
MCSlots2 == <<w1, w2>>

PidSymmetry == Permutations(Pids)
=============================================================================
