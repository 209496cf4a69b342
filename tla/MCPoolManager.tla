---------------------------- MODULE MCPoolManager ----------------------------
(***************************************************************************)
(* The heavy and the fast pool of the README, for TLC.                     *)
(***************************************************************************)
EXTENDS PoolManager

CONSTANTS heavy, fast, other,    \* names of pools
          export, page, tagged,  \* kinds of requests
          r1, r2, t1, t2

Heavy(n) == [name |-> heavy, count |-> n, headers |-> {tagged}, patterns |-> {export}]
Fast(n) == [name |-> fast, count |-> n, headers |-> {}, patterns |-> Kinds]
Other == [name |-> other, count |-> 1, headers |-> {}, patterns |-> {page}]

Conf(sections) == [pools |-> sections, count |-> 1]

MCBoot == Conf(<<Heavy(2), Fast(2)>>)

\* Other sizes and another order; the section of one pool gone and one of a pool
\* that was not there at the start; no section left of the pools that run.
MCLoads == {MCBoot, Conf(<<Fast(1), Heavy(1)>>), Conf(<<Other, Heavy(2)>>), Conf(<<Other>>)}

MCNoPools == Conf(<<>>)
MCOnlyEmpty == {MCNoPools}
=============================================================================
