------------------------------ MODULE MCDbProxy ------------------------------
(* Small instances of the database proxy: statements with and without a     *)
(* parameter, one client with several commands that reads an EOF after the  *)
(* reply to a prepare, and one of MySQL's own with a single command.        *)
EXTENDS DbProxy, TLC

CONSTANTS c1, c2, t0, t1

MCTexts == {t0, t1}
MCMarkers == (t0 :> 0) @@ (t1 :> 1)

MCSeveral == (c1 :> 4) @@ (c2 :> 1)
MCLenient == {c1}

MCOneEach == [c \in Clients |-> 1]
=============================================================================
