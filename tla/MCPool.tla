------------------------------- MODULE MCPool -------------------------------
(* Two slots with the history of their scans, for TLC. *)
EXTENDS PhpHistory, MCPhpServer
=============================================================================
