---------------------------- MODULE MCTaskRunner ----------------------------
(* Two dashboards and two commands for checking TaskRunner.                *)
EXTENDS TaskRunner

CONSTANTS c1, c2

MCClients == {c1, c2}
MCCommands == {"{netstat}", "{ping}"}
=============================================================================
