---------------------------- MODULE MCHesConfig ----------------------------
(* Messages for checking HesConfig: one that changes both settings, one    *)
(* without a mode, and one that does not load.                             *)
EXTENDS HesConfig

CONSTANTS c1, c2

MCClients == {c1, c2}
MCMessages ==
  {[size |-> "large", route |-> "no"], [size |-> "medium", route |-> "none"], [size |-> "none", route |-> "no"]}
=============================================================================
