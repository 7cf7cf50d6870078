-------------------------- MODULE MCClientSession --------------------------
(* ClientSession with one reliable meter and one that is not, and the      *)
(* sessions of the Access Point (one Get) and of the head-end system in    *)
(* routing mode (reconnect, clock, data).                                  *)
EXTENDS ClientSession

CONSTANTS good, flaky

MCMeters == {good, flaky}
MCReliable == {good}
MCScripts == { <<"Get">>, <<"Action", "Get", "Get">> }
=============================================================================
