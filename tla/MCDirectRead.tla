---------------------------- MODULE MCDirectRead ----------------------------
(* Two meters for checking DirectRead.                                     *)
EXTENDS DirectRead

MCMeters == <<"m1", "m2">>
=============================================================================
