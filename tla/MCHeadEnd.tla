----------------------------- MODULE MCHeadEnd -----------------------------
(* HeadEnd with two meters.                                                *)
EXTENDS HeadEnd

CONSTANTS m1, m2

MCMeters == {m1, m2}
=============================================================================
