--------------------------- MODULE MCAccessPoint ---------------------------
(* AccessPoint with three meters, a buffer that holds two names, and the   *)
(* kinds of requests that matter: short, other size, too long, empty.      *)
EXTENDS AccessPoint

CONSTANTS m1, m2, m3

MCMeters == {m1, m2, m3}
MCRequests ==
  { [size |-> "small", meters |-> <<m1, m2>>],
    [size |-> "large", meters |-> <<m2>>],
    [size |-> "medium", meters |-> <<m3, m1, m2>>],
    [size |-> "small", meters |-> <<>>] }
=============================================================================
