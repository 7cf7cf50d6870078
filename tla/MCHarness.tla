----------------------------- MODULE MCHarness -----------------------------
(* Names for checking Harness: unknown, refused, and found at the second   *)
(* endpoint.                                                               *)
EXTENDS Harness

MCNames == {<<>>, <<"refuses">>, <<"refuses", "accepts">>}
=============================================================================
