--------------------------- MODULE MCMeterServer ---------------------------
(* Requests for checking MeterServer: those that read or change an object, *)
(* one with a bad argument and one that sets a control mode.               *)
EXTENDS MeterServer

CONSTANTS c1, c2, v1

MCClients == {c1, c2}
MCItems == {"0", "1"}
MCValues == {v1}

Get(object, item) == [object |-> object, op |-> "get", item |-> item, arg |-> <<>>]
Set(object, item, arg) == [object |-> object, op |-> "set", item |-> item, arg |-> arg]
Act(object, item, arg) == [object |-> object, op |-> "action", item |-> item, arg |-> arg]

MCRequests ==
  {Get("data", "0"), Set("data", "0", <<v1>>), Set("data", "0", <<>>),
   Get("disconnect", "output_state"), Set("disconnect", "control_mode", <<0>>),
   Act("disconnect", "remote_disconnect", <<>>), Act("disconnect", "remote_reconnect", <<>>),
   Get("image", "status"), Act("image", "initiate", <<v1>>)}
=============================================================================
