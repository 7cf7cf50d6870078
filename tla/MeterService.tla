---------------------------- MODULE MeterService ----------------------------
(***************************************************************************)
(* What a meter promises its clients: to each of them it is as if it had   *)
(* no others.  A connection has objects of its own, new when it begins;    *)
(* its requests are handled by these objects alone and answered in order.  *)
(* It is not promised that requests are answered at all: a connection may  *)
(* end at any time, together with others, and a later one of the same      *)
(* client starts afresh.                                                   *)
(***************************************************************************)
EXTENDS Naturals, Sequences

CONSTANTS
  Clients,
  Requests,
  NewObjects,      \* the objects as they are made
  Handle(_, _)     \* from objects and a request: the engine, which holds the
                   \* objects afterwards, and the answer

VARIABLES
  objects,    \* those of each client's connection
  asked,      \* the requests on each connection
  answered    \* the answers to them

vars == <<objects, asked, answered>>

Init ==
  /\ objects = [c \in Clients |-> NewObjects]
  /\ asked = [c \in Clients |-> <<>>] /\ answered = [c \in Clients |-> <<>>]

Ask(c) ==
  /\ \E r \in Requests : asked' = [asked EXCEPT ![c] = Append(@, r)]
  /\ UNCHANGED <<objects, answered>>

Answer(c) ==
  /\ Len(answered[c]) < Len(asked[c])
  /\ LET done == Handle(objects[c], asked[c][Len(answered[c]) + 1])
     IN  /\ objects' = [objects EXCEPT ![c] = done.engine]
         /\ answered' = [answered EXCEPT ![c] = Append(@, done.answer)]
  /\ UNCHANGED asked

(* The connections of S end.                                               *)
End(S) ==
  /\ objects' = [c \in Clients |-> IF c \in S THEN NewObjects ELSE objects[c]]
  /\ asked' = [c \in Clients |-> IF c \in S THEN <<>> ELSE asked[c]]
  /\ answered' = [c \in Clients |-> IF c \in S THEN <<>> ELSE answered[c]]

Next ==
  \/ \E c \in Clients : Ask(c) \/ Answer(c)
  \/ \E S \in SUBSET Clients : End(S)

Spec == Init /\ [][Next]_vars
=============================================================================
