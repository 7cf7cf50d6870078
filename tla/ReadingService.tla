--------------------------- MODULE ReadingService ---------------------------
(***************************************************************************)
(* What the Access Point promises to whoever submits meter lists: a report *)
(* names exactly the meters of one list that was waiting when the round    *)
(* began, all of them, in that order; rounds do not overlap, and they go   *)
(* on for ever.  It does not promise that every list gets a round: a later *)
(* list replaces one that still waits, and the end of a round forgets      *)
(* whatever waits by then.                                                 *)
(***************************************************************************)
EXTENDS Sequences

CONSTANT Names

VARIABLES
  phase,     \* "ready", "busy" with a round, or "reported"
  waiting,   \* the list that the next round takes
  inHand,    \* the list of the current or last round
  report     \* the meters of the last report, in order

vars == <<phase, waiting, inHand, report>>

Init == phase = "ready" /\ waiting = <<>> /\ inHand = <<>> /\ report = <<>>

Submit ==
  /\ waiting' \in Seq(Names)
  /\ UNCHANGED <<phase, inHand, report>>

Begin ==
  /\ phase = "ready" /\ phase' = "busy"
  /\ inHand' = waiting
  /\ UNCHANGED <<waiting, report>>

Report ==
  /\ phase = "busy" /\ phase' = "reported"
  /\ report' = inHand
  /\ UNCHANGED <<waiting, inHand>>

Forget ==
  /\ phase = "reported" /\ phase' = "ready"
  /\ waiting' = <<>>
  /\ UNCHANGED <<inHand, report>>

Round == Begin \/ Report \/ Forget

Next == Submit \/ Round

(* The safety part, and the promise that rounds go on.                     *)
Safe == Init /\ [][Next]_vars

Spec == Safe /\ WF_vars(Round)
=============================================================================
