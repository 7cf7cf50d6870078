----------------------------- MODULE DirectRead -----------------------------
(***************************************************************************)
(* Mode 1 of the head-end system: passes of runScript in HESsim.cpp, whose *)
(* sessions send a service connect and two reads to one meter after the    *)
(* other without waiting for an answer, against meters (Metersim.cpp) that *)
(* serve one connection in a turn, hold others in the backlog, and turn    *)
(* them away when the turn is over.  Others are those of a rival, such as  *)
(* an Access Point still in a round, and of the head-end itself: a session *)
(* it has closed may still occupy the meter when it comes again.           *)
(*                                                                         *)
(* One step of the thread is a sleep, io_service::poll() and what is done  *)
(* with the outcome; ClientSession has the handlers inside a poll, and     *)
(* MeterServer the objects of a meter.  They also have what is left out    *)
(* here, the exceptions that end a process inside a handler: a value of    *)
(* another type (HESsim.cpp:139), a connection reset before its connect or *)
(* accept handler runs, and the callback into a deleted wrapper.           *)
(***************************************************************************)
EXTENDS Naturals, Sequences, SequencesExt

CONSTANTS
  Meters,      \* the registered meters, in the order of the set
  MaxTries,    \* open() gives up after so many polls (400 in the code)
  MaxPasses,   \* bound: passes of main()
  MaxRivals    \* bound: connections of the rival

ASSUME MetersAssumption == Meters \in Seq(STRING) /\ IsInjective(Meters) /\ Meters # <<>>
ASSUME BoundsAssumption == MaxTries \in Nat \ {0} /\ MaxPasses \in Nat /\ MaxRivals \in Nat

(* Connections are numbered: those of the head-end by its sessions, which  *)
(* are as many in each pass as there are meters; the rival's is 0.         *)
Sessions == 1..(MaxPasses * Len(Meters))
Rival == 0
MeterOf(n) == Meters[((n - 1) % Len(Meters)) + 1]

VARIABLES
  pc,           \* the call of runScript, "between" sessions, or "asleep"
  session,      \* the latest session, 0 before the first
  tries,        \* what is left of max_tries
  result,       \* of the pass; main() prints it before it sleeps
  op,           \* the socket: "resolve", "connect", "read", or "none"
  outcome,      \* of the connection attempt: "none", "ok" or "refused"
  association,  \* of the engine: "closed", "opening" or "open"
  stopped,      \* the io_service ran out of work
  asked,        \* what the session has sent
  answered,     \* how much of it the meter has answered
  turn,         \* each meter: "starting", "listening" or "serving"
  queue,        \* its connections; the first one is the one it serves
  left,         \* the rival has closed its connection
  rivals,       \* how many connections it made
  complete      \* history: whether the sessions of the pass were complete

thread == <<pc, session, tries, result, complete>>
client == <<op, association, stopped>>
wire == <<asked, answered>>
meter == <<turn, queue>>
rival == <<left, rivals>>
vars == <<thread, client, outcome, wire, meter, rival>>

Meter == ToSet(Meters)

Init ==
  /\ pc = "asleep" /\ session = 0 /\ tries = 0 /\ result = TRUE /\ complete = TRUE
  /\ op = "none" /\ outcome = "none" /\ association = "closed" /\ stopped = FALSE
  /\ asked = <<>> /\ answered = 0
  /\ turn = [m \in Meter |-> "listening"] /\ queue = [m \in Meter |-> <<>>]
  /\ left = TRUE /\ rivals = 0
-----------------------------------------------------------------------------
(* The head-end's thread.                                                  *)

(* The meter has ended the turn in which the connection waited.            *)
TurnedAway == outcome = "ok" /\ session \notin ToSet(queue[MeterOf(session)])

(* What a poll makes of the connection and of the answers that are there.  *)
(* It leaves the io_service stopped if nothing is left to wait for, and    *)
(* nothing starts it again: then not even the name is resolved any more.   *)
Polled ==
  LET connected == op = "read" \/ (op = "connect" /\ outcome = "ok") IN
  CASE stopped -> [op |-> op, association |-> association, stopped |-> TRUE]
    [] ~stopped /\ connected /\ TurnedAway ->
         [op |-> "none", association |-> "closed", stopped |-> TRUE]
    [] ~stopped /\ connected /\ ~TurnedAway ->
         [op |-> "read", stopped |-> FALSE,
          association |->
            CASE answered > 0 /\ asked[answered] = "release" -> "closed"
              [] association = "opening" /\ answered > 0 /\ asked[answered] # "release" -> "open"
              [] OTHER -> association]
    [] ~stopped /\ outcome = "refused" ->
         [op |-> "none", association |-> association, stopped |-> TRUE]
    [] OTHER -> [op |-> "connect", association |-> association, stopped |-> FALSE]

Becomes(c) == op' = c.op /\ association' = c.association /\ stopped' = c.stopped

Send(request) == asked' = Append(asked, request)

(* The constructor of HESsim: a new socket and engine, and Open().         *)
Construct ==
  /\ session' = session + 1 /\ tries' = MaxTries /\ pc' = "open"
  /\ op' = "resolve" /\ outcome' = "none" /\ association' = "closed"
  /\ asked' = <<>> /\ answered' = 0
  /\ UNCHANGED <<stopped, meter, rival>>

BeginPass ==
  /\ pc = "asleep" /\ session < MaxPasses * Len(Meters)
  /\ result' = TRUE /\ complete' = TRUE
  /\ Construct

NextMeter ==
  /\ pc = "between" /\ session % Len(Meters) # 0
  /\ UNCHANGED <<result, complete>>
  /\ Construct

(* Fault: a failed try is not counted.                                     *)
OpenForever ==
  /\ pc = "open"
  /\ IF Polled.op = "read"
     THEN /\ Becomes([Polled EXCEPT !.association = "opening"]) /\ Send("associate")
          /\ pc' = "serviceConnect" /\ UNCHANGED tries
     ELSE Becomes(Polled) /\ UNCHANGED <<asked, tries, pc>>
  /\ UNCHANGED <<session, result, complete, outcome, answered, meter, rival>>

(* open(): its result is ignored.                                          *)
Open ==
  /\ pc = "open"
  /\ IF Polled.op = "read"
     THEN /\ Becomes([Polled EXCEPT !.association = "opening"]) /\ Send("associate")
          /\ pc' = "serviceConnect" /\ UNCHANGED tries
     ELSE /\ Becomes(Polled) /\ UNCHANGED asked
          /\ tries' = tries - 1
          /\ pc' = IF tries' = 0 THEN "serviceConnect" ELSE "open"
  /\ UNCHANGED <<session, result, complete, outcome, answered, meter, rival>>

IsOpen(c) == c.op = "read" /\ c.association = "open"

(* Fault: the result is that of the last request.                          *)
SubmitForgets(call, request, next) ==
  /\ pc = call /\ pc' = next /\ Becomes(Polled)
  /\ IF IsOpen(Polled) THEN Send(request) ELSE UNCHANGED asked
  /\ result' = IsOpen(Polled)
  /\ UNCHANGED <<session, tries, complete, outcome, answered, meter, rival>>

(* Action() and Get(): submitted, or not connected.                        *)
Submit(call, request, next) ==
  /\ pc = call /\ pc' = next /\ Becomes(Polled)
  /\ IF IsOpen(Polled) THEN Send(request) ELSE UNCHANGED asked
  /\ result' = (result /\ IsOpen(Polled))
  /\ UNCHANGED <<session, tries, complete, outcome, answered, meter, rival>>

ServiceConnect == Submit("serviceConnect", "remote_reconnect", "clock")
GetClock == Submit("clock", "clock", "data")
GetData == Submit("data", "data", "close")

(* close(): its result is ignored too.                                     *)
Close ==
  /\ pc = "close" /\ pc' = "destroy" /\ Becomes(Polled)
  /\ IF IsOpen(Polled) THEN Send("release") ELSE UNCHANGED asked
  /\ UNCHANGED <<session, tries, result, complete, outcome, answered, meter, rival>>

(* What a session that did all of runScript's work has done.               *)
Complete ==
  /\ IsPrefix(<<"associate", "remote_reconnect", "clock", "data">>, asked)
  /\ answered > 0

(* Fault: the destructor releases the socket before it polls; the poll     *)
(* removes it, and finds no more work.                                     *)
DestroyReleasesFirst ==
  /\ pc = "destroy" /\ pc' = "between"
  /\ Becomes([op |-> "none", association |-> association, stopped |-> TRUE])
  /\ complete' = (complete /\ Complete)
  /\ UNCHANGED <<session, tries, result, outcome, wire, meter, rival>>

(* The destructor: ReleaseSocket() closes the socket, and posts its        *)
(* removal, which the next poll finds.                                     *)
Destroy ==
  /\ pc = "destroy" /\ pc' = "between"
  /\ Becomes([Polled EXCEPT !.op = "none"])
  /\ complete' = (complete /\ Complete)
  /\ UNCHANGED <<session, tries, result, outcome, wire, meter, rival>>

(* main() prints the result and sleeps.                                    *)
EndPass ==
  /\ pc = "between" /\ session % Len(Meters) = 0 /\ pc' = "asleep"
  /\ UNCHANGED <<session, tries, result, complete, client, outcome, wire, meter, rival>>
-----------------------------------------------------------------------------
(* The network, the rival, and the meters.                                 *)

Listens(m) == turn[m] \in {"listening", "serving"}

(* A meter between two turns refuses; otherwise its kernel accepts.        *)
Connects ==
  /\ op = "connect" /\ outcome = "none"
  /\ LET m == MeterOf(session) IN
     IF Listens(m)
     THEN outcome' = "ok" /\ queue' = [queue EXCEPT ![m] = Append(@, session)]
     ELSE outcome' = "refused" /\ UNCHANGED queue
  /\ UNCHANGED <<thread, client, wire, turn, rival>>

RivalConnects(m) ==
  /\ rivals < MaxRivals /\ Listens(m)
  /\ \A other \in Meter : Rival \notin ToSet(queue[other])
  /\ queue' = [queue EXCEPT ![m] = Append(@, Rival)]
  /\ rivals' = rivals + 1 /\ left' = FALSE
  /\ UNCHANGED <<thread, client, outcome, wire, turn>>

RivalLeaves ==
  /\ ~left /\ left' = TRUE
  /\ UNCHANGED <<thread, client, outcome, wire, meter, rivals>>

(* Server_Handler makes a socket and an engine, and listens.               *)
Listen(m) ==
  /\ turn[m] = "starting" /\ turn' = [turn EXCEPT ![m] = "listening"]
  /\ UNCHANGED <<thread, client, outcome, wire, queue, rival>>

Accept(m) ==
  /\ turn[m] = "listening" /\ queue[m] # <<>>
  /\ turn' = [turn EXCEPT ![m] = "serving"]
  /\ UNCHANGED <<thread, client, outcome, wire, queue, rival>>

Closed(n) ==
  IF n = Rival THEN left ELSE n < session \/ pc \in {"between", "asleep"}

Serve(m) ==
  /\ turn[m] = "serving" /\ Head(queue[m]) = session /\ ~Closed(session)
  /\ answered < Len(asked) /\ answered' = answered + 1
  /\ UNCHANGED <<thread, client, outcome, asked, meter, rival>>

(* Fault: the backlog outlives the acceptor.                               *)
TurnEndsKeepsQueue(m) ==
  /\ turn[m] = "serving" /\ Closed(Head(queue[m]))
  /\ turn' = [turn EXCEPT ![m] = "starting"]
  /\ queue' = [queue EXCEPT ![m] = Tail(@)]
  /\ UNCHANGED <<thread, client, outcome, wire, rival>>

(* The read of a served connection that was closed ends, some time later,  *)
(* for the meter may still be answering it.  run() returns, and everyone   *)
(* who waits goes with the acceptor.                                       *)
TurnEnds(m) ==
  /\ turn[m] = "serving" /\ Closed(Head(queue[m]))
  /\ turn' = [turn EXCEPT ![m] = "starting"]
  /\ queue' = [queue EXCEPT ![m] = <<>>]
  /\ UNCHANGED <<thread, client, outcome, wire, rival>>

RunScript ==
  \/ NextMeter \/ Open \/ ServiceConnect \/ GetClock \/ GetData \/ Close \/ Destroy
Main == BeginPass \/ RunScript \/ EndPass
Turn(m) == Listen(m) \/ Accept(m) \/ Serve(m) \/ TurnEnds(m)

Next ==
  \/ Main \/ Connects \/ RivalLeaves
  \/ \E m \in Meter : RivalConnects(m) \/ Turn(m)

(* Threads and processes run, attempts to connect end, and the rival does  *)
(* not stay for ever.  A step of main() may precede any answer.            *)
Spec ==
  /\ Init /\ [][Next]_vars
  /\ WF_vars(Main) /\ WF_vars(Connects) /\ WF_vars(RivalLeaves)
  /\ \A m \in Meter : WF_vars(Turn(m))
-----------------------------------------------------------------------------
(* Properties.                                                             *)

(* Types; a connection waits at its own meter, once, and only while the    *)
(* meter listens; an io_service that has stopped holds no connection open. *)
TypeOK ==
  /\ pc \in {"asleep", "between", "open", "serviceConnect", "clock", "data", "close", "destroy"}
  /\ session \in Sessions \cup {0} /\ tries \in 0..MaxTries
  /\ result \in BOOLEAN /\ complete \in BOOLEAN /\ stopped \in BOOLEAN
  /\ op \in {"resolve", "connect", "read", "none"} /\ outcome \in {"none", "ok", "refused"}
  /\ association \in {"closed", "opening", "open"}
  /\ answered \in 0..Len(asked)
  /\ stopped => op \in {"resolve", "none"}
  /\ \A m \in Meter :
       /\ turn[m] \in {"starting", "listening", "serving"}
       /\ IsInjective(queue[m])
       /\ \A n \in ToSet(queue[m]) : n = Rival \/ (n <= session /\ MeterOf(n) = m)
       /\ turn[m] = "starting" => queue[m] = <<>>
       /\ turn[m] = "serving" => queue[m] # <<>>

(* "sucess!" means that each meter of the pass had given this session its  *)
(* turn and an association, and was sent all three requests, in order: a   *)
(* meter that turned the session away, however late, makes the pass fail.  *)
(* (It does not mean that any of the requests was answered.)               *)
SuccessMeansAsked == pc = "asleep" /\ result => complete

(* The head-end's io_service stops for ever only if a rival was there, or  *)
(* the head-end came back to a meter: while each meter has only its first  *)
(* connection, no order of the answers, of the polls and of the meters'    *)
(* turns can stop it.                                                      *)
FirstContactsWork == stopped => rivals > 0 \/ session > Len(Meters)

(* As long as no exception ends the head-end (see above), every pass ends, *)
(* however late the meters answer or refuse, and every meter listens again *)
(* and again: a head-end that goes on without waiting for answers leaves   *)
(* no meter stuck in its turn.                                             *)
EverybodyGetsOn ==
  /\ pc # "asleep" ~> pc = "asleep"
  /\ \A m \in Meter : []<>(turn[m] = "listening")
=============================================================================
