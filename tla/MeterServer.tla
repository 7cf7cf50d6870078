---------------------------- MODULE MeterServer ----------------------------
(***************************************************************************)
(* A registered meter: the loop of Metersim.cpp around one listening       *)
(* socket (core/LinuxSocket.cpp in server mode), and the COSEM objects of  *)
(* server/ behind it.  Each turn of the loop has a new io_service, a new   *)
(* listening socket, one accept and a new engine with new objects; clients *)
(* that connect while another is served wait in the backlog until the turn *)
(* ends and its acceptor is destroyed, and are turned away then.           *)
(***************************************************************************)
EXTENDS Naturals, Sequences, FiniteSetsExt

CONSTANTS
  Clients,         \* head-end systems and Access Points
  Items,           \* data items, value group E of 0.0.96.1.e.255
  Values,          \* what a data item can be set to
  Requests,        \* what clients ask for
  MaxConnections,  \* bound: connections attempted in all
  MaxRequests,     \* bound: requests in the logs of all clients
  MaxResets        \* bound: connections reset by clients

(* An argument that is missing or has the wrong type is <<>>.              *)
Request(object, op, items, args) ==
  [object : {object}, op : {op}, item : items, arg : {<<>>} \cup {<<v>> : v \in args}]
Modes == 0..6
AllRequests == UNION {
  Request("data", "get", Items, {}), Request("data", "set", Items, Values),
  Request("disconnect", "get", {"output_state", "control_state", "control_mode"}, {}),
  Request("disconnect", "set", {"output_state", "control_state", "control_mode"}, Modes),
  Request("disconnect", "action", {"remote_disconnect", "remote_reconnect"}, {}),
  Request("image", "get", {"block_size", "blocks_status", "first_not_transferred", "enabled",
                           "status", "to_activate_info"}, {}),
  Request("image", "action", {"initiate"}, Values),
  Request("image", "action", {"block_transfer"}, 0..255),
  Request("image", "action", {"verify", "activate"}, {}),
  Request("clock", "get", {"time", "time_zone"}, {}),
  Request("clock", "action", {"shift_time"}, {})}

ASSUME RequestsAssumption == Requests \subseteq AllRequests
ASSUME BoundsAssumption ==
  MaxConnections \in Nat /\ MaxRequests \in Nat /\ MaxResets \in Nat

VARIABLES
  meter,        \* main: "starting", "listening", "serving", or "dead" by an exception
  engine,       \* the objects of this turn's engine
  backlog,      \* connections the kernel holds for the acceptor
  phase,        \* each client: "idle", "queued" or "served"
  line,         \* each client's end of its connection: "open", "closed", "reset"
  asked,        \* the requests of each client's connection
  answered,     \* the meter's answers to them
  connections,  \* how many connections were attempted
  resets        \* how many were reset by clients

clients == <<phase, line>>
logs == <<asked, answered>>
counters == <<connections, resets>>
vars == <<meter, engine, backlog, clients, logs, counters>>

(* The objects as their constructors leave them.                           *)
NewObjects ==
  [m_Values |-> [i \in Items |-> "default"],
   m_connected |-> TRUE, m_ControlState |-> "connected", m_ControlMode |-> 2,
   status |-> "not initiated", image_id |-> "none", block_status |-> {},
   first_not_transferred_block_number |-> 0]

Everyone(x) == [c \in Clients |-> x]

Init ==
  /\ meter = "starting" /\ engine = NewObjects /\ backlog = <<>>
  /\ phase = Everyone("idle") /\ line = Everyone("open")
  /\ asked = Everyone(<<>>) /\ answered = Everyone(<<>>)
  /\ connections = 0 /\ resets = 0
-----------------------------------------------------------------------------
(* The objects.  A handler takes the objects o and a request r, and gives  *)
(* the objects after it and the answer.                                    *)

Gives(o, result, value) == [engine |-> o, answer |-> [result |-> result, value |-> value]]
Success(o, value) == Gives(o, "success", value)
Fails(o, result) == Gives(o, result, "none")

(* LinuxData::InternalGet, InternalSet.                                    *)
Data(o, r) ==
  CASE r.op = "get" -> Success(o, o.m_Values[r.item])
    [] r.op = "set" /\ r.arg = <<>> -> Fails(o, "type_unmatched")
    [] OTHER -> Success([o EXCEPT !.m_Values[r.item] = r.arg[1]], "none")

(* LinuxDisconnect::InternalGet.                                           *)
DisconnectGet(o, r) ==
  CASE r.item = "output_state" -> Success(o, o.m_connected)
    [] r.item = "control_state" -> Success(o, o.m_ControlState)
    [] r.item = "control_mode" -> Success(o, o.m_ControlMode)

(* LinuxDisconnect::InternalSet: the assignment of the mode is commented   *)
(* out; the request succeeds all the same.                                 *)
DisconnectSet(o, r) ==
  CASE r.item # "control_mode" -> Fails(o, "read_write_denied")
    [] r.item = "control_mode" /\ r.arg = <<>> -> Fails(o, "temporary_failure")
    [] OTHER -> Success(o, "none")

RemoteDisconnect(o) ==
  Success(IF o.m_ControlMode = 0 THEN o ELSE [o EXCEPT !.m_connected = FALSE], "none")

(* Fault: a meter that reconnects leaves its output as it is.              *)
RemoteReconnectStateOnly(o) ==
  CASE o.m_ControlMode \in {1, 3, 5, 6} ->
         Success([o EXCEPT !.m_ControlState = "ready for reconnection"], "none")
    [] o.m_ControlMode \in {2, 4} ->
         Success([o EXCEPT !.m_ControlState = "connected"], "none")
    [] OTHER -> Fails(o, "object_unavailable")

RemoteReconnect(o) ==
  CASE o.m_ControlMode \in {1, 3, 5, 6} ->
         Success([o EXCEPT !.m_ControlState = "ready for reconnection"], "none")
    [] o.m_ControlMode \in {2, 4} ->
         Success([o EXCEPT !.m_ControlState = "connected", !.m_connected = TRUE], "none")
    [] OTHER -> Fails(o, "object_unavailable")

(* LinuxImageTransfer::InternalGet.                                        *)
ImageGet(o, r) ==
  CASE r.item = "block_size" -> Success(o, 512)
    [] r.item = "blocks_status" -> Success(o, o.block_status)
    [] r.item = "first_not_transferred" -> Success(o, o.first_not_transferred_block_number)
    [] r.item = "enabled" -> Success(o, TRUE)
    [] r.item = "status" -> Success(o, o.status)
    [] r.item = "to_activate_info" -> Fails(o, "object_unavailable")

(* LinuxImageTransfer::InternalAction: only initiate changes anything, and *)
(* what blocks carry is dropped.                                           *)
ImageAction(o, r) ==
  CASE r.item \in {"initiate", "block_transfer"} /\ r.arg = <<>> -> Fails(o, "object_unavailable")
    [] r.item = "initiate" /\ r.arg # <<>> ->
         Success([o EXCEPT !.status = "initiated", !.image_id = r.arg[1], !.block_status = {},
                           !.first_not_transferred_block_number = 0], "none")
    [] OTHER -> Success(o, "none")

(* LinuxClock: the time can be read, and nothing else.                     *)
Clock(o, r) ==
  IF r.item = "time" THEN Success(o, "now") ELSE Fails(o, "object_unavailable")

Handle(o, r) ==
  CASE r.object = "data" -> Data(o, r)
    [] r.object = "disconnect" /\ r.op = "get" -> DisconnectGet(o, r)
    [] r.object = "disconnect" /\ r.op = "set" -> DisconnectSet(o, r)
    [] r.object = "disconnect" /\ r.item = "remote_disconnect" -> RemoteDisconnect(o)
    [] r.object = "disconnect" /\ r.item = "remote_reconnect" -> RemoteReconnect(o)
    [] r.object = "image" /\ r.op = "get" -> ImageGet(o, r)
    [] r.object = "image" /\ r.op = "action" -> ImageAction(o, r)
    [] r.object = "clock" -> Clock(o, r)
-----------------------------------------------------------------------------
(* Clients.                                                                *)

Total == FoldSet(LAMBDA c, n : n + Len(asked[c]), 0, Clients)

(* A connection completes as soon as a socket listens, before the accept,  *)
(* and is refused otherwise.                                               *)
Connect(c) ==
  /\ phase[c] = "idle" /\ connections < MaxConnections
  /\ connections' = connections + 1
  /\ IF meter \in {"listening", "serving"}
     THEN /\ backlog' = Append(backlog, c)
          /\ phase' = [phase EXCEPT ![c] = "queued"]
     ELSE UNCHANGED <<backlog, phase>>
  /\ UNCHANGED <<meter, engine, line, logs, resets>>

(* A client may ask again before it has an answer, even while it waits.    *)
Ask(c) ==
  /\ phase[c] # "idle" /\ line[c] = "open" /\ Total < MaxRequests
  /\ \E r \in Requests : asked' = [asked EXCEPT ![c] = Append(@, r)]
  /\ UNCHANGED <<meter, engine, backlog, clients, answered, counters>>

Leave(c) ==
  /\ phase[c] # "idle" /\ line[c] = "open"
  /\ line' = [line EXCEPT ![c] = "closed"]
  /\ UNCHANGED <<meter, engine, backlog, phase, logs, counters>>

Reset(c) ==
  /\ phase[c] # "idle" /\ line[c] # "reset" /\ resets < MaxResets
  /\ line' = [line EXCEPT ![c] = "reset"]
  /\ resets' = resets + 1
  /\ UNCHANGED <<meter, engine, backlog, phase, logs, connections>>
-----------------------------------------------------------------------------
(* The meter.                                                              *)

(* Fault: the engine of the turn before is used again.                     *)
ListenOldEngine ==
  /\ meter = "starting" /\ meter' = "listening"
  /\ UNCHANGED <<engine, backlog, clients, logs, counters>>

(* A turn of main: Server_Handler makes a socket and an engine, and opens. *)
Listen ==
  /\ meter = "starting" /\ meter' = "listening"
  /\ engine' = NewObjects
  /\ UNCHANGED <<backlog, clients, logs, counters>>

(* The acceptor goes, by the end of the turn or of the process: whoever    *)
(* is connected or waits for it is turned away.                            *)
TurnEveryoneAway ==
  /\ backlog' = <<>> /\ phase' = Everyone("idle") /\ line' = Everyone("open")
  /\ asked' = Everyone(<<>>) /\ answered' = Everyone(<<>>)
  /\ UNCHANGED <<engine, counters>>

(* Fault: a connection its client has closed is taken for a broken one.    *)
AcceptOnlyOpen ==
  /\ meter = "listening" /\ backlog # <<>>
  /\ IF line[Head(backlog)] # "open"
     THEN meter' = "dead" /\ TurnEveryoneAway
     ELSE /\ meter' = "serving" /\ backlog' = Tail(backlog)
          /\ phase' = [phase EXCEPT ![Head(backlog)] = "served"]
          /\ UNCHANGED <<engine, line, logs, counters>>

(* ASIO_Accept_Handler: remote_endpoint() throws for a connection that was *)
(* reset while it waited, and nothing catches it.                          *)
Accept ==
  /\ meter = "listening" /\ backlog # <<>>
  /\ IF line[Head(backlog)] = "reset"
     THEN meter' = "dead" /\ TurnEveryoneAway
     ELSE /\ meter' = "serving" /\ backlog' = Tail(backlog)
          /\ phase' = [phase EXCEPT ![Head(backlog)] = "served"]
          /\ UNCHANGED <<engine, line, logs, counters>>

(* The next request is handled and answered.                               *)
Serve(c) ==
  /\ phase[c] = "served" /\ line[c] # "reset" /\ Len(answered[c]) < Len(asked[c])
  /\ LET done == Handle(engine, asked[c][Len(answered[c]) + 1])
     IN  /\ engine' = done.engine
         /\ answered' = [answered EXCEPT ![c] = Append(@, done.answer)]
  /\ UNCHANGED <<meter, backlog, clients, asked, counters>>

(* The read of a served connection ends with eof, behind all requests, or  *)
(* with a reset.                                                           *)
Over(c) ==
  /\ phase[c] = "served"
  /\ \/ line[c] = "reset"
     \/ line[c] = "closed" /\ Len(answered[c]) = Len(asked[c])

(* Fault: only eof ends a session.                                         *)
SessionEndsOnEof(c) ==
  /\ Over(c) /\ line[c] = "closed"
  /\ meter' = "starting" /\ TurnEveryoneAway

(* ASIO_Read_Handler: no work is left, run() returns, the turn is over.    *)
SessionEnds(c) ==
  /\ Over(c)
  /\ meter' = "starting" /\ TurnEveryoneAway

Client(c) == Connect(c) \/ Ask(c) \/ Leave(c) \/ Reset(c)
Meter == Listen \/ Accept \/ \E c \in Clients : Serve(c) \/ SessionEnds(c)

Next == (\E c \in Clients : Client(c)) \/ Meter

(* The meter's process runs, and clients end their sessions.               *)
Spec ==
  /\ Init /\ [][Next]_vars
  /\ WF_vars(Meter) /\ \A c \in Clients : WF_vars(Leave(c))
-----------------------------------------------------------------------------
(* Properties.                                                             *)

(* Types; at most one client is served, and the backlog holds those that   *)
(* wait, once each, only while a socket listens.  Only a client that       *)
(* resets its connection kills the meter; one that closes it before it is  *)
(* accepted, or in the middle of its requests, does not.                   *)
TypeOK ==
  /\ meter \in {"starting", "listening", "serving", "dead"}
  /\ DOMAIN engine = DOMAIN NewObjects
  /\ phase \in [Clients -> {"idle", "queued", "served"}]
  /\ line \in [Clients -> {"open", "closed", "reset"}]
  /\ backlog \in Seq(Clients)
  /\ \A c \in Clients : phase[c] = "queued" <=> \E i \in 1..Len(backlog) : backlog[i] = c
  /\ \A i, j \in 1..Len(backlog) : backlog[i] = backlog[j] => i = j
  /\ meter = "serving" <=> \E c \in Clients : phase[c] = "served"
  /\ \A c, d \in Clients : phase[c] = "served" /\ phase[d] = "served" => c = d
  /\ meter \in {"starting", "dead"} => backlog = <<>>
  /\ \A c \in Clients : asked[c] \in Seq(Requests) /\ Len(answered[c]) <= Len(asked[c])
  /\ connections \in 0..MaxConnections /\ resets \in 0..MaxResets
  /\ meter = "dead" => resets > 0

(* What the k-th answer to c has to be, told from c's own requests.        *)
Acknowledged(c, k, Matches(_)) ==
  {i \in 1..(k - 1) : Matches(asked[c][i]) /\ answered[c][i].result = "success"}

StoredBefore(c, k, item) ==
  LET sets == Acknowledged(c, k, LAMBDA r : r.object = "data" /\ r.op = "set" /\ r.item = item)
  IN  IF sets = {} THEN "default" ELSE asked[c][Max(sets)].arg[1]

ConnectedBefore(c, k) ==
  LET Command(name) ==
        Acknowledged(c, k, LAMBDA r : r.object = "disconnect" /\ r.item = name)
      off == Command("remote_disconnect")
      on == Command("remote_reconnect")
  IN  \A i \in off : \E j \in on : i < j

StatusBefore(c, k) ==
  IF Acknowledged(c, k, LAMBDA r : r.object = "image" /\ r.item = "initiate") = {}
  THEN "not initiated" ELSE "initiated"

(* The control modes that this connection was told are set.                *)
ModesBefore(c, k) ==
  Acknowledged(c, k, LAMBDA r : r.object = "disconnect" /\ r.op = "set" /\ r.item = "control_mode")

(* However clients queue, pipeline and break off, an answer depends on     *)
(* nothing but the requests of the same connection: a data item has the    *)
(* value this client set last, the output follows its last service command *)
(* as long as it has set no mode, and the image transfer is under way if   *)
(* this client has started it.  (What a mode that was set should do is     *)
(* left open: InternalSet acknowledges it and does not store it.)          *)
AnswersAreOwn ==
  \A c \in Clients : \A k \in 1..Len(answered[c]) :
    LET r == asked[c][k]  a == answered[c][k] IN
      /\ r.object = "data" /\ r.op = "get" => a.value = StoredBefore(c, k, r.item)
      /\ /\ r.object = "disconnect" /\ r.item = "output_state" /\ r.op = "get"
         /\ ModesBefore(c, k) = {}
         => a.value = ConnectedBefore(c, k)
      /\ r.object = "image" /\ r.item = "status" => a.value = StatusBefore(c, k)

(* The one engine, whose objects are made anew for each turn, is to every  *)
(* client an engine of its own: all answers, not only those that           *)
(* AnswersAreOwn spells out, are those of objects nobody else has touched. *)
Service == INSTANCE MeterService WITH
  objects <- [c \in Clients |-> IF phase[c] = "served" THEN engine ELSE NewObjects]

ImplementsService == Service!Spec

(* Whoever waits is served or turned away in the end, and requests are     *)
(* answered, also those that were sent before the accept, unless their     *)
(* connection is turned away or reset.                                     *)
ClientsGetOn ==
  \A c \in Clients :
    /\ phase[c] = "queued" ~> phase[c] # "queued"
    /\ []<>(phase[c] = "idle" \/ line[c] = "reset" \/ Len(answered[c]) = Len(asked[c]))
=============================================================================
