------------------------- MODULE MeterServerProofs -------------------------
(***************************************************************************)
(* Theorems about MeterServer, for any clients, data items, values and     *)
(* requests: what a client is told depends on its own requests only, as if *)
(* there were no others, and nothing but a reset connection kills the      *)
(* meter.                                                                  *)
(***************************************************************************)
EXTENDS MeterServer, SequenceTheorems, WellFoundedInduction, TLAPS

(* The objects: the control mode is the constructor's for ever, since no   *)
(* set changes it, and no block of an image is ever kept.                  *)
Stored == {"default"} \cup Values
Engine ==
  [m_Values : [Items -> Stored],
   m_connected : BOOLEAN, m_ControlState : {"connected"}, m_ControlMode : {2},
   status : {"not initiated", "initiated"}, image_id : {"none"} \cup Values,
   block_status : {{}}, first_not_transferred_block_number : {0}]
Result == {"success", "type_unmatched", "read_write_denied", "temporary_failure",
           "object_unavailable"}
Told == Stored \cup BOOLEAN \cup
        {"none", "now", "connected", "not initiated", "initiated"} \cup {0, 2, 512} \cup {{}}
Answer == [result : Result, value : Told]

(* AnswersAreOwn of one connection: its requests are q, their answers a.   *)
Done(q, a, k, object, name) ==
  {i \in 1..(k - 1) : (q[i].object = object /\ q[i].item = name) /\ a[i].result = "success"}
Sets(q, a, k, item) ==
  {i \in 1..(k - 1) : (q[i].object = "data" /\ q[i].op = "set" /\ q[i].item = item)
                      /\ a[i].result = "success"}
Value(q, a, k, item) ==
  IF Sets(q, a, k, item) = {} THEN "default" ELSE q[Max(Sets(q, a, k, item))].arg[1]
Connected(q, a, k) ==
  \A i \in Done(q, a, k, "disconnect", "remote_disconnect") :
    \E j \in Done(q, a, k, "disconnect", "remote_reconnect") : i < j
Status(q, a, k) ==
  IF Done(q, a, k, "image", "initiate") = {} THEN "not initiated" ELSE "initiated"

(* The k-th answer is what the requests before it make it.                 *)
OwnAnswer(q, a, k) ==
  /\ q[k].object = "data" /\ q[k].op = "get" => a[k].value = Value(q, a, k, q[k].item)
  /\ q[k].object = "disconnect" /\ q[k].item = "output_state" /\ q[k].op = "get"
       => a[k].value = Connected(q, a, k)
  /\ q[k].object = "image" /\ q[k].item = "status" => a[k].value = Status(q, a, k)

(* The objects o are what the answered requests have made them.            *)
Reflects(o, q, a) ==
  LET k == Len(a) + 1 IN
    /\ \A item \in Items : o.m_Values[item] = Value(q, a, k, item)
    /\ o.m_connected = Connected(q, a, k)
    /\ o.status = Status(q, a, k)

Types ==
  /\ meter \in {"starting", "listening", "serving", "dead"}
  /\ engine \in Engine
  /\ phase \in [Clients -> {"idle", "queued", "served"}]
  /\ line \in [Clients -> {"open", "closed", "reset"}]
  /\ backlog \in Seq(Clients)
  /\ asked \in [Clients -> Seq(Requests)] /\ answered \in [Clients -> Seq(Answer)]
  /\ connections \in 0..MaxConnections /\ resets \in 0..MaxResets

(* The backlog holds those that wait, once each.                           *)
Waiting ==
  /\ \A c \in Clients : phase[c] = "queued" <=> \E i \in 1..Len(backlog) : backlog[i] = c
  /\ \A i, j \in 1..Len(backlog) : backlog[i] = backlog[j] => i = j
  /\ meter \in {"starting", "dead"} => backlog = <<>>

(* At most one client is served.                                           *)
Serving ==
  /\ meter = "serving" <=> \E c \in Clients : phase[c] = "served"
  /\ \A c, d \in Clients : phase[c] = "served" /\ phase[d] = "served" => c = d

(* The objects are new when a turn begins, and then follow the requests of *)
(* the client it serves; the others have no answer yet.                    *)
Objects ==
  /\ meter = "listening" => engine = NewObjects
  /\ \A c \in Clients :
       /\ Len(answered[c]) <= Len(asked[c])
       /\ phase[c] # "served" => answered[c] = <<>>
       /\ phase[c] = "served" => Reflects(engine, asked[c], answered[c])
       /\ \A k \in 1..Len(answered[c]) : OwnAnswer(asked[c], answered[c], k)

Resets ==
  /\ \A c \in Clients : line[c] = "reset" => resets > 0
  /\ meter = "dead" => resets > 0

IInv == Types /\ Waiting /\ Serving /\ Objects /\ Resets
-----------------------------------------------------------------------------
(* Sets of positions in a log.                                             *)

LEMMA MaxIs ==
  ASSUME NEW n \in Nat, NEW S \in SUBSET (1..n), S # {}
  PROVE  Max(S) \in S /\ \A y \in S : Max(S) >= y
<1> DEFINE R == OpToRel(<, Nat)
           T == {n - i : i \in S}
<1>1. T \subseteq Nat /\ T # {}
  <2>1. \A i \in S : i \in Nat /\ n - i \in Nat
    OBVIOUS
  <2>2. QED
    BY <2>1
<1>2. PICK x \in T : \A y \in T : <<y, x>> \notin R
  <2> HIDE DEF R, T
  <2>1. IsWellFoundedOn(R, Nat)
    BY NatLessThanWellFounded DEF R
  <2>2. QED
    BY <1>1, <2>1, WFMin
<1>3. PICK i \in S : x = n - i
  BY <1>2
<1>4. \A j \in S : i >= j
  <2>1. SUFFICES ASSUME NEW j \in S, j > i PROVE FALSE
    OBVIOUS
  <2>2. n - j \in T /\ n - j < x /\ n - j \in Nat /\ x \in Nat
    BY <1>3, <2>1
  <2>3. <<n - j, x>> \in R
    BY <2>2 DEF OpToRel
  <2>4. QED
    BY <1>2, <2>2, <2>3
<1>5. QED
  BY <1>4 DEF Max

LEMMA MaxOf ==
  ASSUME NEW S \in SUBSET Nat, NEW n \in S, \A i \in S : i <= n
  PROVE  Max(S) = n
<1>1. \A x \in S : (\A y \in S : x >= y) => x = n
  OBVIOUS
<1>2. \A y \in S : n >= y
  OBVIOUS
<1>3. QED
  BY <1>1, <1>2 DEF Max
-----------------------------------------------------------------------------
(* Requests and the objects that handle them.                              *)

LEMMA RequestShape ==
  ASSUME NEW r \in Requests
  PROVE  \/ /\ r.object = "data" /\ r.item \in Items
            /\ \/ r.op = "get" /\ r.arg = <<>>
               \/ r.op = "set" /\ (r.arg = <<>> \/ \E v \in Values : r.arg = <<v>>)
         \/ /\ r.object = "disconnect" /\ r.op \in {"get", "set"}
            /\ r.item \in {"output_state", "control_state", "control_mode"}
         \/ /\ r.object = "disconnect" /\ r.op = "action"
            /\ r.item \in {"remote_disconnect", "remote_reconnect"}
         \/ /\ r.object = "image" /\ r.op = "get"
            /\ r.item \in {"block_size", "blocks_status", "first_not_transferred", "enabled",
                           "status", "to_activate_info"}
         \/ /\ r.object = "image" /\ r.op = "action" /\ r.item = "initiate"
            /\ (r.arg = <<>> \/ \E v \in Values : r.arg = <<v>>)
         \/ /\ r.object = "image" /\ r.op = "action"
            /\ r.item \in {"block_transfer", "verify", "activate"}
         \/ /\ r.object = "clock" /\ r.op \in {"get", "action"}
            /\ r.item \in {"time", "time_zone", "shift_time"}
BY RequestsAssumption DEF AllRequests, Request

(* What a request does to the objects, and what it is answered.            *)
Handled(o, r, done) ==
  /\ done.engine \in Engine /\ done.answer \in Answer
  /\ \A item \in Items :
       done.engine.m_Values[item] =
         IF (r.object = "data" /\ r.op = "set" /\ r.item = item) /\ done.answer.result = "success"
         THEN r.arg[1] ELSE o.m_Values[item]
  /\ r.object = "disconnect" /\ r.item \in {"remote_disconnect", "remote_reconnect"}
       => /\ done.answer.result = "success"
          /\ done.engine.m_connected = (r.item = "remote_reconnect")
  /\ ~ (r.object = "disconnect" /\ r.item \in {"remote_disconnect", "remote_reconnect"})
       => done.engine.m_connected = o.m_connected
  /\ done.engine.status =
       IF (r.object = "image" /\ r.item = "initiate") /\ done.answer.result = "success"
       THEN "initiated" ELSE o.status
  /\ r.object = "data" /\ r.op = "get" => done.answer.value = o.m_Values[r.item]
  /\ r.object = "disconnect" /\ r.item = "output_state" /\ r.op = "get"
       => done.answer.value = o.m_connected
  /\ r.object = "image" /\ r.item = "status" => done.answer.value = o.status

LEMMA Words ==
  /\ {"success", "type_unmatched", "read_write_denied", "temporary_failure",
      "object_unavailable"} \subseteq Result
  /\ {"none", "now"} \subseteq Told
BY DEF Result, Told

LEMMA GivesIs ==
  ASSUME NEW e, NEW res \in Result, NEW v \in Told
  PROVE  /\ Gives(e, res, v).engine = e
         /\ Gives(e, res, v).answer \in Answer
         /\ Gives(e, res, v).answer.result = res /\ Gives(e, res, v).answer.value = v
BY DEF Gives, Answer

(* A request that changes nothing, and what it may be told.                *)
LEMMA OnlyTells ==
  ASSUME NEW o \in Engine, NEW r \in Requests, NEW res \in Result, NEW v \in Told,
         res = "success" => /\ ~ (r.object = "data" /\ r.op = "set")
                            /\ ~ (r.object = "image" /\ r.item = "initiate"),
         ~ (r.object = "disconnect" /\ r.item \in {"remote_disconnect", "remote_reconnect"}),
         r.object = "data" /\ r.op = "get" => v = o.m_Values[r.item],
         r.object = "disconnect" /\ r.item = "output_state" /\ r.op = "get"
           => v = o.m_connected,
         r.object = "image" /\ r.item = "status" => v = o.status
  PROVE  Handled(o, r, Gives(o, res, v))
<1> DEFINE done == Gives(o, res, v)
<1>1. done.engine = o /\ done.answer \in Answer /\ done.answer.result = res /\ done.answer.value = v
  BY GivesIs
<1> SUFFICES Handled(o, r, done)
  OBVIOUS
<1> HIDE DEF done
<1>2. \A item \in Items :
        ~ ((r.object = "data" /\ r.op = "set" /\ r.item = item) /\ done.answer.result = "success")
  BY <1>1
<1>3. ~ ((r.object = "image" /\ r.item = "initiate") /\ done.answer.result = "success")
  BY <1>1
<1>4. /\ \A item \in Items : done.engine.m_Values[item] = o.m_Values[item]
      /\ done.engine.m_connected = o.m_connected /\ done.engine.status = o.status
  BY <1>1, Zenon
<1>5. done.engine \in Engine
  BY <1>1
<1>6. QED
  BY <1>1, <1>2, <1>3, <1>4, <1>5 DEF Handled

LEMMA DataGives ==
  ASSUME NEW o \in Engine, NEW r \in Requests, r.object = "data"
  PROVE  Handled(o, r, Data(o, r))
<1>1. r.item \in Items
  BY RequestShape
<1>2. CASE r.op = "get"
  <2>1. Data(o, r) = Gives(o, "success", o.m_Values[r.item])
    BY <1>2 DEF Data, Success
  <2>2. o.m_Values[r.item] \in Told /\ "success" \in Result
    BY <1>1 DEF Engine, Told, Result
  <2>3. QED
    BY <1>2, <2>1, <2>2, OnlyTells
<1>3. CASE r.op = "set" /\ r.arg = <<>>
  <2>1. Data(o, r) = Gives(o, "type_unmatched", "none")
    BY <1>3 DEF Data, Fails
  <2>2. "none" \in Told /\ "type_unmatched" \in Result
    BY DEF Told, Result
  <2>3. QED
    BY <1>3, <2>1, <2>2, OnlyTells
<1>4. ASSUME r.op = "set", NEW v \in Values, r.arg = <<v>>
      PROVE  Handled(o, r, Data(o, r))
  <2> DEFINE e == [o EXCEPT !.m_Values[r.item] = v]
             done == Gives(e, "success", "none")
  <2>1. Data(o, r) = done
    <3>1. r.arg # <<>> /\ r.arg[1] = v
      BY <1>4
    <3>2. QED
      BY <1>4, <3>1 DEF Data, Success
  <2>2. e \in Engine
    BY <1>1 DEF Engine, Stored
  <2>3. \A item \in Items : e.m_Values[item] = IF item = r.item THEN r.arg[1] ELSE o.m_Values[item]
    <3>1. r.arg[1] = v
      BY <1>4
    <3>2. \A item \in Items : e.m_Values[item] = IF item = r.item THEN v ELSE o.m_Values[item]
      BY <1>1 DEF Engine
    <3>3. QED
      BY <3>1, <3>2
  <2>4. e.m_connected = o.m_connected /\ e.status = o.status
    BY DEF Engine
  <2>5. /\ done.engine = e /\ done.answer \in Answer
        /\ done.answer.result = "success" /\ done.answer.value = "none"
    BY GivesIs, Words
  <2> HIDE DEF e, done
  <2>6. QED
    BY <1>4, <2>1, <2>2, <2>3, <2>4, <2>5 DEF Handled
<1>5. QED
  BY <1>2, <1>3, <1>4, RequestShape

LEMMA DisconnectGives ==
  ASSUME NEW o \in Engine, NEW r \in Requests, r.object = "disconnect", r.op \in {"get", "set"}
  PROVE  Handled(o, r, IF r.op = "get" THEN DisconnectGet(o, r) ELSE DisconnectSet(o, r))
<1>1. r.item \in {"output_state", "control_state", "control_mode"}
  BY RequestShape
<1>2. /\ "success" \in Result /\ "read_write_denied" \in Result /\ "temporary_failure" \in Result
      /\ "none" \in Told
      /\ o.m_connected \in Told /\ o.m_ControlState \in Told /\ o.m_ControlMode \in Told
  BY DEF Engine, Told, Result
<1>3. CASE r.op = "get"
  <2>1. CASE r.item = "output_state"
    BY <1>2, <1>3, <2>1, OnlyTells DEF DisconnectGet, Success
  <2>2. CASE r.item = "control_state"
    BY <1>2, <1>3, <2>2, OnlyTells DEF DisconnectGet, Success
  <2>3. CASE r.item = "control_mode"
    BY <1>2, <1>3, <2>3, OnlyTells DEF DisconnectGet, Success
  <2>4. QED
    BY <1>1, <2>1, <2>2, <2>3
<1>4. CASE r.op = "set"
  <2>1. \/ DisconnectSet(o, r) = Gives(o, "read_write_denied", "none")
        \/ DisconnectSet(o, r) = Gives(o, "temporary_failure", "none")
        \/ DisconnectSet(o, r) = Gives(o, "success", "none")
    BY DEF DisconnectSet, Fails, Success
  <2>2. QED
    BY <1>1, <1>2, <1>4, <2>1, OnlyTells
<1>5. QED
  BY <1>3, <1>4

LEMMA ServiceGives ==
  ASSUME NEW o \in Engine, NEW r \in Requests, r.object = "disconnect",
         r.item \in {"remote_disconnect", "remote_reconnect"}
  PROVE  Handled(o, r, IF r.item = "remote_disconnect" THEN RemoteDisconnect(o)
                       ELSE RemoteReconnect(o))
<1>1. ASSUME NEW e \in Engine, e.m_connected = (r.item = "remote_reconnect"),
             e.m_Values = o.m_Values, e.status = o.status
      PROVE  Handled(o, r, Gives(e, "success", "none"))
  <2> DEFINE done == Gives(e, "success", "none")
  <2>1. done.engine = e /\ done.answer \in Answer /\ done.answer.result = "success"
    BY GivesIs, Words
  <2>2. r.op = "action" /\ r.object # "data" /\ r.object # "image" /\ r.item # "output_state"
    BY RequestShape
  <2> SUFFICES Handled(o, r, done)
    OBVIOUS
  <2> HIDE DEF done
  <2>3. \A item \in Items : done.engine.m_Values[item] = o.m_Values[item]
    BY <1>1, <2>1
  <2>4. done.engine.m_connected = (r.item = "remote_reconnect") /\ done.engine.status = o.status
    BY <1>1, <2>1, Zenon
  <2>5. QED
    BY <2>1, <2>2, <2>3, <2>4, Zenon DEF Handled
<1>2. CASE r.item = "remote_disconnect"
  <2> DEFINE e == [o EXCEPT !.m_connected = FALSE]
  <2>1. RemoteDisconnect(o) = Gives(e, "success", "none")
    <3>1. o.m_ControlMode = 2
      BY DEF Engine
    <3>2. QED
      BY <3>1 DEF RemoteDisconnect, Success
  <2>2. e \in Engine /\ e.m_connected = FALSE /\ e.m_Values = o.m_Values /\ e.status = o.status
    BY DEF Engine
  <2> HIDE DEF e
  <2>3. QED
    BY <1>1, <1>2, <2>1, <2>2
<1>3. CASE r.item = "remote_reconnect"
  <2> DEFINE e == [o EXCEPT !.m_ControlState = "connected", !.m_connected = TRUE]
  <2>1. RemoteReconnect(o) = Gives(e, "success", "none")
    <3>1. o.m_ControlMode = 2
      BY DEF Engine
    <3>2. QED
      BY <3>1 DEF RemoteReconnect, Success
  <2>2. e \in Engine /\ e.m_connected = TRUE /\ e.m_Values = o.m_Values /\ e.status = o.status
    BY DEF Engine
  <2> HIDE DEF e
  <2>3. QED
    BY <1>1, <1>3, <2>1, <2>2
<1>4. QED
  BY <1>2, <1>3

LEMMA ImageGives ==
  ASSUME NEW o \in Engine, NEW r \in Requests, r.object = "image"
  PROVE  Handled(o, r, IF r.op = "get" THEN ImageGet(o, r) ELSE ImageAction(o, r))
<1>1. "success" \in Result /\ "object_unavailable" \in Result /\ "none" \in Told
  BY DEF Result, Told
<1>2. CASE r.op = "get"
  <2>1. r.item \in {"block_size", "blocks_status", "first_not_transferred", "enabled",
                    "status", "to_activate_info"}
    BY <1>2, RequestShape
  <2>2. \/ ImageGet(o, r) = Gives(o, "object_unavailable", "none") /\ r.item # "status"
        \/ \E x \in Told : ImageGet(o, r) = Gives(o, "success", x)
                             /\ (r.item = "status" => x = o.status)
    <3>1. 512 \in Told /\ 0 \in Told /\ {} \in Told /\ TRUE \in Told /\ o.status \in Told
      <4>1. o.status \in {"not initiated", "initiated"}
        BY DEF Engine
      <4>2. 512 \in {0, 2, 512} /\ 0 \in {0, 2, 512}
        OBVIOUS
      <4>3. {"not initiated", "initiated"} \subseteq Told /\ {0, 2, 512} \subseteq Told
        BY DEF Told
      <4>4. {} \in Told /\ TRUE \in Told
        BY Zenon DEF Told
      <4>5. QED
        BY <4>1, <4>2, <4>3, <4>4
    <3>2. o.block_status = {} /\ o.first_not_transferred_block_number = 0
      BY DEF Engine
    <3>3. CASE r.item = "status"
      BY <3>1, <3>3 DEF ImageGet, Success
    <3>4. CASE r.item = "to_activate_info"
      BY <3>4 DEF ImageGet, Fails
    <3>5. CASE r.item \in {"block_size", "blocks_status", "first_not_transferred", "enabled"}
      <4>1. CASE r.item = "block_size"
        BY <3>1, <4>1 DEF ImageGet, Success
      <4>2. CASE r.item = "blocks_status"
        BY <3>1, <3>2, <4>2 DEF ImageGet, Success
      <4>3. CASE r.item = "first_not_transferred"
        BY <3>1, <3>2, <4>3 DEF ImageGet, Success
      <4>4. CASE r.item = "enabled"
        BY <3>1, <4>4 DEF ImageGet, Success
      <4>5. QED
        BY <3>5, <4>1, <4>2, <4>3, <4>4
    <3>6. QED
      BY <2>1, <3>3, <3>4, <3>5
  <2>3. r.item # "initiate"
    BY <2>1
  <2>4. QED
    BY <1>1, <1>2, <2>2, <2>3, OnlyTells
<1>3. CASE r.op # "get" /\ (r.item # "initiate" \/ r.arg = <<>>)
  <2>1. \/ ImageAction(o, r) = Gives(o, "object_unavailable", "none")
        \/ ImageAction(o, r) = Gives(o, "success", "none") /\ r.item # "initiate"
    BY <1>3 DEF ImageAction, Success, Fails
  <2>2. r.item # "status"
    BY <1>3, RequestShape
  <2>3. QED
    BY <1>1, <1>3, <2>1, <2>2, OnlyTells
<1>4. ASSUME r.op # "get", r.item = "initiate", NEW v \in Values, r.arg = <<v>>
      PROVE  Handled(o, r, ImageAction(o, r))
  <2> DEFINE e == [o EXCEPT !.status = "initiated", !.image_id = v, !.block_status = {},
                            !.first_not_transferred_block_number = 0]
             done == Gives(e, "success", "none")
  <2>1. ImageAction(o, r) = done
    <3>1. r.arg # <<>> /\ r.arg[1] = v
      BY <1>4
    <3>2. QED
      BY <1>4, <3>1 DEF ImageAction, Success
  <2>2. e \in Engine
    BY DEF Engine
  <2>3. e.status = "initiated" /\ e.m_Values = o.m_Values /\ e.m_connected = o.m_connected
    BY DEF Engine
  <2>4. done.engine = e /\ done.answer \in Answer /\ done.answer.result = "success"
    BY GivesIs, Words
  <2> HIDE DEF e, done
  <2>5. QED
    BY <1>4, <2>1, <2>2, <2>3, <2>4 DEF Handled
<1>5. QED
  BY <1>2, <1>3, <1>4, RequestShape

LEMMA HandleGives ==
  ASSUME NEW o \in Engine, NEW r \in Requests
  PROVE  Handled(o, r, Handle(o, r))
<1>1. CASE r.object = "data"
  <2>1. Handle(o, r) = Data(o, r)
    BY <1>1 DEF Handle
  <2>2. QED
    BY <1>1, <2>1, DataGives
<1>2. CASE r.object = "disconnect" /\ r.op \in {"get", "set"}
  <2>1. r.item \notin {"remote_disconnect", "remote_reconnect"}
    BY <1>2, RequestShape
  <2>2. Handle(o, r) = IF r.op = "get" THEN DisconnectGet(o, r) ELSE DisconnectSet(o, r)
    BY <1>2, <2>1 DEF Handle
  <2>3. QED
    BY <1>2, <2>2, DisconnectGives
<1>3. CASE r.object = "disconnect" /\ r.op = "action"
  <2>1. r.item \in {"remote_disconnect", "remote_reconnect"}
    BY <1>3, RequestShape
  <2>2. Handle(o, r) = IF r.item = "remote_disconnect" THEN RemoteDisconnect(o)
                       ELSE RemoteReconnect(o)
    BY <1>3, <2>1 DEF Handle
  <2>3. QED
    BY <1>3, <2>1, <2>2, ServiceGives
<1>4. CASE r.object = "image"
  <2>1. r.op \in {"get", "action"}
    BY <1>4, RequestShape
  <2>2. Handle(o, r) = IF r.op = "get" THEN ImageGet(o, r) ELSE ImageAction(o, r)
    BY <1>4, <2>1 DEF Handle
  <2>3. QED
    BY <1>4, <2>2, ImageGives
<1>5. CASE r.object = "clock"
  <2>1. Handle(o, r) = Clock(o, r)
    BY <1>5 DEF Handle
  <2>2. \/ Handle(o, r) = Gives(o, "success", "now")
        \/ Handle(o, r) = Gives(o, "object_unavailable", "none")
    BY <2>1 DEF Clock, Success, Fails
  <2>3. {"success", "object_unavailable"} \subseteq Result /\ {"now", "none"} \subseteq Told
    BY DEF Result, Told
  <2>4. QED
    BY <1>5, <2>2, <2>3, OnlyTells
<1>6. QED
  BY <1>1, <1>2, <1>3, <1>4, <1>5, RequestShape
-----------------------------------------------------------------------------
(* Logs.                                                                   *)

Same(q, a, q2, a2, k) ==
  /\ \A item : Value(q2, a2, k, item) = Value(q, a, k, item)
  /\ Connected(q2, a2, k) = Connected(q, a, k)
  /\ Status(q2, a2, k) = Status(q, a, k)

(* What the k-th answer has to be depends on the log before k only.        *)
LEMMA SameBefore ==
  ASSUME NEW q, NEW a, NEW q2, NEW a2, NEW k \in Nat \ {0},
         \A i \in 1..(k - 1) : q2[i] = q[i], \A i \in 1..(k - 1) : a2[i] = a[i]
  PROVE  Same(q, a, q2, a2, k)
<1>1. \A object, name : Done(q2, a2, k, object, name) = Done(q, a, k, object, name)
  BY DEF Done
<1>2. ASSUME NEW item
      PROVE  Value(q2, a2, k, item) = Value(q, a, k, item)
  <2> DEFINE S == Sets(q, a, k, item)
  <2>1. Sets(q2, a2, k, item) = S /\ S \in SUBSET (1..(k - 1)) /\ k - 1 \in Nat
    BY DEF Sets
  <2>2. CASE S = {}
    BY <2>1, <2>2 DEF Value
  <2>3. CASE S # {}
    <3> HIDE DEF S
    <3>1. Max(S) \in 1..(k - 1)
      BY <2>1, <2>3, MaxIs
    <3>2. q2[Max(S)] = q[Max(S)]
      BY <3>1
    <3>3. QED
      BY <2>1, <2>3, <3>2 DEF Value, S
  <2>4. QED
    BY <2>2, <2>3
<1>3. QED
  BY <1>1, <1>2 DEF Connected, Status, Same

LEMMA OwnBefore ==
  ASSUME NEW q, NEW a, NEW q2, NEW a2, NEW k \in Nat \ {0},
         \A i \in 1..k : q2[i] = q[i] /\ a2[i] = a[i], OwnAnswer(q, a, k)
  PROVE  OwnAnswer(q2, a2, k)
<1>1. q2[k] = q[k] /\ a2[k] = a[k] /\ \A i \in 1..(k - 1) : q2[i] = q[i] /\ a2[i] = a[i]
  OBVIOUS
<1>2. Same(q, a, q2, a2, k)
  BY <1>1, SameBefore
<1>3. QED
  BY <1>1, <1>2, Zenon DEF OwnAnswer, Same

(* A further request changes neither what was answered nor what it means.  *)
LEMMA AskKeeps ==
  ASSUME NEW q, NEW a \in Seq(Answer), NEW q2, \A i \in 1..Len(a) : q2[i] = q[i]
  PROVE  /\ \A o : Reflects(o, q, a) => Reflects(o, q2, a)
         /\ \A k \in 1..Len(a) : OwnAnswer(q, a, k) => OwnAnswer(q2, a, k)
<1>1. Len(a) \in Nat
  BY LenProperties
<1>2. ASSUME NEW o, Reflects(o, q, a) PROVE Reflects(o, q2, a)
  <2>1. PICK k \in Nat \ {0} : k = Len(a) + 1
    BY <1>1
  <2>2. \A i \in 1..(k - 1) : q2[i] = q[i]
    BY <1>1, <2>1
  <2>3. Same(q, a, q2, a, k)
    BY <2>1, <2>2, SameBefore
  <2>4. QED
    BY <1>2, <2>1, <2>3, Zenon DEF Reflects, Same
<1>3. ASSUME NEW k \in 1..Len(a), OwnAnswer(q, a, k) PROVE OwnAnswer(q2, a, k)
  <2>1. k \in Nat \ {0} /\ \A i \in 1..k : q2[i] = q[i]
    BY <1>1
  <2>2. QED
    BY <1>3, <2>1, OwnBefore
<1>4. QED
  BY <1>2, <1>3

(* An answer is what the requests before it make it, and the objects       *)
(* afterwards are what it and they have made them.                         *)
LEMMA AnswerIsOwn ==
  ASSUME NEW q \in Seq(Requests), NEW a \in Seq(Answer), Len(a) < Len(q), NEW o, NEW done,
         Reflects(o, q, a), Handled(o, q[Len(a) + 1], done)
  PROVE  /\ \A k \in 1..Len(a) : OwnAnswer(q, a, k) => OwnAnswer(q, Append(a, done.answer), k)
         /\ OwnAnswer(q, Append(a, done.answer), Len(a) + 1)
         /\ Reflects(done.engine, q, Append(a, done.answer))
<1> DEFINE b == Append(a, done.answer)
           n == Len(a) + 1
           e == done.engine
<1>1. done.answer \in Answer /\ e \in Engine
  BY DEF Handled
<1>2. /\ Len(a) \in Nat /\ n \in Nat \ {0} /\ Len(b) = n /\ n - 1 = Len(a) /\ n \in 1..Len(q)
      /\ b[n] = done.answer /\ \A i \in 1..(n - 1) : b[i] = a[i]
  BY <1>1, LenProperties, AppendProperties
<1>3. /\ \A item \in Items : o.m_Values[item] = Value(q, a, n, item)
      /\ o.m_connected = Connected(q, a, n)
      /\ o.status = Status(q, a, n)
  BY DEF Reflects
<1>4. q[n] \in Requests /\ Handled(o, q[n], done)
  BY <1>2, ElementOfSeq
<1> SUFFICES /\ \A k \in 1..Len(a) : OwnAnswer(q, a, k) => OwnAnswer(q, b, k)
             /\ OwnAnswer(q, b, n)
             /\ Reflects(e, q, b)
  OBVIOUS
<1> HIDE DEF b, n, e
<1>5. Same(q, a, q, b, n)
  BY <1>2, SameBefore
<1>6. ASSUME NEW k \in 1..Len(a), OwnAnswer(q, a, k) PROVE OwnAnswer(q, b, k)
  <2>1. k \in Nat \ {0} /\ \A i \in 1..k : q[i] = q[i] /\ b[i] = a[i]
    BY <1>2
  <2>2. QED
    BY <1>6, <2>1, OwnBefore
<1>7. OwnAnswer(q, b, n)
  <2>1. q[n].object = "data" => q[n].item \in Items
    BY <1>4, RequestShape
  <2>2. /\ q[n].object = "data" /\ q[n].op = "get" => b[n].value = o.m_Values[q[n].item]
        /\ q[n].object = "disconnect" /\ q[n].item = "output_state" /\ q[n].op = "get"
             => b[n].value = o.m_connected
        /\ q[n].object = "image" /\ q[n].item = "status" => b[n].value = o.status
    BY <1>2, <1>4 DEF Handled
  <2>3. QED
    BY <1>3, <1>5, <2>1, <2>2, Zenon DEF OwnAnswer, Same
<1>8. Reflects(e, q, b)
  <2>1. \A i : i \in 1..(n + 1 - 1) <=> i \in 1..(n - 1) \/ i = n
    BY <1>2
  <2>2. ASSUME NEW item \in Items PROVE e.m_Values[item] = Value(q, b, n + 1, item)
    <3> DEFINE matches == /\ q[n].object = "data" /\ q[n].op = "set" /\ q[n].item = item
                          /\ b[n].result = "success"
    <3>1. e.m_Values[item] = IF matches THEN q[n].arg[1] ELSE o.m_Values[item]
      BY <1>2, <1>4 DEF Handled, e
    <3>2. CASE matches
      <4>1. n \in Sets(q, b, n + 1, item)
        BY <2>1, <3>2 DEF Sets
      <4>2. Sets(q, b, n + 1, item) \in SUBSET Nat /\ \A i \in Sets(q, b, n + 1, item) : i <= n
        BY <1>2 DEF Sets
      <4>3. Max(Sets(q, b, n + 1, item)) = n
        BY <4>1, <4>2, MaxOf
      <4>4. QED
        BY <3>1, <3>2, <4>1, <4>3 DEF Value
    <3>3. CASE ~ matches
      <4>1. Sets(q, b, n + 1, item) = Sets(q, b, n, item)
        <5>1. \A i : i \in Sets(q, b, n + 1, item) <=> i \in Sets(q, b, n, item)
          BY <1>2, <3>3 DEF Sets
        <5>2. QED
          BY <5>1
      <4>2. Value(q, b, n + 1, item) = Value(q, b, n, item)
        BY <4>1, Zenon DEF Value
      <4>3. QED
        BY <1>3, <1>5, <3>1, <3>3, <4>2 DEF Same
    <3>4. QED
      BY <3>2, <3>3
  <2>3. ASSUME NEW object, NEW name
        PROVE  LET matches == q[n].object = object /\ q[n].item = name /\ b[n].result = "success"
               IN  /\ matches => n \in Done(q, b, n + 1, object, name)
                   /\ ~ matches => Done(q, b, n + 1, object, name) = Done(q, b, n, object, name)
    <3> DEFINE matches == q[n].object = object /\ q[n].item = name /\ b[n].result = "success"
    <3>1. ASSUME ~ matches
          PROVE  \A i : i \in Done(q, b, n + 1, object, name) <=> i \in Done(q, b, n, object, name)
      BY <1>2, <3>1 DEF Done
    <3>2. matches => n \in Done(q, b, n + 1, object, name)
      BY <2>1 DEF Done
    <3>3. QED
      BY <3>1, <3>2
  <2>4. e.m_connected = Connected(q, b, n + 1)
    <3> DEFINE off == Done(q, b, n, "disconnect", "remote_disconnect")
               on == Done(q, b, n, "disconnect", "remote_reconnect")
    <3>1. off \subseteq 1..(n - 1) /\ on \subseteq 1..(n - 1)
      BY DEF Done
    <3>2. CASE q[n].object = "disconnect" /\ q[n].item = "remote_disconnect"
      <4>1. b[n].result = "success" /\ e.m_connected = FALSE
        BY <1>2, <1>4, <3>2 DEF Handled, e
      <4>2. /\ n \in Done(q, b, n + 1, "disconnect", "remote_disconnect")
            /\ Done(q, b, n + 1, "disconnect", "remote_reconnect") = on
        BY <2>3, <3>2, <4>1
      <4>3. ~ \E j \in on : n < j
        BY <1>2, <3>1
      <4>4. ~ Connected(q, b, n + 1)
        BY <4>2, <4>3 DEF Connected
      <4>5. QED
        BY <4>1, <4>4 DEF Connected
    <3>3. CASE q[n].object = "disconnect" /\ q[n].item = "remote_reconnect"
      <4>1. b[n].result = "success" /\ e.m_connected = TRUE
        BY <1>2, <1>4, <3>3 DEF Handled, e
      <4>2. /\ n \in Done(q, b, n + 1, "disconnect", "remote_reconnect")
            /\ Done(q, b, n + 1, "disconnect", "remote_disconnect") = off
        BY <2>3, <3>3, <4>1
      <4>3. \A i \in off : i < n
        BY <1>2, <3>1
      <4>4. Connected(q, b, n + 1)
        BY <4>2, <4>3 DEF Connected
      <4>5. QED
        BY <4>1, <4>4 DEF Connected
    <3>4. CASE ~ (q[n].object = "disconnect" /\ q[n].item \in {"remote_disconnect", "remote_reconnect"})
      <4>1. e.m_connected = o.m_connected
        BY <1>4, <3>4 DEF Handled, e
      <4>2. /\ Done(q, b, n + 1, "disconnect", "remote_disconnect") = off
            /\ Done(q, b, n + 1, "disconnect", "remote_reconnect") = on
        BY <2>3, <3>4
      <4>3. Connected(q, b, n + 1) = Connected(q, b, n)
        BY <4>2 DEF Connected
      <4>4. QED
        BY <1>3, <1>5, <4>1, <4>3, Zenon DEF Same
    <3>5. QED
      BY <3>2, <3>3, <3>4
  <2>5. e.status = Status(q, b, n + 1)
    <3>1. e.status = IF q[n].object = "image" /\ q[n].item = "initiate" /\ b[n].result = "success"
                     THEN "initiated" ELSE Status(q, b, n)
      BY <1>2, <1>3, <1>4, <1>5 DEF Handled, Same, e
    <3>2. QED
      BY <2>3, <3>1 DEF Status
  <2>6. QED
    BY <1>2, <2>2, <2>4, <2>5, Zenon DEF Reflects
<1>9. QED
  BY <1>6, <1>7, <1>8

LEMMA NewObjectsAreNew ==
  /\ NewObjects \in Engine
  /\ \A q : Reflects(NewObjects, q, <<>>)
<1>1. NewObjects \in Engine
  BY DEF NewObjects, Engine, Stored
<1>2. ASSUME NEW q PROVE Reflects(NewObjects, q, <<>>)
  <2>1. Len(<<>>) + 1 = 1
    BY EmptySeq
  <2>2. /\ \A item : Sets(q, <<>>, 1, item) = {}
        /\ \A object, name : Done(q, <<>>, 1, object, name) = {}
    BY DEF Sets, Done
  <2>3. /\ \A item : Value(q, <<>>, 1, item) = "default"
        /\ Connected(q, <<>>, 1) = TRUE
        /\ Status(q, <<>>, 1) = "not initiated"
    BY <2>2 DEF Value, Connected, Status
  <2>4. /\ \A item \in Items : NewObjects.m_Values[item] = "default"
        /\ NewObjects.m_connected = TRUE
        /\ NewObjects.status = "not initiated"
    BY DEF NewObjects
  <2>5. QED
    BY <2>1, <2>3, <2>4 DEF Reflects
<1>3. QED
  BY <1>1, <1>2
-----------------------------------------------------------------------------
(* The steps.                                                              *)

LEMMA InitIInv == Init => IInv
<1> SUFFICES ASSUME Init PROVE IInv
  OBVIOUS
<1>1. Types
  BY BoundsAssumption, NewObjectsAreNew DEF Init, Types, Everyone
<1>2. \A c \in Clients : /\ phase[c] = "idle" /\ line[c] = "open"
                        /\ asked[c] = <<>> /\ answered[c] = <<>>
  BY DEF Init, Everyone
<1>3. Waiting
  BY <1>2 DEF Init, Waiting
<1>4. Serving /\ Resets
  BY <1>2 DEF Init, Serving, Resets
<1>5. Objects
  BY <1>2 DEF Init, Objects
<1>6. QED
  BY <1>1, <1>3, <1>4, <1>5 DEF IInv

(* Whatever ends a turn, or the process, leaves nobody connected.          *)
LEMMA TurnAwayStep ==
  ASSUME IInv, TurnEveryoneAway, meter' \in {"starting", "dead"}, meter' = "dead" => resets > 0
  PROVE  IInv'
<1>1. backlog' = <<>> /\ UNCHANGED <<engine, connections, resets>>
  BY DEF TurnEveryoneAway, counters
<1>2. \A c \in Clients : /\ phase'[c] = "idle" /\ line'[c] = "open"
                        /\ asked'[c] = <<>> /\ answered'[c] = <<>>
  BY DEF TurnEveryoneAway, Everyone
<1>3. Types'
  <2>1. /\ phase' \in [Clients -> {"idle", "queued", "served"}]
        /\ line' \in [Clients -> {"open", "closed", "reset"}]
        /\ asked' \in [Clients -> Seq(Requests)] /\ answered' \in [Clients -> Seq(Answer)]
    BY DEF TurnEveryoneAway, Everyone
  <2>2. QED
    BY <1>1, <2>1 DEF IInv, Types
<1>4. Waiting'
  BY <1>1, <1>2 DEF Waiting
<1>5. Serving' /\ Resets'
  BY <1>1, <1>2 DEF Serving, Resets
<1>6. Objects'
  BY <1>2 DEF Objects
<1>7. QED
  BY <1>3, <1>4, <1>5, <1>6 DEF IInv

LEMMA ListenStep == ASSUME IInv, Listen PROVE IInv'
<1>1. /\ meter = "starting" /\ meter' = "listening" /\ engine' = NewObjects
      /\ UNCHANGED <<backlog, phase, line, asked, answered, connections, resets>>
  BY DEF Listen, clients, logs, counters
<1>2. Types'
  BY <1>1, NewObjectsAreNew DEF IInv, Types
<1>3. Waiting' /\ Serving' /\ Resets'
  BY <1>1 DEF IInv, Waiting, Serving, Resets
<1>4. Objects'
  <2>1. \A c \in Clients : phase[c] # "served"
    BY <1>1 DEF IInv, Serving
  <2>2. QED
    BY <1>1, <2>1 DEF IInv, Objects
<1>5. QED
  BY <1>2, <1>3, <1>4 DEF IInv

LEMMA AcceptStep == ASSUME IInv, Accept PROVE IInv'
<1>1. backlog \in Seq(Clients) /\ backlog # <<>>
  BY DEF Accept, IInv, Types
<1>2. /\ Len(backlog) \in Nat /\ 1 \in 1..Len(backlog) /\ Head(backlog) = backlog[1]
      /\ Head(backlog) \in Clients
      /\ Tail(backlog) \in Seq(Clients) /\ Len(Tail(backlog)) = Len(backlog) - 1
      /\ \A i \in 1..Len(Tail(backlog)) : Tail(backlog)[i] = backlog[i + 1]
  BY <1>1, HeadTailProperties, LenProperties, EmptySeq
<1>3. CASE line[Head(backlog)] = "reset"
  <2>1. meter' = "dead" /\ TurnEveryoneAway
    BY <1>3 DEF Accept
  <2>2. resets > 0
    BY <1>2, <1>3 DEF IInv, Resets
  <2>3. QED
    BY <2>1, <2>2, TurnAwayStep
<1>4. CASE line[Head(backlog)] # "reset"
  <2>1. PICK c \in Clients : c = Head(backlog)
    BY <1>2
  <2>2. /\ meter = "listening" /\ meter' = "serving" /\ backlog' = Tail(backlog)
        /\ phase' = [phase EXCEPT ![c] = "served"]
        /\ UNCHANGED <<engine, line, asked, answered, connections, resets>>
    BY <1>4, <2>1 DEF Accept, logs, counters
  <2>3. phase'[c] = "served" /\ \A d \in Clients \ {c} : phase'[d] = phase[d]
    BY <2>2 DEF IInv, Types
  <2>4. phase[c] = "queued" /\ \A d \in Clients : phase[d] # "served"
    BY <1>2, <2>1, <2>2 DEF IInv, Waiting, Serving
  <2>5. Types'
    BY <1>2, <2>2 DEF IInv, Types
  <2>6. Waiting'
    <3>1. ASSUME NEW d \in Clients
          PROVE  phase'[d] = "queued" <=> \E i \in 1..Len(backlog') : backlog'[i] = d
      <4>1. CASE d = c
        <5>1. \A i \in 1..Len(backlog') : i + 1 \in 1..Len(backlog) /\ i + 1 # 1
          BY <1>2, <2>2
        <5>2. \A i \in 1..Len(backlog') : backlog'[i] # c
          BY <1>2, <2>1, <2>2, <5>1 DEF IInv, Waiting
        <5>3. QED
          BY <2>3, <4>1, <5>2
      <4>2. CASE d # c
        <5>1. ASSUME NEW i \in 1..Len(backlog), backlog[i] = d
              PROVE  \E j \in 1..Len(backlog') : backlog'[j] = d
          <6>1. i # 1
            BY <1>2, <2>1, <4>2, <5>1
          <6>2. i - 1 \in 1..Len(backlog') /\ backlog'[i - 1] = backlog[i]
            BY <1>2, <2>2, <6>1
          <6>3. QED
            BY <5>1, <6>2
        <5>2. ASSUME NEW j \in 1..Len(backlog'), backlog'[j] = d
              PROVE  \E i \in 1..Len(backlog) : backlog[i] = d
          <6>1. j + 1 \in 1..Len(backlog) /\ backlog[j + 1] = d
            BY <1>2, <2>2, <5>2
          <6>2. QED
            BY <6>1
        <5>3. QED
          BY <2>3, <4>2, <5>1, <5>2 DEF IInv, Waiting
      <4>3. QED
        BY <4>1, <4>2
    <3>2. ASSUME NEW i \in 1..Len(backlog'), NEW j \in 1..Len(backlog'), backlog'[i] = backlog'[j]
          PROVE  i = j
      <4>1. i + 1 \in 1..Len(backlog) /\ j + 1 \in 1..Len(backlog) /\ backlog[i + 1] = backlog[j + 1]
        BY <1>2, <2>2, <3>2
      <4>2. i + 1 = j + 1
        BY <4>1 DEF IInv, Waiting
      <4>3. QED
        BY <4>2
    <3>3. QED
      BY <2>2, <3>1, <3>2 DEF Waiting
  <2>7. Serving'
    BY <2>2, <2>3, <2>4 DEF Serving
  <2>8. Objects'
    <3>1. engine = NewObjects /\ answered[c] = <<>>
      BY <2>2, <2>4 DEF IInv, Objects
    <3>2. Reflects(engine', asked'[c], answered'[c])
      BY <2>2, <3>1, NewObjectsAreNew
    <3>3. QED
      BY <2>2, <2>3, <2>4, <3>2 DEF IInv, Objects
  <2>9. Resets'
    BY <2>2 DEF IInv, Resets
  <2>10. QED
    BY <2>5, <2>6, <2>7, <2>8, <2>9 DEF IInv
<1>5. QED
  BY <1>3, <1>4

LEMMA ServeStep == ASSUME IInv, NEW c \in Clients, Serve(c) PROVE IInv'
<1> DEFINE n == Len(answered[c])
           done == Handle(engine, asked[c][n + 1])
<1>1. /\ phase[c] = "served" /\ n < Len(asked[c]) /\ engine' = done.engine
      /\ answered' = [answered EXCEPT ![c] = Append(answered[c], done.answer)]
      /\ UNCHANGED <<meter, backlog, phase, line, asked, connections, resets>>
  BY DEF Serve, clients, counters
<1>2. /\ asked[c] \in Seq(Requests) /\ answered[c] \in Seq(Answer) /\ engine \in Engine
      /\ n \in Nat /\ Len(asked[c]) \in Nat
  BY LenProperties DEF IInv, Types
<1>3. n + 1 \in 1..Len(asked[c])
  BY <1>1, <1>2
<1>4. asked[c][n + 1] \in Requests
  BY <1>2, <1>3, ElementOfSeq
<1>5. Handled(engine, asked[c][n + 1], done)
  BY <1>2, <1>4, HandleGives
<1>6. done.engine \in Engine /\ done.answer \in Answer
  BY <1>5 DEF Handled
<1> HIDE DEF done
<1>7. /\ answered'[c] = Append(answered[c], done.answer)
      /\ \A d \in Clients \ {c} : answered'[d] = answered[d]
  BY <1>1 DEF IInv, Types
<1>8. answered'[c] \in Seq(Answer) /\ Len(answered'[c]) = n + 1
  BY <1>2, <1>6, <1>7, AppendProperties
<1>9. Types'
  <2>1. answered' \in [Clients -> Seq(Answer)]
    BY <1>1, <1>7, <1>8 DEF IInv, Types
  <2>2. QED
    BY <1>1, <1>6, <2>1 DEF IInv, Types
<1>10. Waiting' /\ Serving' /\ Resets'
  BY <1>1 DEF IInv, Waiting, Serving, Resets
<1>11. Objects'
  <2>1. meter' # "listening"
    BY <1>1 DEF IInv, Serving
  <2>2. Reflects(engine, asked[c], answered[c])
    BY <1>1 DEF IInv, Objects
  <2>3. /\ \A k \in 1..n : OwnAnswer(asked[c], answered[c], k) => OwnAnswer(asked[c], answered'[c], k)
        /\ OwnAnswer(asked[c], answered'[c], n + 1)
        /\ Reflects(engine', asked[c], answered'[c])
    BY <1>1, <1>2, <1>5, <1>7, <2>2, AnswerIsOwn
  <2>4. \A k \in 1..n : OwnAnswer(asked[c], answered[c], k)
    BY DEF IInv, Objects
  <2>5. \A k \in 1..Len(answered'[c]) : OwnAnswer(asked'[c], answered'[c], k)
    <3>1. \A k \in 1..(n + 1) : k \in 1..n \/ k = n + 1
      BY <1>2
    <3>2. QED
      BY <1>1, <1>8, <2>3, <2>4, <3>1
  <2>6. \A d \in Clients \ {c} : phase[d] # "served"
    BY <1>1 DEF IInv, Serving
  <2>7. Len(answered'[c]) <= Len(asked'[c])
    BY <1>1, <1>2, <1>8
  <2>8. ASSUME NEW d \in Clients
        PROVE  /\ Len(answered[d]) <= Len(asked[d])
               /\ phase[d] # "served" => answered[d] = <<>>
               /\ phase[d] = "served" => Reflects(engine, asked[d], answered[d])
               /\ \A k \in 1..Len(answered[d]) : OwnAnswer(asked[d], answered[d], k)
    BY DEF IInv, Objects
  <2>9. ASSUME NEW d \in Clients
        PROVE  /\ Len(answered'[d]) <= Len(asked'[d])
               /\ phase'[d] # "served" => answered'[d] = <<>>
               /\ phase'[d] = "served" => Reflects(engine', asked'[d], answered'[d])
               /\ \A k \in 1..Len(answered'[d]) : OwnAnswer(asked'[d], answered'[d], k)
    <3>1. CASE d = c
      BY <1>1, <2>3, <2>5, <2>7, <3>1
    <3>2. CASE d # c
      <4>1. answered'[d] = answered[d] /\ asked'[d] = asked[d] /\ phase'[d] = phase[d]
        BY <1>1, <1>7, <3>2
      <4>2. phase[d] # "served"
        BY <2>6, <3>2
      <4>3. QED
        BY <2>8, <4>1, <4>2
    <3>3. QED
      BY <3>1, <3>2
  <2>10. QED
    BY <2>1, <2>9 DEF Objects
<1>12. QED
  BY <1>9, <1>10, <1>11 DEF IInv

LEMMA SessionEndsStep == ASSUME IInv, NEW c \in Clients, SessionEnds(c) PROVE IInv'
BY TurnAwayStep DEF SessionEnds

LEMMA ConnectStep == ASSUME IInv, NEW c \in Clients, Connect(c) PROVE IInv'
<1>1. /\ phase[c] = "idle" /\ connections < MaxConnections /\ connections' = connections + 1
      /\ UNCHANGED <<meter, engine, line, asked, answered, resets>>
  BY DEF Connect, logs
<1>2. connections' \in 0..MaxConnections
  BY <1>1, BoundsAssumption DEF IInv, Types
<1>3. CASE meter \notin {"listening", "serving"}
  <2>1. UNCHANGED <<backlog, phase>>
    BY <1>3 DEF Connect
  <2>2. QED
    BY <1>1, <1>2, <2>1 DEF IInv, Types, Waiting, Serving, Objects, Resets
<1>4. CASE meter \in {"listening", "serving"}
  <2>1. backlog' = Append(backlog, c) /\ phase' = [phase EXCEPT ![c] = "queued"]
    BY <1>4 DEF Connect
  <2>2. phase'[c] = "queued" /\ \A d \in Clients \ {c} : phase'[d] = phase[d]
    BY <2>1 DEF IInv, Types
  <2>3. /\ backlog' \in Seq(Clients) /\ Len(backlog') = Len(backlog) + 1 /\ Len(backlog) \in Nat
        /\ backlog'[Len(backlog) + 1] = c /\ \A i \in 1..Len(backlog) : backlog'[i] = backlog[i]
    BY <2>1, AppendProperties, LenProperties DEF IInv, Types
  <2>4. Types'
    BY <1>1, <1>2, <2>1, <2>3 DEF IInv, Types
  <2>5. Waiting'
    <3>1. /\ \A i \in 1..Len(backlog') : i \in 1..Len(backlog) \/ i = Len(backlog) + 1
          /\ Len(backlog) + 1 \in 1..Len(backlog')
          /\ \A i \in 1..Len(backlog) : i \in 1..Len(backlog')
      BY <2>3
    <3>2. \A i \in 1..Len(backlog) : backlog[i] # c
      BY <1>1 DEF IInv, Waiting
    <3>3. ASSUME NEW d \in Clients
          PROVE  phase'[d] = "queued" <=> \E i \in 1..Len(backlog') : backlog'[i] = d
      BY <2>2, <2>3, <3>1 DEF IInv, Waiting
    <3>4. \A i, j \in 1..Len(backlog') : backlog'[i] = backlog'[j] => i = j
      BY <2>3, <3>1, <3>2 DEF IInv, Waiting
    <3>5. QED
      BY <1>1, <1>4, <3>3, <3>4 DEF Waiting
  <2>6. Serving'
    BY <1>1, <2>2 DEF IInv, Serving
  <2>7. Objects'
    BY <1>1, <2>2 DEF IInv, Objects
  <2>8. Resets'
    BY <1>1 DEF IInv, Resets
  <2>9. QED
    BY <2>4, <2>5, <2>6, <2>7, <2>8 DEF IInv
<1>5. QED
  BY <1>3, <1>4

LEMMA AskStep == ASSUME IInv, NEW c \in Clients, Ask(c) PROVE IInv'
<1>1. PICK r \in Requests : asked' = [asked EXCEPT ![c] = Append(asked[c], r)]
  BY DEF Ask
<1>2. UNCHANGED <<meter, engine, backlog, phase, line, answered, connections, resets>>
  BY DEF Ask, clients, counters
<1>3. /\ asked'[c] = Append(asked[c], r)
      /\ \A d \in Clients \ {c} : asked'[d] = asked[d]
  BY <1>1 DEF IInv, Types
<1>4. /\ asked[c] \in Seq(Requests) /\ answered[c] \in Seq(Answer)
      /\ Len(asked[c]) \in Nat /\ Len(answered[c]) \in Nat /\ Len(answered[c]) <= Len(asked[c])
  BY LenProperties DEF IInv, Types, Objects
<1>5. /\ asked'[c] \in Seq(Requests) /\ Len(asked'[c]) = Len(asked[c]) + 1
      /\ \A i \in 1..Len(answered[c]) : asked'[c][i] = asked[c][i]
  BY <1>3, <1>4, AppendProperties
<1>6. Types'
  <2>1. asked' \in [Clients -> Seq(Requests)]
    BY <1>1, <1>3, <1>5 DEF IInv, Types
  <2>2. QED
    BY <1>2, <2>1 DEF IInv, Types
<1>7. Waiting' /\ Serving' /\ Resets'
  BY <1>2 DEF IInv, Waiting, Serving, Resets
<1>8. Objects'
  <2>1. /\ \A o : Reflects(o, asked[c], answered[c]) => Reflects(o, asked'[c], answered[c])
        /\ \A k \in 1..Len(answered[c]) :
             OwnAnswer(asked[c], answered[c], k) => OwnAnswer(asked'[c], answered[c], k)
    BY <1>4, <1>5, AskKeeps
  <2>2. Len(answered[c]) <= Len(asked'[c])
    BY <1>4, <1>5
  <2>3. QED
    BY <1>2, <1>3, <2>1, <2>2 DEF IInv, Objects
<1>9. QED
  BY <1>6, <1>7, <1>8 DEF IInv

LEMMA LeaveStep == ASSUME IInv, NEW c \in Clients, Leave(c) PROVE IInv'
<1>1. /\ line' = [line EXCEPT ![c] = "closed"]
      /\ UNCHANGED <<meter, engine, backlog, phase, asked, answered, connections, resets>>
  BY DEF Leave, logs, counters
<1>2. Types' /\ Resets'
  BY <1>1 DEF IInv, Types, Resets
<1>3. Waiting' /\ Serving' /\ Objects'
  BY <1>1 DEF IInv, Waiting, Serving, Objects
<1>4. QED
  BY <1>2, <1>3 DEF IInv

LEMMA ResetStep == ASSUME IInv, NEW c \in Clients, Reset(c) PROVE IInv'
<1>1. /\ line' = [line EXCEPT ![c] = "reset"] /\ resets < MaxResets /\ resets' = resets + 1
      /\ UNCHANGED <<meter, engine, backlog, phase, asked, answered, connections>>
  BY DEF Reset, logs
<1>2. resets' \in 0..MaxResets /\ resets' > 0
  BY <1>1, BoundsAssumption DEF IInv, Types
<1>3. Types' /\ Resets'
  BY <1>1, <1>2 DEF IInv, Types, Resets
<1>4. Waiting' /\ Serving' /\ Objects'
  BY <1>1 DEF IInv, Waiting, Serving, Objects
<1>5. QED
  BY <1>3, <1>4 DEF IInv

LEMMA QuietStep == ASSUME IInv, UNCHANGED vars PROVE IInv'
<1>1. UNCHANGED <<meter, engine, backlog, phase, line, asked, answered, connections, resets>>
  BY DEF vars, clients, logs, counters
<1>2. QED
  BY <1>1 DEF IInv, Types, Waiting, Serving, Objects, Resets

LEMMA IInvNext == IInv /\ [Next]_vars => IInv'
BY ListenStep, AcceptStep, ServeStep, SessionEndsStep, ConnectStep, AskStep, LeaveStep,
   ResetStep, QuietStep DEF Next, Client, Meter

LEMMA IInvAlways == Spec => []IInv
BY InitIInv, IInvNext, PTL DEF Spec
-----------------------------------------------------------------------------
(* The theorems.                                                           *)

(* The types of everything the loop of Metersim.cpp keeps; it serves one   *)
(* client at a time, and those that wait are in the backlog once each; the *)
(* accept handler throws for a reset connection only.                      *)
THEOREM TypeCorrect == Spec => []TypeOK
<1>1. IInv => TypeOK
  <2> SUFFICES ASSUME IInv PROVE TypeOK
    OBVIOUS
  <2>1. DOMAIN engine = DOMAIN NewObjects
    BY DEF IInv, Types, Engine, NewObjects
  <2>2. \A c \in Clients : asked[c] \in Seq(Requests) /\ Len(answered[c]) <= Len(asked[c])
    BY DEF IInv, Types, Objects
  <2>3. QED
    BY <2>1, <2>2 DEF IInv, Types, Waiting, Serving, Resets, TypeOK
<1>2. QED
  BY <1>1, IInvAlways, PTL

(* Whatever the other clients ask, and in whatever order they come and go, *)
(* a client is told what its own requests make the objects of server/: an  *)
(* engine is made for each turn of the loop and serves one connection.     *)
THEOREM ClientsAreApart == Spec => []AnswersAreOwn
<1>1. ASSUME NEW c, NEW k
      PROVE  /\ \A item : StoredBefore(c, k, item) = Value(asked[c], answered[c], k, item)
             /\ ConnectedBefore(c, k) = Connected(asked[c], answered[c], k)
             /\ StatusBefore(c, k) = Status(asked[c], answered[c], k)
  BY DEF StoredBefore, ConnectedBefore, StatusBefore, Acknowledged, Value, Connected, Status,
         Sets, Done
<1>2. IInv => AnswersAreOwn
  <2> SUFFICES ASSUME IInv, NEW c \in Clients, NEW k \in 1..Len(answered[c])
               PROVE  LET r == asked[c][k]  a == answered[c][k] IN
                        /\ r.object = "data" /\ r.op = "get" => a.value = StoredBefore(c, k, r.item)
                        /\ /\ r.object = "disconnect" /\ r.item = "output_state" /\ r.op = "get"
                           /\ ModesBefore(c, k) = {}
                           => a.value = ConnectedBefore(c, k)
                        /\ r.object = "image" /\ r.item = "status" => a.value = StatusBefore(c, k)
    BY DEF AnswersAreOwn
  <2>1. OwnAnswer(asked[c], answered[c], k)
    BY DEF IInv, Objects
  <2>2. QED
    BY <1>1, <2>1, Zenon DEF OwnAnswer
<1>3. QED
  BY <1>2, IInvAlways, PTL

-----------------------------------------------------------------------------
(* The steps of the meter are steps of the meter service.                  *)

(* The objects each client sees.                                           *)
Seen == [c \in Clients |-> IF phase[c] = "served" THEN engine ELSE NewObjects]

LEMMA ServiceInit == Init => Service!Init
<1> SUFFICES ASSUME Init PROVE Service!Init
  OBVIOUS
<1>1. \A c \in Clients : phase[c] = "idle"
  BY DEF Init, Everyone
<1>2. QED
  BY <1>1 DEF Init, Service!Init, Everyone

(* The end of a turn ends all connections.                                 *)
LEMMA ServiceEnd == ASSUME TurnEveryoneAway PROVE Service!End(Clients)
<1>1. \A c \in Clients : phase'[c] = "idle"
  BY DEF TurnEveryoneAway, Everyone
<1>2. QED
  BY <1>1 DEF TurnEveryoneAway, Everyone, Service!End

LEMMA ServiceServe ==
  ASSUME IInv, NEW c \in Clients, Serve(c)
  PROVE  Service!Answer(c)
<1> DEFINE r == asked[c][Len(answered[c]) + 1]
<1>1. /\ phase[c] = "served" /\ Len(answered[c]) < Len(asked[c])
      /\ engine' = Handle(engine, r).engine
      /\ answered' = [answered EXCEPT ![c] = Append(answered[c], Handle(engine, r).answer)]
      /\ asked' = asked /\ phase' = phase
  BY DEF Serve, clients
<1>2. \A d \in Clients \ {c} : phase[d] # "served"
  BY <1>1 DEF IInv, Serving
<1>3. Seen[c] = engine
  BY <1>1 DEF Seen
<1>4. Seen' = [Seen EXCEPT ![c] = Handle(Seen[c], r).engine]
  BY <1>1, <1>2, <1>3 DEF Seen
<1>5. QED
  BY <1>1, <1>3, <1>4 DEF Service!Answer, Seen

LEMMA ServiceStep == ASSUME IInv, [Next]_vars PROVE [Service!Next]_Service!vars
<1>1. ASSUME NEW c \in Clients, Connect(c) \/ Leave(c) \/ Reset(c) PROVE UNCHANGED Service!vars
  <2>1. UNCHANGED <<engine, asked, answered>>
    BY <1>1 DEF Connect, Leave, Reset, logs
  <2>2. phase' = phase \/ (phase[c] = "idle" /\ phase' = [phase EXCEPT ![c] = "queued"])
    BY <1>1 DEF Connect, Leave, Reset
  <2>3. \A d \in Clients : phase'[d] = "served" <=> phase[d] = "served"
    BY <2>2 DEF IInv, Types
  <2>4. Seen' = Seen
    BY <2>1, <2>3 DEF Seen
  <2>5. QED
    BY <2>1, <2>4 DEF Service!vars, Seen
<1>2. ASSUME NEW c \in Clients, Ask(c) PROVE Service!Ask(c)
  BY <1>2 DEF Ask, clients, Service!Ask
<1>3. CASE Listen
  <2>1. /\ \A d \in Clients : phase[d] # "served"
        /\ UNCHANGED <<phase, asked, answered>>
    BY <1>3 DEF Listen, clients, logs, IInv, Serving
  <2>2. Seen' = Seen
    BY <2>1 DEF Seen
  <2>3. QED
    BY <2>1, <2>2 DEF Service!vars, Seen
<1>4. CASE Accept
  <2>1. CASE TurnEveryoneAway
    BY <2>1, ServiceEnd DEF Service!Next
  <2>2. CASE ~ TurnEveryoneAway
    <3>1. /\ meter = "listening" /\ phase' = [phase EXCEPT ![Head(backlog)] = "served"]
          /\ UNCHANGED <<engine, asked, answered>>
      BY <1>4, <2>2 DEF Accept, logs
    <3>2. engine = NewObjects
      BY <3>1 DEF IInv, Objects
    <3>3. \A d \in Clients : phase'[d] = phase[d] \/ phase'[d] = "served"
      BY <3>1 DEF IInv, Types
    <3>4. \A d \in Clients : phase[d] # "served"
      BY <3>1 DEF IInv, Serving
    <3>5. Seen' = Seen
      BY <3>1, <3>2, <3>3, <3>4 DEF Seen
    <3>6. QED
      BY <3>1, <3>5 DEF Service!vars, Seen
  <2>3. QED
    BY <2>1, <2>2
<1>5. ASSUME NEW c \in Clients, SessionEnds(c) PROVE Service!Next
  BY <1>5, ServiceEnd DEF SessionEnds, Service!Next
<1>6. CASE UNCHANGED vars
  BY <1>6 DEF vars, clients, logs, Service!vars
<1>7. QED
  BY <1>1, <1>2, <1>3, <1>4, <1>5, <1>6, ServiceServe DEF Next, Client, Meter, Service!Next

(* To each client the meter is as if it had no other: the engine that      *)
(* Server_Handler makes for a turn implements one for every connection.    *)
THEOREM ServiceIsImplemented == Spec => ImplementsService
<1>1. IInv /\ [Next]_vars => [Service!Next]_Service!vars
  BY ServiceStep
<1>2. QED
  BY <1>1, ServiceInit, IInvAlways, PTL DEF Spec, ImplementsService, Service!Spec
=============================================================================
