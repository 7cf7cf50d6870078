---------------------------- MODULE AccessPoint ----------------------------
(***************************************************************************)
(* The Access Point simulator, src/src/APsim.cpp.  Two threads share one   *)
(* Config object:                                                          *)
(*   - main() reads the meters that Config names, one session after the    *)
(*     other, prints the readings, clears the list and sleeps;             *)
(*   - regs() accepts one connection at a time, reads one request from it  *)
(*     and lets Config::interpret replace the size and the meter list.     *)
(* Every method of Config holds mtx_ for one copy or one swap, so each is  *)
(* one step here; what is interleaved is the sequence of such steps.  What *)
(* happens inside a meter session is the subject of ClientSession.         *)
(***************************************************************************)
EXTENDS Naturals, Sequences

CONSTANTS
  Meters,        \* addresses of meters
  CutName,       \* an address cut short by the end of the receive buffer
  Requests,      \* the requests that head-end systems may send
  BufferNames,   \* whole meter names that fit into data_[max_length]
  MaxRequests,   \* bound: connections opened to the Access Point
  Resets         \* whether a peer may reset a connection not yet accepted

Payload == {"small", "medium", "large"}
Names == Meters \cup {CutName}
Request == [size : Payload, meters : Seq(Names)]
Reading == [meter : Names, size : Payload]

ASSUME CutNameAssumption == CutName \notin Meters
ASSUME RequestsAssumption == Requests \subseteq [size : Payload, meters : Seq(Meters)]
ASSUME BoundsAssumption ==
  BufferNames \in Nat /\ MaxRequests \in Nat /\ Resets \in BOOLEAN

VARIABLES
  payload_size_, meters_,    \* the fields of the shared Config
  pc,                        \* where main() is
  meters, next,              \* runScript: its copy of the list, the loop's position
  result, meterdata,         \* runScript's readings so far; the array printed last
  backlog,                   \* connections that wait for accept, oldest first
  regs,                      \* where the regs() thread is
  data,                      \* the request handle_read gets to see, if any: a
                             \* sequence of at most one request
  opened,                    \* connections opened so far, for MaxRequests
  log, taken                 \* history: requests interpreted; how many of them
                             \* there were when main() copied the list

config == <<payload_size_, meters_>>
script == <<pc, meters, next, result, meterdata, taken>>
server == <<backlog, regs, data, opened>>
vars == <<payload_size_, meters_, pc, meters, next, result, meterdata,
          backlog, regs, data, opened, log, taken>>

Connection == [request : Requests, sent : BOOLEAN, reset : BOOLEAN]

Init ==
  /\ payload_size_ = "small" /\ meters_ = <<>>
  /\ pc = "top" /\ meters = <<>> /\ next = 1 /\ result = <<>> /\ meterdata = <<>>
  /\ backlog = <<>> /\ regs = "accepting" /\ data = <<>> /\ opened = 0
  /\ log = <<>> /\ taken = 0
-----------------------------------------------------------------------------
(* A head-end system's multiRead: connect, then write one request.         *)

Connect(r) ==
  /\ regs # "ended"
  /\ opened < MaxRequests
  /\ opened' = opened + 1
  /\ backlog' = Append(backlog, [request |-> r, sent |-> FALSE, reset |-> FALSE])
  /\ UNCHANGED <<config, script, regs, data, log>>

Send(i) ==
  /\ ~backlog[i].sent /\ ~backlog[i].reset
  /\ backlog' = [backlog EXCEPT ![i].sent = TRUE]
  /\ UNCHANGED <<config, script, regs, data, opened, log>>

Reset(i) ==
  /\ Resets /\ ~backlog[i].reset
  /\ backlog' = [backlog EXCEPT ![i].reset = TRUE]
  /\ UNCHANGED <<config, script, regs, data, opened, log>>
-----------------------------------------------------------------------------
(* The regs() thread.                                                      *)

(* What the single async_read_some can put into data_: the request, or as  *)
(* much of it as the buffer holds, its last name cut or not.               *)
InBuffer(r) ==
  IF Len(r.meters) <= BufferNames
  THEN {r}
  ELSE {[r EXCEPT !.meters = SubSeq(@, 1, BufferNames) \o last] :
           last \in {<<>>, <<CutName>>}}

(* start() binds the handler to the raw `this`, so the connection object   *)
(* and its socket are gone when start() returns.  A read that found bytes  *)
(* at once completes, and its handler then looks at freed storage: the     *)
(* bytes may still be there, or be overwritten and rejected by the Config  *)
(* constructor.  A read that found none is aborted by the destructor.      *)
Received(c) ==
  {<<>>} \cup (IF c.sent THEN {<<r>> : r \in InBuffer(c.request)} ELSE {})

(* do_accept's handler and start(); remote_endpoint() throws on a          *)
(* connection that was reset, and regs() ends with io_service::run.        *)
Accept ==
  /\ regs = "accepting" /\ backlog # <<>>
  /\ backlog' = Tail(backlog)
  /\ IF backlog[1].reset
     THEN regs' = "ended" /\ UNCHANGED data
     ELSE regs' = "reading" /\ data' \in Received(backlog[1])
  /\ UNCHANGED <<config, script, opened, log>>

(* Fault: interpret swaps the lists and forgets the size.                  *)
HandleReadKeepsSize ==
  /\ regs = "reading"
  /\ regs' = "accepting"
  /\ IF data = <<>>
     THEN UNCHANGED <<config, log>>
     ELSE /\ meters_' = data[1].meters /\ UNCHANGED payload_size_
          /\ log' = Append(log, data[1])
  /\ data' = <<>>
  /\ UNCHANGED <<script, backlog, opened>>

(* Fault: a request that does not parse empties the list before it is      *)
(* rejected.                                                               *)
HandleReadClearsFirst ==
  /\ regs = "reading"
  /\ regs' = "accepting"
  /\ IF data = <<>>
     THEN meters_' = <<>> /\ UNCHANGED <<payload_size_, log>>
     ELSE /\ payload_size_' = data[1].size /\ meters_' = data[1].meters
          /\ log' = Append(log, data[1])
  /\ data' = <<>>
  /\ UNCHANGED <<script, backlog, opened>>

(* handle_read and Config::interpret: text that does not parse leaves the  *)
(* configuration alone, a request replaces list and size under one lock.   *)
HandleRead ==
  /\ regs = "reading"
  /\ regs' = "accepting"
  /\ IF data = <<>>
     THEN UNCHANGED <<config, log>>
     ELSE /\ payload_size_' = data[1].size /\ meters_' = data[1].meters
          /\ log' = Append(log, data[1])
  /\ data' = <<>>
  /\ UNCHANGED <<script, backlog, opened>>
-----------------------------------------------------------------------------
(* The main() thread.                                                      *)

(* runScript begins: the list is copied once.                              *)
CopyMeters ==
  /\ pc = "top"
  /\ meters' = meters_ /\ next' = 1 /\ result' = <<>>
  /\ taken' = Len(log)
  /\ pc' = "loop"
  /\ UNCHANGED <<config, server, meterdata, log>>

(* Fault: the loop goes one past the end of the list.                      *)
OpenSessionPastEnd ==
  /\ pc = "loop" /\ next <= Len(meters) + 1
  /\ pc' = "session"
  /\ UNCHANGED <<config, server, meters, next, result, meterdata, taken, log>>

(* A session is set up: construct APsim and open() it.                     *)
OpenSession ==
  /\ pc = "loop" /\ next <= Len(meters)
  /\ pc' = "session"
  /\ UNCHANGED <<config, server, meters, next, result, meterdata, taken, log>>

(* Fault: the loop runs over the shared list instead of the copy.          *)
ReadMeterOfConfig ==
  /\ pc = "session"
  /\ result' = Append(result,
       [meter |-> IF next <= Len(meters_) THEN meters_[next] ELSE meters[next],
        size |-> payload_size_])
  /\ next' = next + 1
  /\ pc' = "loop"
  /\ UNCHANGED <<config, server, meters, meterdata, taken, log>>

(* The size is taken from Config anew for each meter; Get, close() and the *)
(* saved reading follow in the same iteration.                             *)
ReadMeter ==
  /\ pc = "session"
  /\ result' = Append(result, [meter |-> meters[next], size |-> payload_size_])
  /\ next' = next + 1
  /\ pc' = "loop"
  /\ UNCHANGED <<config, server, meters, meterdata, taken, log>>

(* Fault: the loop stops before the last meter of the list.                *)
PrintReadingsEarly ==
  /\ pc = "loop" /\ next >= Len(meters)
  /\ meterdata' = result
  /\ pc' = "printed"
  /\ UNCHANGED <<config, server, meters, next, result, taken, log>>

(* runScript returned; its readings are printed.                           *)
PrintReadings ==
  /\ pc = "loop" /\ next > Len(meters)
  /\ meterdata' = result
  /\ pc' = "printed"
  /\ UNCHANGED <<config, server, meters, next, result, taken, log>>

(* cfg.clear(): whatever list is there by now is emptied, the size stays.  *)
Clear ==
  /\ pc = "printed"
  /\ meters_' = <<>>
  /\ pc' = "asleep"
  /\ UNCHANGED <<payload_size_, server, meters, next, result, meterdata, taken, log>>

(* Fault: the list is cleared after the sleep.                             *)
WakeUpAndClear ==
  /\ pc = "asleep"
  /\ meters_' = <<>>
  /\ pc' = "top"
  /\ UNCHANGED <<payload_size_, server, meters, next, result, meterdata, taken, log>>

(* The sleep of 1500 ms ends and the loop starts over.                     *)
WakeUp ==
  /\ pc = "asleep"
  /\ pc' = "top"
  /\ UNCHANGED <<config, server, meters, next, result, meterdata, taken, log>>

Main == CopyMeters \/ OpenSession \/ ReadMeter \/ PrintReadings \/ Clear \/ WakeUp
Regs == Accept \/ HandleRead
Peers ==
  \/ \E r \in Requests : Connect(r)
  \/ \E i \in 1..Len(backlog) : Send(i) \/ Reset(i)

Next == Main \/ Regs \/ Peers

(* Both threads run whenever they can; nothing is assumed of the peers.    *)
Spec == Init /\ [][Next]_vars /\ WF_vars(Main) /\ WF_vars(Regs)
-----------------------------------------------------------------------------
(* Properties.                                                             *)

(* The size and the list that Config held after the first k requests.      *)
SizeAt(k) == IF k = 0 THEN "small" ELSE log[k].size
ListAt(k) == IF k = 0 THEN <<>> ELSE log[k].meters

MetersOf(readings) == [i \in 1..Len(readings) |-> readings[i].meter]

InRound == pc \in {"loop", "session"}

(* Types of all variables; the loop of runScript never runs off its list,  *)
(* and a session is open only for a meter on it.                           *)
TypeOK ==
  /\ payload_size_ \in Payload /\ meters_ \in Seq(Names)
  /\ pc \in {"top", "loop", "session", "printed", "asleep"}
  /\ meters \in Seq(Names) /\ next \in 1..(Len(meters) + 1)
  /\ pc = "session" => next <= Len(meters)
  /\ result \in Seq(Reading) /\ meterdata \in Seq(Reading)
  /\ backlog \in Seq(Connection)
  /\ regs \in {"accepting", "reading", "ended"}
  /\ data \in Seq(Request) /\ Len(data) <= 1
  /\ opened \in 0..MaxRequests
  /\ log \in Seq(Request) /\ taken \in 0..Len(log)

(* Config is one request, never a mix of two: both fields come from the    *)
(* latest request interpreted, except that its list may have been cleared. *)
ConfigIsLatest ==
  /\ payload_size_ = SizeAt(Len(log))
  /\ meters_ \in {<<>>, ListAt(Len(log))}

(* Requests that arrive while a round runs cannot disturb which meters it  *)
(* reads: the readings so far are those of a prefix of one request's list, *)
(* each meter once and in order, and what was printed is the whole list.   *)
RoundReadsOneList ==
  /\ meters \in {<<>>, ListAt(taken)}
  /\ InRound => MetersOf(result) = SubSeq(meters, 1, next - 1)
  /\ pc = "printed" => MetersOf(meterdata) = meters

(* A meter is asked for a size that was requested: by the request the      *)
(* round answers, or by one interpreted after the round began.             *)
SizesWereRequested ==
  \A i \in 1..Len(result) : \E k \in taken..Len(log) : result[i].size = SizeAt(k)

(* clear() is harmless when no request was interpreted since the round     *)
(* began: what it is about to empty is the list that was just read.        *)
QuietRoundKeepsList ==
  taken = Len(log) /\ (InRound \/ pc = "printed") => meters_ = meters

(* A connection that sends late or never does not hold up those behind it: *)
(* the queue drains, unless the thread ended on a connection reset.  And a *)
(* list that is there while main() sleeps is read in the next round,       *)
(* unless another request replaces it first.                               *)
RequestsGetOn ==
  /\ backlog # <<>> ~> (backlog = <<>> \/ regs = "ended")
  /\ \A n \in 1..MaxRequests :
       (pc = "asleep" /\ Len(log) = n /\ meters_ = ListAt(n))
         ~> (Len(log) > n \/ (InRound /\ taken = n /\ meters = ListAt(n)))

(* The rounds of main() are the rounds of the reading service.             *)
Service == INSTANCE ReadingService WITH
  phase <- IF InRound THEN "busy" ELSE IF pc = "printed" THEN "reported" ELSE "ready",
  waiting <- meters_,
  inHand <- meters,
  report <- MetersOf(meterdata)

(* Every report is exactly one list that was waiting, and rounds go on.    *)
ImplementsService == Service!Spec

(* A request that was interpreted is read, or replaced by a later request. *)
(* This is what the user manual says of a request (03_using.md: "This is a *)
(* request to the Access Point to read the small data object from each of  *)
(* the three meters"); clear() breaks it.                                  *)
NoRequestForgotten ==
  [][meters_' = <<>> /\ meters_ # <<>> /\ log' = log => taken = Len(log)]_vars
=============================================================================
