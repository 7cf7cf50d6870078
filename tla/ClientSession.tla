--------------------------- MODULE ClientSession ---------------------------
(***************************************************************************)
(* The sessions of class APsim (src/src/APsim.cpp) and class HESsim        *)
(* (src/src/HESsim.cpp) with meters, over LinuxTCPSocket and LinuxIP       *)
(* (src/src/core/LinuxSocket.cpp), one after the other, all on the one     *)
(* io_service of the process.  The single thread sleeps 100 ms, calls      *)
(* io_service::poll(), and then takes its next step by looking at what the *)
(* handlers left behind.                                                   *)
(*                                                                         *)
(* External, modelled as the code uses them: asio's io_service (handlers   *)
(* run only inside poll(); once no work is outstanding it is stopped, and  *)
(* no code of the repository calls reset()), and the DLMS/COSEM library    *)
(* (TCPWrapper, which keeps one read outstanding while the connection      *)
(* lives, and COSEMClientEngine).  A meter is named by one IPv6 address:   *)
(* one endpoint, and resolving it never outlasts a sleep.                  *)
(*                                                                         *)
(* main() catches nothing: an exception out of a handler ends the process. *)
(***************************************************************************)
EXTENDS Naturals, Sequences

CONSTANTS
  Meters,       \* the meters a session may be opened with
  Reliable,     \* those that accept every connection, and whose answers
                \* arrive within the sleep that follows the request
  NoData,       \* no reading
  Scripts,      \* what sessions ask for, in order; each reads something
  MaxTries,     \* open() gives up after so many polls (400 in the code)
  MaxSessions   \* bound: sessions of one run of the program

ASSUME ReliableAssumption == Reliable \subseteq Meters
ASSUME NoDataAssumption == NoData \notin Meters
ASSUME ScriptsAssumption ==
  \A s \in Scripts : s \in Seq({"Get", "Action"}) /\ \E i \in DOMAIN s : s[i] = "Get"
ASSUME CountsAssumption == MaxTries \in Nat \ {0, 1} /\ MaxSessions \in Nat

VARIABLES
  pc,         \* the call the thread is in, "idle" between sessions; at the
              \* end of the process "thrown" (an exception nobody caught)
              \* or "undefined" (a callback into a deleted wrapper)
  poll,       \* "before", "in" or "after" that call's io_service::poll(),
              \* or "left" by the end of the process
  begun,      \* sessions begun so far
  meter,      \* the meter of the latest session
  script,     \* the requests this session has yet to send
  tries,      \* what is left of max_tries
  readings,   \* one reading per finished session, oldest first
  op,         \* the socket's asynchronous operation in flight
  outcome,    \* of the connection attempt: "none" while it is under way
  isOpen,     \* m_Socket.is_open()
  sockets,    \* how many sockets LinuxIP::m_TCPSockets holds
  stopped,    \* the io_service has stopped
  posted,     \* handlers of sockets already released, oldest first
  transport,  \* the engine's IsTransportConnected()
  engine,     \* its association: "closed", "opening" or "open"
  recent,     \* what the engine's recent_data() returns
  asked,      \* requests on the connection that the meter has not answered
  inbox,      \* answers on the connection that were not read
  peer        \* the meter's end of the connection: "up", "closed" or "reset"

session == <<begun, meter, readings>>
thread == <<pc, script, tries>>
socket == <<op, outcome, isOpen, sockets>>
client == <<transport, engine, recent>>
wire == <<asked, inbox, peer>>
vars == <<pc, poll, begun, meter, script, tries, readings, op, outcome, isOpen,
          sockets, stopped, posted, transport, engine, recent, asked, inbox, peer>>

Init ==
  /\ pc = "idle" /\ poll = "after" /\ begun = 0 /\ meter \in Meters
  /\ script = <<>> /\ tries = 0 /\ readings = <<>>
  /\ op = "none" /\ outcome = "none" /\ isOpen = FALSE /\ sockets = 0
  /\ stopped = FALSE /\ posted = <<>>
  /\ transport = FALSE /\ engine = "closed" /\ recent = NoData
  /\ asked = <<>> /\ inbox = <<>> /\ peer = "up"
-----------------------------------------------------------------------------
(* io_service::poll().                                                     *)

IsReliable == meter \in Reliable

(* What a reliable meter owes has arrived by the end of a sleep.           *)
SleepIsOver ==
  IsReliable => asked = <<>> /\ (op = "connect" => outcome # "none")

Outstanding == op # "none" \/ posted # <<>>

(* A poll without work stops the service; a stopped one runs nothing.      *)
BeginPoll ==
  /\ pc # "idle" /\ poll = "before" /\ SleepIsOver
  /\ stopped' = (stopped \/ ~Outstanding)
  /\ poll' = IF stopped' THEN "after" ELSE "in"
  /\ UNCHANGED <<session, thread, socket, posted, client, wire>>

Ready ==
  \/ posted # <<>>
  \/ op = "resolve"
  \/ op = "connect" /\ outcome # "none"
  \/ op = "read" /\ (inbox # <<>> \/ peer # "up")

EndPoll ==
  /\ poll = "in" /\ (stopped \/ ~Ready)
  /\ poll' = "after"
  /\ UNCHANGED <<session, thread, socket, stopped, posted, client, wire>>

(* Inside poll() a handler runs, and then the service stops if that left   *)
(* no work.                                                                *)
InHandler == poll = "in" /\ ~stopped

Handling ==
  /\ InHandler
  /\ stopped' = ~Outstanding'
  /\ UNCHANGED <<poll, session, thread>>

(* The process ends inside a handler.                                      *)
Dies(how) ==
  /\ InHandler
  /\ pc' = how /\ poll' = "left"
  /\ UNCHANGED <<session, script, tries, socket, stopped, posted, client, wire>>

(* A handler of an earlier session's socket: its aborted operation, or the *)
(* posted RemoveSocket.  An aborted read calls m_Close of the wrapper that *)
(* the engine's destructor deleted.  That is undefined: nothing happens,   *)
(* or this session's wrapper, which lies where the other lay, takes its    *)
(* own connection for closed, or the process ends.                         *)
RunPosted ==
  /\ posted # <<>>
  /\ \/ /\ posted' = Tail(posted)
        /\ sockets' = IF Head(posted) = "remove" THEN sockets - 1 ELSE sockets
        /\ \/ UNCHANGED <<transport, engine>>
           \/ Head(posted) = "read aborted" /\ transport' = FALSE /\ engine' = "closed"
        /\ UNCHANGED <<op, outcome, isOpen, recent, wire>>
        /\ Handling
     \/ Head(posted) = "read aborted" /\ Dies("undefined")

(* Handlers run in the order they became ready: those of earlier sockets   *)
(* were before this session had an operation.                              *)
(* ASIO_Resolver_Handler: connect, which opens the socket at once, or do   *)
(* nothing at all when the name did not resolve.                           *)
RunResolver ==
  /\ posted = <<>> /\ op = "resolve"
  /\ \/ op' = "connect" /\ isOpen' = TRUE
     \/ ~IsReliable /\ op' = "none" /\ UNCHANGED isOpen
  /\ UNCHANGED <<outcome, sockets, posted, client, wire>>
  /\ Handling

(* ASIO_Connect_Handler: m_Connect tells the wrapper, which starts to      *)
(* read; after the last endpoint refused, nothing at all.  A connection    *)
(* that was made and reset meanwhile is a refused one, or, when the reset  *)
(* came after asio looked, makes remote_endpoint() throw.                  *)
RunConnect ==
  /\ posted = <<>> /\ op = "connect" /\ outcome # "none"
  /\ \/ /\ outcome = "ok" /\ peer # "reset"
        /\ op' = "read" /\ transport' = TRUE
        /\ UNCHANGED <<outcome, isOpen, sockets, posted, engine, recent, wire>>
        /\ Handling
     \/ /\ outcome = "refused" \/ peer = "reset"
        /\ op' = "none"
        /\ UNCHANGED <<outcome, isOpen, sockets, posted, client, wire>>
        /\ Handling
     \/ outcome = "ok" /\ peer = "reset" /\ Dies("thrown")

(* ASIO_Read_Handler with data: the engine confirms what was asked, and    *)
(* only OnGetConfirmation with data sets recent.  It takes the value for a *)
(* string: one of another type makes it throw.                             *)
RunRead ==
  /\ posted = <<>> /\ op = "read" /\ inbox # <<>>
  /\ \/ /\ Head(inbox) # "mistyped"
        /\ inbox' = Tail(inbox)
        /\ engine' = CASE Head(inbox) = "associated" -> "open"
                       [] Head(inbox) = "released" -> "closed"
                       [] OTHER -> engine
        /\ recent' = IF Head(inbox) = "data" THEN meter ELSE recent
        /\ UNCHANGED <<socket, posted, transport, asked, peer>>
        /\ Handling
     \/ Head(inbox) = "mistyped" /\ Dies("thrown")

(* Fault: the end of the stream ends the reading, and nobody is told.      *)
RunReadEofSilently ==
  /\ posted = <<>> /\ op = "read" /\ inbox = <<>> /\ peer # "up"
  /\ op' = "none"
  /\ UNCHANGED <<outcome, isOpen, sockets, posted, client, wire>>
  /\ Handling

(* ASIO_Read_Handler with eof or a reset: m_Close tells the wrapper; no    *)
(* more reads.                                                             *)
RunReadEof ==
  /\ posted = <<>> /\ op = "read" /\ inbox = <<>> /\ peer # "up"
  /\ op' = "none" /\ transport' = FALSE /\ engine' = "closed"
  /\ UNCHANGED <<outcome, isOpen, sockets, posted, recent, wire>>
  /\ Handling
-----------------------------------------------------------------------------
(* The thread, in the order of runScript.                                  *)

(* Fault: one engine, and so one `recent`, serves all sessions.            *)
BeginSessionOldEngine(m, s) ==
  /\ pc = "idle" /\ begun < MaxSessions
  /\ begun' = begun + 1 /\ meter' = m /\ script' = s /\ tries' = MaxTries
  /\ pc' = "open" /\ poll' = "before"
  /\ op' = "resolve" /\ outcome' = "none" /\ isOpen' = FALSE /\ sockets' = sockets + 1
  /\ transport' = FALSE /\ engine' = "closed" /\ UNCHANGED recent
  /\ asked' = <<>> /\ inbox' = <<>> /\ peer' = "up"
  /\ UNCHANGED <<readings, stopped, posted>>

(* The constructor: CreateSocket, a new engine, and Open(), which closes   *)
(* the socket and starts to resolve the name.                              *)
BeginSession(m, s) ==
  /\ pc = "idle" /\ begun < MaxSessions
  /\ begun' = begun + 1 /\ meter' = m /\ script' = s /\ tries' = MaxTries
  /\ pc' = "open" /\ poll' = "before"
  /\ op' = "resolve" /\ outcome' = "none" /\ isOpen' = FALSE /\ sockets' = sockets + 1
  /\ transport' = FALSE /\ engine' = "closed" /\ recent' = NoData
  /\ asked' = <<>> /\ inbox' = <<>> /\ peer' = "up"
  /\ UNCHANGED <<readings, stopped, posted>>

(* IsConnected() is true from the moment the socket is open, so it is the  *)
(* wrapper's word that decides.                                            *)
Connected == isOpen /\ transport

(* Fault: a failed try is not counted.                                     *)
OpenForever ==
  /\ pc = "open" /\ poll = "after"
  /\ IF Connected
     THEN /\ asked' = Append(asked, "associate") /\ engine' = "opening"
          /\ pc' = "request" /\ UNCHANGED tries
     ELSE UNCHANGED <<asked, engine, tries, pc>>
  /\ poll' = "before"
  /\ UNCHANGED <<session, script, socket, stopped, posted, transport, recent, inbox, peer>>

(* open(): ask for an association once the transport is connected, or try  *)
(* again until max_tries is used up; runScript ignores which it was.       *)
Open ==
  /\ pc = "open" /\ poll = "after"
  /\ IF Connected
     THEN /\ asked' = Append(asked, "associate") /\ engine' = "opening"
          /\ pc' = "request" /\ UNCHANGED tries
     ELSE /\ UNCHANGED <<asked, engine>>
          /\ tries' = tries - 1
          /\ pc' = IF tries' = 0 THEN "request" ELSE "open"
  /\ poll' = "before"
  /\ UNCHANGED <<session, script, socket, stopped, posted, transport, recent, inbox, peer>>

(* Fault: requests go out before the association is confirmed, and so are  *)
(* not answered.                                                           *)
RequestWithoutPoll ==
  /\ pc = "request" /\ poll = "before"
  /\ asked' = IF Connected /\ engine = "open" THEN Append(asked, Head(script)) ELSE asked
  /\ script' = Tail(script)
  /\ pc' = IF script' = <<>> THEN "close" ELSE "request"
  /\ poll' = "before"
  /\ UNCHANGED <<session, tries, socket, stopped, posted, client, inbox, peer>>

(* Get() and Action(): send the next request if the association is open.   *)
Request ==
  /\ pc = "request" /\ poll = "after"
  /\ asked' = IF Connected /\ engine = "open" THEN Append(asked, Head(script)) ELSE asked
  /\ script' = Tail(script)
  /\ pc' = IF script' = <<>> THEN "close" ELSE "request"
  /\ poll' = "before"
  /\ UNCHANGED <<session, tries, socket, stopped, posted, client, inbox, peer>>

(* close(), and the reading that runScript saves right after it.           *)
Close ==
  /\ pc = "close" /\ poll = "after"
  /\ asked' = IF Connected /\ engine = "open" THEN Append(asked, "release") ELSE asked
  /\ readings' = Append(readings, [meter |-> meter, data |-> recent])
  /\ pc' = "destroy" /\ poll' = "before"
  /\ UNCHANGED <<begun, meter, script, tries, socket, stopped, posted, client, inbox, peer>>

(* What closing the socket queues for its operation.                       *)
Aborted == CASE op = "none" -> <<>> [] op = "read" -> <<"read aborted">> [] OTHER -> <<"aborted">>

(* Fault: the socket is closed and not removed.                            *)
DestroyWithoutRemove ==
  /\ pc = "destroy" /\ poll = "after"
  /\ posted' = posted \o Aborted
  /\ op' = "none" /\ isOpen' = FALSE
  /\ pc' = "idle"
  /\ UNCHANGED <<session, script, tries, poll, outcome, sockets, stopped, client, wire>>

(* The destructor: ReleaseSocket() closes the socket, which aborts its     *)
(* operation, and posts its removal.                                       *)
Destroy ==
  /\ pc = "destroy" /\ poll = "after"
  /\ posted' = posted \o Aborted \o <<"remove">>
  /\ op' = "none" /\ isOpen' = FALSE
  /\ pc' = "idle"
  /\ UNCHANGED <<session, script, tries, poll, outcome, sockets, stopped, client, wire>>
-----------------------------------------------------------------------------
(* The network and the meter at the other end of the connection.           *)

ConnectionAttempt ==
  /\ poll # "left" /\ op = "connect" /\ outcome = "none"
  /\ outcome' \in IF IsReliable THEN {"ok"} ELSE {"ok", "refused"}
  /\ UNCHANGED <<session, thread, poll, op, isOpen, sockets, stopped, posted, client, wire>>

Replies(request) ==
  CASE request = "associate" -> {"associated"}
    [] request = "Get" -> IF IsReliable THEN {"data"} ELSE {"data", "error", "mistyped"}
    [] request = "Action" -> {"done"}
    [] request = "release" -> {"released"}

Answer ==
  /\ poll # "left" /\ isOpen /\ asked # <<>> /\ peer = "up"
  /\ asked' = Tail(asked)
  /\ \E r \in Replies(Head(asked)) : inbox' = Append(inbox, r)
  /\ UNCHANGED <<session, thread, poll, socket, stopped, posted, client, peer>>

MeterCloses ==
  /\ ~IsReliable /\ poll # "left" /\ isOpen /\ outcome = "ok" /\ peer = "up"
  /\ peer' \in {"closed", "reset"}
  /\ UNCHANGED <<session, thread, poll, socket, stopped, posted, client, asked, inbox>>

Poll == BeginPoll \/ RunPosted \/ RunResolver \/ RunConnect \/ RunRead \/ RunReadEof \/ EndPoll

Thread ==
  \/ \E m \in Meters, s \in Scripts : BeginSession(m, s)
  \/ Open \/ Request \/ Close \/ Destroy

Network == ConnectionAttempt \/ Answer \/ MeterCloses

Next == Poll \/ Thread \/ Network

(* The thread runs; a reliable meter answers.  Of others nothing is        *)
(* assumed.                                                                *)
Spec ==
  /\ Init /\ [][Next]_vars
  /\ WF_vars(Poll \/ Thread) /\ WF_vars(IsReliable /\ Network)
-----------------------------------------------------------------------------
(* Properties.                                                             *)

Requests == {"associate", "Get", "Action", "release"}

(* Types; in a session a read is outstanding exactly while the wrapper     *)
(* takes itself to be connected.                                           *)
TypeOK ==
  /\ pc \in {"idle", "open", "request", "close", "destroy", "thrown", "undefined"}
  /\ poll \in {"before", "in", "after", "left"}
  /\ begun \in 0..MaxSessions /\ meter \in Meters
  /\ script \in Seq({"Get", "Action"}) /\ tries \in 0..MaxTries
  /\ readings \in Seq([meter : Meters, data : Meters \cup {NoData}])
  /\ op \in {"none", "resolve", "connect", "read"}
  /\ outcome \in {"none", "ok", "refused"}
  /\ isOpen \in BOOLEAN /\ sockets \in 0..MaxSessions
  /\ stopped \in BOOLEAN /\ posted \in Seq({"aborted", "read aborted", "remove"})
  /\ transport \in BOOLEAN /\ engine \in {"closed", "opening", "open"}
  /\ recent \in Meters \cup {NoData}
  /\ asked \in Seq(Requests)
  /\ inbox \in Seq({"associated", "data", "error", "mistyped", "done", "released"})
  /\ peer \in {"up", "closed", "reset"}
  /\ pc # "idle" => (op = "read" <=> transport)

(* A reading is empty or comes from the meter it is saved under, although  *)
(* sessions follow each other on one io_service and answers come late.     *)
ReadingsAreOwn ==
  \A i \in 1..Len(readings) : readings[i].data \in {NoData, readings[i].meter}

(* As long as every meter so far was reliable, every session brought data  *)
(* back: polling once per step is enough, and two tries to open.           *)
ReliableReadUntilFailure ==
  \A i \in 1..Len(readings) :
    (\A k \in 1..i : readings[k].meter \in Reliable) => readings[i].data # NoData

(* While the io_service runs, released sockets are removed: there is never *)
(* more than the current session's and the one before.                     *)
SocketsAreReclaimed == ~stopped => sockets <= 2

(* No session hangs: it ends, unless the process does, and that is the     *)
(* doing of a meter that is not reliable (a value of another type, a reset *)
(* while connecting) or of the callback into a deleted wrapper.            *)
SessionsEnd ==
  pc # "idle" ~> \/ pc \in {"idle", "undefined"}
                 \/ pc = "thrown" /\ ~IsReliable
=============================================================================
