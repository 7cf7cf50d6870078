------------------------------ MODULE HeadEnd ------------------------------
(***************************************************************************)
(* The head-end system simulator, src/src/HESsim.cpp, with the meters that *)
(* register with it, src/src/Metersim.cpp.  In the head-end, the regs()    *)
(* thread accepts one registration after the other and inserts the peer    *)
(* into the global set `meters`; the main thread iterates over the same    *)
(* set, without a lock, and contacts each meter (Mode 1) or sends the list *)
(* to the Access Point (Mode 2).  A meter registers once per life and only *)
(* then starts to listen.  A contact stands for a whole session, which     *)
(* ClientSession models; what matters of it here is that a refused one     *)
(* stops the io_service of the main thread for good, and that one may end  *)
(* the process.                                                            *)
(***************************************************************************)
EXTENDS Naturals, Sequences

CONSTANTS
  Meters,      \* the meters that run Metersim
  MaxFaults    \* bound: crashes of meters and ends of the head-end

ASSUME FaultsAssumption == MaxFaults \in Nat

VARIABLES
  meterPc,     \* where each Metersim process is
  conns,       \* connections to the head-end's port 4059, oldest first; the
               \* first is the one in receive() when server = "receiving"
  server,      \* the regs() thread: "accepting", "receiving" or "ended"
  meters,      \* the global std::set<std::string> meters
  mainPc,      \* the main thread: "asleep", in a "pass", or "terminated"
  visited,     \* the meters this pass has contacted
  raced,       \* history: `meters` was changed during this pass
  stopped,     \* the main thread's io_service has stopped
  faults,      \* faults so far, for MaxFaults
  broken,      \* history: a meter failed between connect and "R", in this
               \* life of the head-end
  lost         \* history: the meters whose registration, or connection for
               \* one, the head-end dropped since they last connected

regs == <<conns, server, meters>>
mainThread == <<mainPc, visited, stopped>>
history == <<broken, lost>>
headEndVars ==
  <<meterPc, conns, server, meters, mainPc, visited, raced, stopped, faults, broken,
    lost>>

(* An "open" connection becomes "sent" when R was written and the meter    *)
(* closed it; without R it may end "closed" or "reset", or "silent" when   *)
(* the meter's host vanished.                                              *)
Broken == {"closed", "reset", "silent"}
Connection == [meter : Meters, state : {"open", "sent"} \cup Broken]

HeadEndInit ==
  /\ meterPc = [m \in Meters |-> "start"]
  /\ conns = <<>> /\ server = "accepting" /\ meters = {}
  /\ mainPc = "asleep" /\ visited = {} /\ raced = FALSE /\ stopped = FALSE
  /\ faults = 0 /\ broken = FALSE /\ lost = {}

Fault == faults < MaxFaults /\ faults' = faults + 1
-----------------------------------------------------------------------------
(* Metersim.                                                               *)

MeterGoes(m, label) == meterPc' = [meterPc EXCEPT ![m] = label]

(* Every connection of m that is open gets the state s.                    *)
Marked(m, s) ==
  [i \in DOMAIN conns |->
     IF conns[i].meter = m /\ conns[i].state = "open" THEN [conns[i] EXCEPT !.state = s]
     ELSE conns[i]]

(* The meters whose connections go with the server that holds them.        *)
Waiting == {conns[i].meter : i \in DOMAIN conns}

HasOpen(m) == \E i \in DOMAIN conns : conns[i].meter = m /\ conns[i].state = "open"

(* Register(): connect.  The backlog takes the connection although the     *)
(* server may be busy; without a server main() tries again at once.        *)
MeterConnects(m) ==
  /\ meterPc[m] = "start" /\ server # "ended"
  /\ conns' = Append(conns, [meter |-> m, state |-> "open"])
  /\ MeterGoes(m, "connected")
  /\ lost' = lost \ {m}
  /\ UNCHANGED <<server, meters, mainThread, raced, faults, broken>>

(* Register(): write "R"; the socket closes on return.  A write to a       *)
(* connection that the head-end dropped may fail or seem to succeed.       *)
MeterSendsR(m) ==
  /\ meterPc[m] = "connected"
  /\ conns' = Marked(m, "sent")
  /\ \/ MeterGoes(m, "registered")
     \/ ~HasOpen(m) /\ MeterGoes(m, "start")
  /\ UNCHANGED <<server, meters, mainThread, raced, faults, history>>

(* The next iteration of main(): a new server, and Run().                  *)
MeterListens(m) ==
  /\ meterPc[m] = "registered"
  /\ MeterGoes(m, "listening")
  /\ UNCHANGED <<regs, mainThread, raced, faults, history>>

(* The client closed: no work is left, Run() returns, and main() starts    *)
(* over with a new server; the old one accepts a single connection.        *)
MeterSessionEnds(m) ==
  /\ meterPc[m] = "serving"
  /\ MeterGoes(m, "registered")
  /\ UNCHANGED <<regs, mainThread, raced, faults, history>>

(* A meter fails and starts afresh; its kernel closes the connection, or   *)
(* nobody does.                                                            *)
MeterFails(m) ==
  /\ meterPc[m] # "start" /\ Fault
  /\ MeterGoes(m, "start")
  /\ \E s \in Broken : conns' = Marked(m, s)
  /\ broken' = (broken \/ HasOpen(m))
  /\ UNCHANGED <<server, meters, mainThread, raced, lost>>
-----------------------------------------------------------------------------
(* HESsim: the registration server.                                        *)

(* An exception leaves io_service::run(), and regs() ends, which closes    *)
(* the acceptor and what it held.                                          *)
RegsEnds ==
  /\ server' = "ended" /\ conns' = <<>> /\ lost' = lost \cup Waiting
  /\ UNCHANGED broken

(* Fault: the peer is added when its bytes arrive, but to a copy.          *)
AcceptWithoutInsert ==
  /\ server = "accepting" /\ conns # <<>>
  /\ server' = "receiving"
  /\ raced' = (raced \/ mainPc = "pass")
  /\ UNCHANGED <<meterPc, conns, meters, mainThread, faults, history>>

(* start(): the peer is inserted before anything was received, with no     *)
(* lock against the main thread's iteration.  remote_endpoint() throws for *)
(* a connection that was reset in the backlog.                             *)
Accept ==
  /\ server = "accepting" /\ conns # <<>>
  /\ \/ /\ conns[1].state # "reset" /\ server' = "receiving"
        /\ meters' = meters \cup {conns[1].meter}
        /\ raced' = (raced \/ (mainPc = "pass" /\ meters' # meters))
        /\ UNCHANGED <<conns, history>>
     \/ conns[1].state = "reset" /\ RegsEnds /\ UNCHANGED <<meters, raced>>
  /\ UNCHANGED <<meterPc, mainThread, faults>>

(* Fault: end of file is swallowed, and the thread waits on.               *)
ReceiveSwallowsEof ==
  /\ server = "receiving"
  /\ \/ conns[1].state = "sent" /\ server' = "accepting"
     \/ conns[1].state \in {"closed", "reset"} /\ UNCHANGED server
  /\ conns' = Tail(conns)
  /\ UNCHANGED <<meterPc, meters, mainThread, raced, faults, history>>

(* Fault: the next accept is not asked for, and run() is out of work.      *)
ReceiveOnce ==
  /\ server = "receiving" /\ conns[1].state \in {"sent", "closed", "reset"}
  /\ RegsEnds
  /\ UNCHANGED <<meterPc, meters, mainThread, raced, faults>>

(* start(): receive() blocks the only server thread until bytes come, and  *)
(* throws at end of file or a reset.                                       *)
Receive ==
  /\ server = "receiving"
  /\ \/ /\ conns[1].state = "sent" /\ server' = "accepting" /\ conns' = Tail(conns)
        /\ UNCHANGED history
     \/ conns[1].state \in {"closed", "reset"} /\ RegsEnds
  /\ UNCHANGED <<meterPc, meters, mainThread, raced, faults>>
-----------------------------------------------------------------------------
(* HESsim: the main thread.                                                *)

(* Fault: what earlier passes visited is not visited again.                *)
BeginScriptKeepsVisited ==
  /\ mainPc = "asleep" /\ mainPc' = "pass"
  /\ raced' = FALSE
  /\ UNCHANGED <<meterPc, regs, visited, stopped, faults, history>>

(* Mode 1: runScript begins to iterate over `meters`.                      *)
BeginScript ==
  /\ mainPc = "asleep" /\ mainPc' = "pass"
  /\ visited' = {} /\ raced' = FALSE
  /\ UNCHANGED <<meterPc, regs, stopped, faults, history>>

(* One session: served by a meter that listens, unless the io_service was  *)
(* stopped before.  A refused connection stops it.  One that waits at a    *)
(* meter still serving may be refused when that meter's old acceptor goes  *)
(* away; one to a meter that failed is refused, or not answered at all.    *)
Contact(m) ==
  /\ mainPc = "pass" /\ m \in meters \ visited
  /\ visited' = visited \cup {m}
  /\ IF ~stopped /\ meterPc[m] = "listening"
     THEN MeterGoes(m, "serving") /\ UNCHANGED stopped
     ELSE /\ stopped' \in {TRUE} \cup
                (IF meterPc[m] \in {"serving", "start"} THEN {stopped} ELSE {})
          /\ UNCHANGED meterPc
  /\ UNCHANGED <<regs, mainPc, raced, faults, history>>

(* The iteration reaches the end of the set.  An insertion during the pass *)
(* is a data race: the iterator may then miss members.                     *)
EndScript ==
  /\ mainPc = "pass" /\ (raced \/ meters \subseteq visited)
  /\ mainPc' = "asleep"
  /\ UNCHANGED <<meterPc, regs, visited, raced, stopped, faults, history>>

(* The process ends, with both of its threads.                             *)
ProcessEnds ==
  /\ mainPc' = "terminated" /\ RegsEnds
  /\ UNCHANGED <<meterPc, meters, visited, raced, stopped>>

(* Mode 2: multiRead with an Access Point that is there changes nothing    *)
(* here.  Without one, asio::connect throws and nobody catches it.         *)
MultiReadThrows ==
  /\ mainPc = "asleep" /\ Fault
  /\ ProcessEnds

(* Mode 1: a session may end the process: by an exception, or in the       *)
(* callback of the session before, see ClientSession.                      *)
SessionThrows ==
  /\ mainPc = "pass" /\ ~stopped /\ ~(meters \subseteq visited) /\ Fault
  /\ ProcessEnds

(* The process is started again, with an empty set of meters.              *)
Restart ==
  /\ mainPc # "terminated" => Fault
  /\ mainPc = "terminated" => UNCHANGED faults
  /\ lost' = lost \cup meters \cup Waiting /\ broken' = FALSE
  /\ conns' = <<>> /\ server' = "accepting" /\ meters' = {}
  /\ mainPc' = "asleep" /\ visited' = {} /\ raced' = FALSE /\ stopped' = FALSE
  /\ UNCHANGED meterPc

Meter(m) ==
  MeterConnects(m) \/ MeterSendsR(m) \/ MeterListens(m) \/ MeterSessionEnds(m)
RegsThread == Accept \/ Receive
MainThread == BeginScript \/ (\E m \in Meters : Contact(m)) \/ EndScript
Failure == (\E m \in Meters : MeterFails(m)) \/ MultiReadThrows \/ SessionThrows \/ Restart

HeadEndNext == (\E m \in Meters : Meter(m)) \/ RegsThread \/ MainThread \/ Failure

(* Every thread and process runs when it can; nothing has to fail.         *)
HeadEndSpec ==
  /\ HeadEndInit /\ [][HeadEndNext]_headEndVars
  /\ WF_headEndVars(RegsThread) /\ WF_headEndVars(MainThread)
  /\ \A m \in Meters : WF_headEndVars(Meter(m))
-----------------------------------------------------------------------------
(* Properties.                                                             *)

(* Types; receive() always has a connection to wait on.                    *)
HeadEndTypeOK ==
  /\ meterPc \in [Meters -> {"start", "connected", "registered", "listening", "serving"}]
  /\ conns \in Seq(Connection)
  /\ server \in {"accepting", "receiving", "ended"}
  /\ server = "receiving" => conns # <<>>
  /\ meters \subseteq Meters /\ visited \subseteq Meters
  /\ mainPc \in {"asleep", "pass", "terminated"}
  /\ raced \in BOOLEAN /\ stopped \in BOOLEAN
  /\ faults \in 0..MaxFaults /\ broken \in BOOLEAN /\ lost \subseteq Meters

BelievesRegistered(m) == meterPc[m] \in {"registered", "listening", "serving"}

(* A meter that believes it is registered is on the head-end's list or its *)
(* registration is still queued: no interleaving of registrations loses    *)
(* one, only the end of the server or of the process that held it.         *)
RegisteredIsKnownOrQueued ==
  \A m \in Meters :
    BelievesRegistered(m) =>
      \/ m \in meters
      \/ \E i \in DOMAIN conns : conns[i] = [meter |-> m, state |-> "sent"]
      \/ m \in lost

(* The registration server survives every registration that is complete:   *)
(* it ends with the process, or because a meter broke off before its R.    *)
ServerEndsByBrokenOne ==
  server = "ended" => mainPc = "terminated" \/ broken

(* receive() waits for a meter whose host is gone.                         *)
Blocked == server = "receiving" /\ conns[1].state = "silent"

(* Every registration is eventually on the list, behind however many       *)
(* others, unless the head-end drops it or a silent peer blocks the        *)
(* server; and a meter on the list is served in some later pass, unless    *)
(* the service of the main thread has stopped, the head-end ended or       *)
(* forgot the meter, or the meter is down and has no server to go back to. *)
RegistrationsAreServed ==
  \A m \in Meters :
    /\ BelievesRegistered(m) ~> (m \in meters \cup lost \/ Blocked)
    /\ m \in meters ~>
         \/ meterPc[m] = "serving" \/ stopped \/ mainPc = "terminated" \/ m \in lost
         \/ meterPc[m] = "start" /\ server = "ended"

(* The user manual: "Every 1.5 seconds, the HES sends a service connect    *)
(* request, followed by a read of an arbitrary data item to each of the    *)
(* registered meters" (03_using.md).                                       *)
RegisteredMetersAreServed ==
  \A m \in Meters : m \in meters ~> meterPc[m] = "serving"
=============================================================================
