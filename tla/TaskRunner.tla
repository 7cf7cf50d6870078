---------------------------- MODULE TaskRunner ----------------------------
(***************************************************************************)
(* The task runner, src/src/websocket/taskrunner.cpp: a websocket server   *)
(* that answers the command {netstat} with what the program ifstat prints, *)
(* and any other text with that text and an error.  It has one thread.     *)
(* fetchNetStats() waits in a handler for ifstat to end, and meanwhile no  *)
(* client is served; if ifstat cannot be started the constructor of child  *)
(* throws, nothing catches it, and the process ends.                       *)
(* invokeNetem() is not called by anyone.                                  *)
(***************************************************************************)
EXTENDS Naturals, Sequences, FiniteSetsExt

CONSTANTS
  Clients,       \* dashboards, one websocket each
  Commands,      \* what they send
  MaxMessages,   \* bound: messages in all, whole or broken off
  MaxTraffic,    \* bound: how often the statistics change
  Nobody

ASSUME CommandsAssumption == "{netstat}" \in Commands
ASSUME BoundsAssumption == MaxMessages \in Nat /\ MaxTraffic \in Nat
ASSUME NobodyAssumption == Nobody \notin Clients

VARIABLES
  server,    \* "starting" in main(), "serving", "spinning", or "dead"
  fetching,  \* the client for which the thread waits for ifstat
  session,   \* where each client's session is
  stream,    \* each client's side: "open", "closed" by handshake, or "broken"
  inbox,     \* whole messages that wait to be read
  torn,      \* what arrived of a message that broke off, <<>> or one text
  buffer,    \* the session's multi_buffer, as the parts it holds
  traffic,   \* the state of the network that ifstat would report now
  asked,     \* history: whole messages sent, each with `traffic` at the time
  answers    \* history: buffers written back

peer == <<stream, inbox, torn>>
history == <<asked, answers>>
vars == <<server, fetching, session, peer, buffer, traffic, history>>

Everyone(x) == [c \in Clients |-> x]

(* The parts of a buffer.                                                  *)
Text(command) == [text |-> command, at |-> 0]
Stats(n) == [text |-> "statistics", at |-> n]
UnknownCommand == Text("{error:unknown_command}")

Init ==
  /\ server = "starting" /\ fetching = Nobody
  /\ session = Everyone("none") /\ stream = Everyone("open")
  /\ inbox = Everyone(<<>>) /\ torn = Everyone(<<>>) /\ buffer = Everyone(<<>>)
  /\ traffic = 0 /\ asked = Everyone(<<>>) /\ answers = Everyone(<<>>)
-----------------------------------------------------------------------------
(* The world.                                                              *)

TrafficFlows ==
  /\ traffic < MaxTraffic /\ traffic' = traffic + 1
  /\ UNCHANGED <<server, fetching, session, peer, buffer, history>>

Goto(c, label) == session' = [session EXCEPT ![c] = label]
Count == FoldSet(LAMBDA c, n : n + Len(asked[c]) + Len(torn[c]), 0, Clients)
InUse(c) == stream[c] = "open" /\ session[c] \in {"reading", "writing"}

(* A client need not wait for an answer before it sends again.             *)
Send(c) ==
  /\ InUse(c) /\ Count < MaxMessages
  /\ \E command \in Commands :
       /\ inbox' = [inbox EXCEPT ![c] = Append(@, command)]
       /\ asked' = [asked EXCEPT ![c] = Append(@, [command |-> command, at |-> traffic])]
  /\ UNCHANGED <<server, fetching, session, stream, torn, buffer, traffic, answers>>

Leave(c) ==
  /\ InUse(c) /\ stream' = [stream EXCEPT ![c] = "closed"]
  /\ UNCHANGED <<server, fetching, session, inbox, torn, buffer, traffic, history>>

(* The connection breaks, perhaps within a message of which whole frames   *)
(* have arrived, and perhaps with what was sent before.                    *)
Break(c) ==
  /\ stream[c] = "open" /\ session[c] \in {"handshake", "reading", "writing"}
  /\ stream' = [stream EXCEPT ![c] = "broken"]
  /\ \/ UNCHANGED <<inbox, torn>>
     \/ inbox' = [inbox EXCEPT ![c] = <<>>] /\ UNCHANGED torn
     \/ /\ InUse(c) /\ Count < MaxMessages
        /\ \E command \in Commands : torn' = [torn EXCEPT ![c] = <<command>>]
        /\ UNCHANGED inbox
  /\ UNCHANGED <<server, fetching, session, buffer, traffic, history>>
-----------------------------------------------------------------------------
(* The thread.                                                             *)

(* main() prints the statistics once, and listens.                         *)
Listen ==
  /\ server = "starting" /\ server' = "serving"
  /\ UNCHANGED <<fetching, session, peer, buffer, traffic, history>>

(* The acceptor cannot be opened: it is not run, and ioc.run() returns at  *)
(* once.  It is opened but cannot be bound: each accept fails at once and  *)
(* starts the next one, for ever.                                          *)
ListenFails ==
  /\ server = "starting" /\ server' \in {"dead", "spinning"}
  /\ UNCHANGED <<fetching, session, peer, buffer, traffic, history>>

Idle == server = "serving" /\ fetching = Nobody

(* A client connects; listener::on_accept makes it a session of its own.   *)
ListenerAccepts(c) ==
  /\ Idle /\ session[c] = "none"
  /\ Goto(c, "handshake")
  /\ UNCHANGED <<server, fetching, peer, buffer, traffic, history>>

OnAccept(c) ==
  /\ Idle /\ session[c] = "handshake"
  /\ \/ stream[c] = "open" /\ Goto(c, "reading")
     \/ Goto(c, "ended")
  /\ UNCHANGED <<server, fetching, peer, buffer, traffic, history>>

(* The answer to what the buffer holds: the statistics, which have yet to  *)
(* be fetched, or the text itself and an error.                            *)
Respond(c, commands) ==
  LET content == buffer[c] \o commands IN
  IF content = <<Text("{netstat}")>>
  THEN fetching' = c /\ buffer' = [buffer EXCEPT ![c] = <<>>]
  ELSE buffer' = [buffer EXCEPT ![c] = Append(content, UnknownCommand)] /\ UNCHANGED fetching

OnRead(c) ==
  /\ Idle /\ session[c] = "reading" /\ inbox[c] # <<>>
  /\ inbox' = [inbox EXCEPT ![c] = Tail(@)]
  /\ Respond(c, <<Text(Head(inbox[c]))>>)
  /\ Goto(c, "writing")
  /\ UNCHANGED <<server, stream, torn, traffic, history>>

(* on_read with error::closed.                                             *)
OnReadClosed(c) ==
  /\ Idle /\ session[c] = "reading" /\ inbox[c] = <<>> /\ stream[c] = "closed"
  /\ Goto(c, "ended")
  /\ UNCHANGED <<server, fetching, peer, buffer, traffic, history>>

(* on_read with another error goes on: a command that broke off after its  *)
(* last byte is carried out, for nobody.                                   *)
OnReadError(c) ==
  /\ Idle /\ session[c] = "reading" /\ inbox[c] = <<>> /\ stream[c] = "broken"
  /\ Respond(c, IF torn[c] = <<>> THEN <<>> ELSE <<Text(torn[c][1])>>)
  /\ Goto(c, "failed")
  /\ UNCHANGED <<server, peer, traffic, history>>

(* Fault: the statistics main() printed are given again.                   *)
FetchedOnce(c) ==
  /\ server = "serving" /\ fetching = c /\ fetching' = Nobody
  /\ buffer' = [buffer EXCEPT ![c] = <<Stats(0)>>]
  /\ UNCHANGED <<server, session, peer, traffic, history>>

(* ifstat has ended, and its output goes into the buffer.                  *)
Fetched(c) ==
  /\ server = "serving" /\ fetching = c /\ fetching' = Nobody
  /\ buffer' = [buffer EXCEPT ![c] = Append(@, Stats(traffic))]
  /\ UNCHANGED <<server, session, peer, traffic, history>>

(* ifstat cannot be started, here or in main().                            *)
FetchThrows ==
  /\ server = "starting" \/ fetching # Nobody
  /\ server' = "dead" /\ fetching' = Nobody
  /\ UNCHANGED <<session, peer, buffer, traffic, history>>

(* Fault: the buffer is not cleared between two messages.                  *)
OnWriteKeepsBuffer(c) ==
  /\ Idle /\ session[c] = "writing"
  /\ answers' = [answers EXCEPT ![c] = Append(@, buffer[c])]
  /\ Goto(c, "reading")
  /\ UNCHANGED <<server, fetching, peer, buffer, traffic, asked>>

(* Fault: an answer ends the session.                                      *)
OnWriteReadsNoMore(c) ==
  /\ Idle /\ session[c] = "writing"
  /\ answers' = [answers EXCEPT ![c] = Append(@, buffer[c])]
  /\ buffer' = [buffer EXCEPT ![c] = <<>>]
  /\ Goto(c, "ended")
  /\ UNCHANGED <<server, fetching, peer, traffic, asked>>

(* on_write: the buffer is cleared, and the next message awaited.          *)
OnWrite(c) ==
  /\ Idle /\ session[c] = "writing"
  /\ answers' = [answers EXCEPT ![c] = Append(@, buffer[c])]
  /\ buffer' = [buffer EXCEPT ![c] = <<>>]
  /\ Goto(c, "reading")
  /\ UNCHANGED <<server, fetching, peer, traffic, asked>>

(* on_write with an error: nothing is started, and the session goes away.  *)
OnWriteError(c) ==
  /\ Idle
  /\ \/ session[c] = "failed"
     \/ session[c] = "writing" /\ stream[c] = "broken"
  /\ Goto(c, "ended")
  /\ UNCHANGED <<server, fetching, peer, buffer, traffic, history>>

Handlers(c) ==
  \/ OnAccept(c) \/ OnRead(c) \/ OnReadClosed(c) \/ OnReadError(c)
  \/ OnWrite(c) \/ OnWriteError(c)
Client(c) == ListenerAccepts(c) \/ Send(c) \/ Leave(c) \/ Break(c)

Next ==
  \/ Listen \/ ListenFails \/ FetchThrows \/ TrafficFlows
  \/ \E c \in Clients : Client(c) \/ Handlers(c) \/ Fetched(c)

(* ioc.run() runs the handlers that are ready, and ifstat ends.            *)
Spec ==
  /\ Init /\ [][Next]_vars
  /\ \A c \in Clients : WF_vars(Handlers(c)) /\ WF_vars(Fetched(c))
-----------------------------------------------------------------------------
(* Properties.                                                             *)

(* Types; the thread waits only for a session that it has still to answer, *)
(* and a session keeps parts of a message only while it answers it.        *)
TypeOK ==
  /\ server \in {"starting", "serving", "spinning", "dead"}
  /\ session \in [Clients -> {"none", "handshake", "reading", "writing", "failed", "ended"}]
  /\ stream \in [Clients -> {"open", "closed", "broken"}]
  /\ traffic \in 0..MaxTraffic
  /\ fetching \in Clients \cup {Nobody}
  /\ fetching # Nobody => session[fetching] \in {"writing", "failed"} /\ buffer[fetching] = <<>>
  /\ \A c \in Clients :
       session[c] \in {"none", "handshake", "reading"} => buffer[c] = <<>>

(* The answer to a command: statistics no older than the question, or the  *)
(* text and an error.                                                      *)
IsAnswer(answer, message) ==
  IF message.command = "{netstat}"
  THEN \E n \in message.at..traffic : answer = <<Stats(n)>>
  ELSE answer = <<Text(message.command), UnknownCommand>>

(* Whatever other sessions do, break off or wait for, the i-th answer of a *)
(* session answers its i-th message and holds nothing else, and statistics *)
(* are taken after they were asked for.  (It is not, as the comment on the *)
(* class at taskrunner.h:84 says, an echo: on_read takes {netstat} out of  *)
(* the buffer and answers with the statistics alone.)                      *)
AnswersFitMessages ==
  \A c \in Clients :
    /\ Len(answers[c]) <= Len(asked[c])
    /\ \A i \in 1..Len(answers[c]) : IsAnswer(answers[c][i], asked[c][i])

(* As long as ifstat can be started every message is answered, unless its  *)
(* client goes away: one client's command delays the others, no more.      *)
MessagesAreAnswered ==
  \A c \in Clients :
    []<>(Len(answers[c]) = Len(asked[c]) \/ stream[c] # "open" \/ server = "dead")
=============================================================================
