----------------------------- MODULE HesConfig -----------------------------
(***************************************************************************)
(* The settings of the head-end, src/src/websocket/HESConfig.cpp, and the  *)
(* websocket server that changes them, server.cpp, with the main thread of *)
(* HESsim.cpp that uses them.  The server runs all sessions on one thread, *)
(* so a handler is one step.  It stores the two settings one after the     *)
(* other and without the lock that the readers take: a data race, modelled *)
(* by two views.  `written` is what the server's thread has stored, `seen` *)
(* what main's thread reads; each setting becomes visible on its own.      *)
(***************************************************************************)
EXTENDS Naturals, Sequences, FiniteSetsExt

CONSTANTS
  Clients,       \* browsers, one websocket each
  Messages,      \* what clients send: [size, route], a setting or "none"
  Registered,    \* how many meters the head-end contacts in a pass
  MaxMessages    \* bound: messages sent in all, whole or broken off

Sizes == {"small", "medium", "large"}
Routes == {"yes", "no"}    \* route_only
Settings == [size : Sizes, route : Routes]

ASSUME MessagesAssumption ==
  Messages \subseteq [size : Sizes \cup {"none"}, route : Routes \cup {"none"}]
ASSUME BoundsAssumption == Registered \in Nat /\ MaxMessages \in Nat

VARIABLES
  written,   \* HESConfig's fields as the server's thread sees them
  seen,      \* the same fields as main's thread sees them
  session,   \* where each client's session is
  stream,    \* each client's side: "open", "closed" by handshake, or "broken"
  inbox,     \* whole messages that wait to be read
  torn,      \* what arrived of a message that broke off, <<>> or one text
  buffer,    \* the session's multi_buffer, as the texts it holds
  sent,      \* history: whole messages sent
  echoed,    \* history: buffers written back
  main,      \* the main thread: "asleep" or in a "pass"
  mode,      \* route_only as this pass has read it
  sizes      \* the payload sizes this pass has read

config == <<written, seen>>
peer == <<stream, inbox, torn>>
pass == <<main, mode, sizes>>
vars == <<config, session, peer, buffer, sent, echoed, pass>>

Everyone(x) == [c \in Clients |-> x]

Init ==
  /\ written = [size |-> "small", route |-> "yes"] /\ seen = written
  /\ session = Everyone("none") /\ stream = Everyone("open")
  /\ inbox = Everyone(<<>>) /\ torn = Everyone(<<>>) /\ buffer = Everyone(<<>>)
  /\ sent = Everyone(<<>>) /\ echoed = Everyone(<<>>)
  /\ main = "asleep" /\ mode = "yes" /\ sizes = <<>>
-----------------------------------------------------------------------------
(* HESConfig.                                                              *)

(* Fault: a missing route_only is taken to be false.                       *)
LoadedWithDefault(text) ==
  IF Len(text) # 1 \/ text[1].size = "none" THEN written
  ELSE [size |-> text[1].size,
        route |-> IF text[1].route = "none" THEN "no" ELSE text[1].route]

(* load_from_string(): the fields after loading a text.  Only one JSON     *)
(* document parses; a missing payload_size throws before anything is       *)
(* stored, a missing route_only when payload_size already is.              *)
Loaded(text) ==
  IF Len(text) # 1 \/ text[1].size = "none" THEN written
  ELSE [size |-> text[1].size,
        route |-> IF text[1].route = "none" THEN written.route ELSE text[1].route]

(* A store of the server's thread reaches main's thread.                   *)
Publish ==
  /\ \E f \in {"size", "route"} :
       seen[f] # written[f] /\ seen' = [seen EXCEPT ![f] = written[f]]
  /\ UNCHANGED <<written, session, peer, buffer, sent, echoed, pass>>
-----------------------------------------------------------------------------
(* Clients.                                                                *)

Goto(c, label) == session' = [session EXCEPT ![c] = label]

Count == FoldSet(LAMBDA c, n : n + Len(sent[c]) + Len(torn[c]), 0, Clients)

InUse(c) == stream[c] = "open" /\ session[c] \in {"reading", "writing"}

(* A client may send again before it has seen the echo.                    *)
Send(c) ==
  /\ InUse(c) /\ Count < MaxMessages
  /\ \E m \in Messages :
       /\ inbox' = [inbox EXCEPT ![c] = Append(@, m)]
       /\ sent' = [sent EXCEPT ![c] = Append(@, m)]
  /\ UNCHANGED <<config, session, stream, torn, buffer, echoed, pass>>

Leave(c) ==
  /\ InUse(c)
  /\ stream' = [stream EXCEPT ![c] = "closed"]
  /\ UNCHANGED <<config, session, inbox, torn, buffer, sent, echoed, pass>>

(* The connection breaks, perhaps in the middle of a message whose frames  *)
(* so far already hold a document; a reset drops what was not yet read.    *)
Break(c) ==
  /\ stream[c] = "open" /\ session[c] \in {"handshake", "reading", "writing"}
  /\ stream' = [stream EXCEPT ![c] = "broken"]
  /\ \/ UNCHANGED <<inbox, torn>>
     \/ inbox' = [inbox EXCEPT ![c] = <<>>] /\ UNCHANGED torn
     \/ /\ InUse(c) /\ Count < MaxMessages
        /\ \E m \in Messages : torn' = [torn EXCEPT ![c] = <<m>>]
        /\ UNCHANGED inbox
  /\ UNCHANGED <<config, session, buffer, sent, echoed, pass>>
-----------------------------------------------------------------------------
(* server.cpp: the listener and the sessions.                              *)

(* A client connects; listener::on_accept makes it a session of its own    *)
(* and awaits the next one.                                                *)
ListenerAccepts(c) ==
  /\ session[c] = "none"
  /\ Goto(c, "handshake")
  /\ UNCHANGED <<config, peer, buffer, sent, echoed, pass>>

(* on_accept: after a handshake that failed nothing holds the session.     *)
OnAccept(c) ==
  /\ session[c] = "handshake"
  /\ \/ stream[c] = "open" /\ Goto(c, "reading")
     \/ Goto(c, "ended")
  /\ UNCHANGED <<config, peer, buffer, sent, echoed, pass>>

(* Fault: a text that does not load ends the session.                      *)
OnReadDropsBad(c) ==
  /\ session[c] = "reading" /\ inbox[c] # <<>>
  /\ inbox' = [inbox EXCEPT ![c] = Tail(@)]
  /\ written' = Loaded(<<Head(inbox[c])>>)
  /\ IF Head(inbox[c]).size = "none" THEN Goto(c, "ended") /\ UNCHANGED buffer
     ELSE Goto(c, "writing") /\ buffer' = [buffer EXCEPT ![c] = Append(@, Head(inbox[c]))]
  /\ UNCHANGED <<seen, stream, torn, sent, echoed, pass>>

(* Fault: the buffer is cleared before it is written back.                 *)
OnReadClearsFirst(c) ==
  /\ session[c] = "reading" /\ inbox[c] # <<>>
  /\ inbox' = [inbox EXCEPT ![c] = Tail(@)]
  /\ written' = Loaded(<<Head(inbox[c])>>)
  /\ Goto(c, "writing")
  /\ UNCHANGED <<seen, stream, torn, buffer, sent, echoed, pass>>

(* on_read with a whole message: it is loaded, and the buffer, which it    *)
(* was appended to, written back.                                          *)
OnRead(c) ==
  /\ session[c] = "reading" /\ inbox[c] # <<>>
  /\ inbox' = [inbox EXCEPT ![c] = Tail(@)]
  /\ buffer' = [buffer EXCEPT ![c] = Append(@, Head(inbox[c]))]
  /\ written' = Loaded(buffer'[c])
  /\ Goto(c, "writing")
  /\ UNCHANGED <<seen, stream, torn, sent, echoed, pass>>

(* on_read with error::closed.                                             *)
OnReadClosed(c) ==
  /\ session[c] = "reading" /\ inbox[c] = <<>> /\ stream[c] = "closed"
  /\ Goto(c, "ended")
  /\ UNCHANGED <<config, peer, buffer, sent, echoed, pass>>

(* on_read with another error is reported and goes on: whatever the buffer *)
(* holds is loaded and written to a stream that has failed.                *)
OnReadError(c) ==
  /\ session[c] = "reading" /\ inbox[c] = <<>> /\ stream[c] = "broken"
  /\ buffer' = [buffer EXCEPT ![c] = @ \o torn[c]]
  /\ written' = Loaded(buffer'[c])
  /\ Goto(c, "failed")
  /\ UNCHANGED <<seen, peer, sent, echoed, pass>>

(* Fault: the buffer is not cleared between two messages.                  *)
OnWriteKeepsBuffer(c) ==
  /\ session[c] = "writing"
  /\ echoed' = [echoed EXCEPT ![c] = Append(@, buffer[c])]
  /\ Goto(c, "reading")
  /\ UNCHANGED <<config, peer, buffer, sent, pass>>

(* on_write: the buffer is cleared, and the next message awaited.          *)
OnWrite(c) ==
  /\ session[c] = "writing"
  /\ echoed' = [echoed EXCEPT ![c] = Append(@, buffer[c])]
  /\ buffer' = [buffer EXCEPT ![c] = <<>>]
  /\ Goto(c, "reading")
  /\ UNCHANGED <<config, peer, sent, pass>>

(* on_write with an error: nothing is started, and the session goes away.  *)
OnWriteError(c) ==
  /\ \/ session[c] = "failed"
     \/ session[c] = "writing" /\ stream[c] = "broken"
  /\ Goto(c, "ended")
  /\ UNCHANGED <<config, peer, buffer, sent, echoed, pass>>
-----------------------------------------------------------------------------
(* HESsim.cpp: the main thread.                                            *)

(* get_route_only() chooses between runScript and multiRead.               *)
BeginPass ==
  /\ main = "asleep" /\ main' = "pass"
  /\ mode' = seen.route /\ sizes' = <<>>
  /\ UNCHANGED <<config, session, peer, buffer, sent, echoed>>

(* runScript reads the size for each meter, multiRead once.                *)
Reads == IF mode = "yes" THEN Registered ELSE 1

(* get_payload_size().                                                     *)
ReadSize ==
  /\ main = "pass" /\ Len(sizes) < Reads
  /\ sizes' = Append(sizes, seen.size)
  /\ UNCHANGED <<config, session, peer, buffer, sent, echoed, main, mode>>

EndPass ==
  /\ main = "pass" /\ Len(sizes) = Reads
  /\ main' = "asleep"
  /\ UNCHANGED <<config, session, peer, buffer, sent, echoed, mode, sizes>>

Client(c) == ListenerAccepts(c) \/ Send(c) \/ Leave(c) \/ Break(c)
Server(c) ==
  \/ OnAccept(c)
  \/ OnRead(c) \/ OnReadClosed(c) \/ OnReadError(c)
  \/ OnWrite(c) \/ OnWriteError(c)
Main == BeginPass \/ ReadSize \/ EndPass

Next == (\E c \in Clients : Client(c) \/ Server(c)) \/ Main \/ Publish

(* Both threads run, and a store is visible after a finite time.           *)
Spec ==
  /\ Init /\ [][Next]_vars
  /\ WF_vars(Main) /\ WF_vars(Publish)
  /\ \A c \in Clients : WF_vars(Server(c))
-----------------------------------------------------------------------------
(* Properties.                                                             *)

(* Types; a session holds at most one text.                                *)
TypeOK ==
  /\ written \in Settings /\ seen \in Settings
  /\ session \in [Clients -> {"none", "handshake", "reading", "writing", "failed",
                              "ended"}]
  /\ stream \in [Clients -> {"open", "closed", "broken"}]
  /\ inbox \in [Clients -> Seq(Messages)] /\ sent \in [Clients -> Seq(Messages)]
  /\ torn \in [Clients -> Seq(Messages)] /\ buffer \in [Clients -> Seq(Messages)]
  /\ echoed \in [Clients -> Seq(Seq(Messages))]
  /\ \A c \in Clients : Len(torn[c]) <= 1 /\ Len(buffer[c]) <= 1
  /\ main \in {"asleep", "pass"} /\ mode \in Routes
  /\ sizes \in Seq(Sizes) /\ Len(sizes) <= Reads

(* The texts that ever arrived at the server.                              *)
Arrived ==
  {m \in Messages : \E c \in Clients :
     torn[c] = <<m>> \/ \E i \in 1..Len(sent[c]) : sent[c][i] = m}

(* Whatever the two threads interleave and whichever documents fail to     *)
(* load halfway, a pass uses only settings that were the default or that   *)
(* somebody sent, and a mode only from a message that had a size as well.  *)
SettingsWereSent ==
  /\ \A i \in 1..Len(sizes) : sizes[i] = "small" \/ \E m \in Arrived : m.size = sizes[i]
  /\ mode = "yes" \/ \E m \in Arrived : m.route = mode /\ m.size # "none"

(* "Echoes back all received WebSocket messages" (server.h): however many  *)
(* messages a client has under way, the echoes are its messages, one by    *)
(* one, in order and whole.                                                *)
EchoesAreMessages ==
  \A c \in Clients :
    /\ Len(echoed[c]) <= Len(sent[c])
    /\ \A i \in 1..Len(echoed[c]) : echoed[c][i] = <<sent[c][i]>>

(* Each message is echoed, whether it loads or not, unless the connection  *)
(* breaks; and again and again there is a pass that used the two settings  *)
(* written last: passes go on for ever, and once nobody changes them any   *)
(* more, both reach the main thread.                                       *)
MessagesTakeEffect ==
  /\ \A c \in Clients : \A k \in 1..MaxMessages :
       Len(sent[c]) >= k ~> (Len(echoed[c]) >= k \/ stream[c] = "broken")
  /\ []<>(/\ main = "asleep" /\ Len(sizes) = Reads
          /\ mode = written.route /\ \A i \in 1..Len(sizes) : sizes[i] = written.size)
=============================================================================
