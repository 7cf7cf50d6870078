------------------------------ MODULE Harness ------------------------------
(***************************************************************************)
(* The interactive test harness (src/src/Linux.cpp): a menu from which a   *)
(* user makes, uses and drops connections, all of it on one io_service.    *)
(* Connections are LinuxTCPSocket and LinuxSerialSocket objects (core/).   *)
(* The menu is a handler like those of the sockets, so what matters is the *)
(* order of the handlers in the queue, which handlers find their socket    *)
(* destroyed, and what the menu's four pointers point to.                  *)
(*                                                                         *)
(* External, as the code uses it: asio's queue, where close() queues what  *)
(* it aborts at once; the wrappers, the HDLC layer and the engine of the   *)
(* DLMS-COSEM library, which read as soon as they are connected, read      *)
(* again after each message, and are disconnected by a close handler; the  *)
(* peers, which answer requests or not, and close.                         *)
(***************************************************************************)
EXTENDS Naturals, Sequences, SequencesExt

CONSTANTS
  Names,        \* what names resolve to: sequences of endpoints
  MaxSockets    \* bound: connections made

ASSUME NamesAssumption == Names \subseteq Seq({"accepts", "refuses"})
ASSUME MaxSocketsAssumption == MaxSockets \in Nat

VARIABLES
  mode,              \* "client" or "server": the option -S
  at,                \* "queue": between handlers; a choice: its branch waits
                     \* for the user at a prompt; "exited"; "thrown": an
                     \* exception left run(); "undefined": anything may follow
  input,             \* "idle", "reading" a choice, or "closed"
  queue,             \* the handlers of the io_service, in their order; a line
                     \* that was entered is a handler of its own kind
  sockets,           \* every socket made, with the layers above it
  m_pSocket, m_pSerialSocket, m_pHDLC,   \* indices of sockets, 0 for nullptr
  parted             \* history: the user asked for a disconnect or a release

menu == <<mode, input>>
pointers == <<m_pSocket, m_pSerialSocket, m_pHDLC>>
vars == <<mode, at, input, queue, sockets, pointers, parted>>

(* Every A, B and E makes an engine along with its socket.                 *)
m_pClientEngine == Len(sockets)

(* 2 stands for 3 and 4, which look and act like it.                       *)
MenuChoices ==
  IF mode = "client"
  THEN {"0", "A", "B", "C", "D", "E", "1", "2", "5", "T", "U", "V"}
  ELSE {"0", "1", "2", "3", "V"}

Prompting == at \in MenuChoices
Alive == at = "queue" \/ Prompting

Handler(kind, k) == [kind |-> kind, of |-> k]

(* main() and the constructors, which post the menu.                       *)
Init ==
  /\ mode \in {"client", "server"} /\ at = "queue"
  /\ input = "idle"
  /\ queue = <<Handler("menu", 0)>> /\ sockets = <<>>
  /\ m_pSocket = 0 /\ m_pSerialSocket = 0 /\ m_pHDLC = 0
  /\ parted = FALSE
-----------------------------------------------------------------------------
(* Sockets.  These operators take the sockets and the queue, and give them *)
(* as they are after a call.                                               *)

World == [sockets |-> sockets, queue |-> queue]
Becomes(w) == sockets' = w.sockets /\ queue' = w.queue
Handled == [World EXCEPT !.queue = Tail(@)]

With(w, k, field, value) == [w EXCEPT !.sockets[k][field] = value]
Post(w, kind, k) == [w EXCEPT !.queue = Append(@, Handler(kind, k))]
IsUp(s) == s.layer \in {"connected", "open"}

(* CreateSocket and the constructors above it.                             *)
Create(w, kind) ==
  [w EXCEPT !.sockets = Append(@,
    [kind |-> kind, isOpen |-> FALSE, listed |-> TRUE, op |-> "none",
     left |-> <<>>, to |-> "none", layer |-> "down", pending |-> "none"])]

(* An asynchronous read, on a closed socket answered at once.              *)
StartRead(w, k) ==
  IF w.sockets[k].isOpen THEN With(w, k, "op", "reading") ELSE Post(w, "bad_descriptor", k)

(* close(): what waits is aborted, what has completed is not.              *)
CloseSocket(w, k) ==
  LET closed == [w EXCEPT !.sockets[k].isOpen = FALSE, !.sockets[k].op = "none",
                          !.sockets[k].to = "none"] IN
  CASE w.sockets[k].op = "reading" -> Post(closed, "read_aborted", k)
    [] w.sockets[k].op = "connecting" -> Post(closed, "connect_aborted", k)
    [] w.sockets[k].op = "resolving" -> With(closed, k, "op", "resolving")
    [] OTHER -> closed

(* LinuxSerialSocket::Close(), which calls the close handler itself.       *)
CloseSerial(w, k) == With(CloseSocket(w, k), k, "layer", "down")

(* Fault: the removal is posted before the socket is closed.               *)
ReleaseRemovesFirst(w, k) == CloseSocket(Post(w, "remove_tcp", k), k)

(* LinuxIP::ReleaseSocket of a TCP socket.                                 *)
ReleaseTcp(w, k) == Post(CloseSocket(w, k), "remove_tcp", k)

(* The same of a serial one, which is then looked for in the wrong list.   *)
ReleaseSerialAsTcp(w, k) == Post(CloseSerial(w, k), "remove_tcp", k)

(* LinuxSerial::ReleaseSocket.                                             *)
ReleaseSerial(w, k) == Post(CloseSerial(w, k), "remove_serial", k)

(* The next endpoint, if there is one, is tried on a fresh descriptor.     *)
ConnectNext(w, k) ==
  IF w.sockets[k].left = <<>> THEN w
  ELSE [w EXCEPT !.sockets[k].op = "connecting", !.sockets[k].isOpen = TRUE,
                 !.sockets[k].to = Head(w.sockets[k].left), !.sockets[k].left = Tail(@)]

(* LinuxTCPSocket::Open of a client resolves the name.  A server listens,  *)
(* unless another socket has bound the port.                               *)
OpenTcp(w, k, name) == With(With(w, k, "op", "resolving"), k, "left", name)
Listen(w, k) ==
  IF \E j \in 1..(k - 1) : w.sockets[j].kind = "tcp" THEN w
  ELSE With(w, k, "op", "accepting")

(* LinuxSerialSocket::Open succeeds, fails, or opens the port but fails to *)
(* set its options: then nobody is told that it is connected.              *)
OpenSerial(w, k, outcome) ==
  LET opened == With(w, k, "isOpen", TRUE)
      layer == IF w.sockets[k].kind = "hdlc" THEN "physical" ELSE "connected" IN
  CASE outcome = "fails" -> w
    [] outcome = "half" -> opened
    [] outcome = "succeeds" -> StartRead(With(opened, k, "layer", layer), k)
-----------------------------------------------------------------------------
(* The network, the peers and the user.                                    *)

Completes(k, kind) == Becomes(Post(With(World, k, "op", "none"), kind, k))

Resolve(k) ==
  /\ sockets[k].op = "resolving" /\ Completes(k, "resolved")
  /\ UNCHANGED <<at, menu, pointers, parted>>

(* A connection may be reset by its peer before its handler runs.          *)
Connects(k) ==
  /\ sockets[k].op = "connecting"
  /\ \E kind \in IF sockets[k].to = "accepts" THEN {"connected", "reset"} ELSE {"refused"} :
       Becomes(Post([World EXCEPT !.sockets[k].op = "none", !.sockets[k].to = "none"], kind, k))
  /\ UNCHANGED <<at, menu, pointers, parted>>

(* Somebody connects to the listening socket, and may break off at once.   *)
Arrives(k) ==
  /\ sockets[k].op = "accepting" /\ Completes(k, "accepted")
  /\ UNCHANGED <<at, menu, pointers, parted>>
ArrivesBroken(k) ==
  /\ sockets[k].op = "accepting" /\ Completes(k, "broken")
  /\ UNCHANGED <<at, menu, pointers, parted>>

(* A server is asked at any time, a client answered when it has asked: a   *)
(* Get perhaps with a value of another type than the client takes.         *)
Talks(k) ==
  /\ sockets[k].op = "reading" /\ (mode = "client" => sockets[k].pending # "none")
  /\ \/ Completes(k, "data")
     \/ mode = "client" /\ sockets[k].pending = "access" /\ Completes(k, "mistyped")
  /\ UNCHANGED <<at, menu, pointers, parted>>
Closes(k) ==
  /\ sockets[k].op = "reading" /\ Completes(k, "eof")
  /\ UNCHANGED <<at, menu, pointers, parted>>

(* Choices that make a socket are bounded.                                 *)
Makes(c) == c \in IF mode = "client" THEN {"A", "B", "E"} ELSE {"1", "2", "3"}
Types(c) ==
  /\ input = "reading" /\ Alive
  /\ Makes(c) => Len(sockets) < MaxSockets
  /\ input' = "idle"
  /\ Becomes(Post(World, c, 0))
  /\ UNCHANGED <<mode, at, pointers, parted>>

(* The end of the input: ReadLine_Handler does nothing on an error.        *)
EndsInput ==
  /\ input = "reading" /\ input' = "closed"
  /\ UNCHANGED <<mode, at, queue, sockets, pointers, parted>>
-----------------------------------------------------------------------------
(* Handlers of sockets.                                                    *)

Running == at = "queue" /\ queue # <<>>
Next1 == Head(queue)
Handles(kind) == Running /\ Next1.kind = kind /\ (Next1.of # 0 => sockets[Next1.of].listed)
It == Next1.of

Ends(how) == at' = how /\ UNCHANGED <<queue, sockets, pointers>>
Keeps == UNCHANGED <<at, menu, pointers, parted>>

RunResolved == Handles("resolved") /\ Becomes(ConnectNext(Handled, It)) /\ Keeps

(* remote_endpoint() throws when the user has closed the socket meanwhile. *)
RunConnected ==
  /\ Handles("connected")
  /\ IF sockets[It].isOpen
     THEN Becomes(StartRead(With(Handled, It, "layer", "connected"), It)) /\ UNCHANGED <<at, pointers>>
     ELSE Ends("thrown")
  /\ UNCHANGED <<menu, parted>>

RunAccepted ==
  /\ Handles("accepted")
  /\ Becomes(StartRead([Handled EXCEPT !.sockets[It].isOpen = TRUE, !.sockets[It].layer = "connected"], It))
  /\ Keeps

(* It throws as well when the peer has reset the connection meanwhile.     *)
RunBroken ==
  /\ Handles("broken") \/ Handles("reset")
  /\ Ends("thrown") /\ UNCHANGED <<menu, parted>>

(* Fault: the next endpoint is never tried.                                *)
RunNotConnectedGivesUp ==
  /\ Handles("refused") \/ Handles("connect_aborted")
  /\ Becomes(Handled) /\ Keeps

(* Also of a socket that was released meanwhile.                           *)
RunNotConnected ==
  /\ Handles("refused") \/ Handles("connect_aborted")
  /\ Becomes(ConnectNext(Handled, It)) /\ Keeps

(* The close handler of the layer above; the socket itself stays open.     *)
RunClosed ==
  /\ Handles("eof") \/ Handles("read_aborted")
  /\ Becomes(With(Handled, It, "layer", "down")) /\ Keeps

RunBadDescriptor == Handles("bad_descriptor") /\ Becomes(Handled) /\ Keeps

(* Messages that do not disconnect; the peer may have declined.            *)
RunData ==
  /\ Handles("data") /\ sockets[It].pending # "unlink"
  /\ \E layer \in {sockets[It].layer,
                   CASE sockets[It].pending = "associate" -> "open"
                     [] sockets[It].pending \in {"link", "release"} -> "connected"
                     [] OTHER -> sockets[It].layer} :
       Becomes(StartRead([Handled EXCEPT !.sockets[It].layer = layer,
                                         !.sockets[It].pending = "none"], It))
  /\ Keeps

(* OnGetConfirmation takes the value for the type it expects, and nothing  *)
(* catches what that throws.                                               *)
RunMistyped == Handles("mistyped") /\ Ends("thrown") /\ UNCHANGED <<menu, parted>>

(* DisconnectConfirm: whatever m_pSerialSocket points to by now is         *)
(* released; close() throws on a port that is not open.                    *)
RunDisconnectConfirm ==
  /\ Handles("data") /\ sockets[It].pending = "unlink"
  /\ CASE m_pSerialSocket = 0 -> Ends("undefined")
       [] m_pSerialSocket # 0 /\ ~sockets[m_pSerialSocket].isOpen -> Ends("thrown")
       [] OTHER ->
            LET unlinked == [Handled EXCEPT !.sockets[It].layer = "down", !.sockets[It].pending = "none"]
            IN  /\ Becomes(StartRead(ReleaseSerial(unlinked, m_pSerialSocket), It))
                /\ m_pSerialSocket' = 0 /\ m_pSocket' = 0
                /\ UNCHANGED <<at, m_pHDLC>>
  /\ UNCHANGED <<menu, parted>>

(* RemoveSocket of both kinds of list.  What a TCP socket still waits for  *)
(* is aborted by its destructor; a resolver is silent then.                *)
RunRemove ==
  /\ Handles("remove_tcp") \/ Handles("remove_serial")
  /\ LET tcp == sockets[It].kind = "tcp" IN
     IF tcp = (Next1.kind = "remove_tcp")
     THEN Becomes(With(With(CloseSocket(Handled, It), It, "listed", FALSE), It, "op", "none"))
     ELSE Becomes(Handled)
  /\ Keeps

(* A handler that finds its socket destroyed.  It is harmless if it looks  *)
(* at nothing but its own arguments.                                       *)
Dereferences(h) ==
  CASE h.kind \in {"resolved", "refused", "connect_aborted"} -> sockets[h.of].left # <<>>
    [] h.kind = "bad_descriptor" -> sockets[h.of].kind = "tcp"
    [] h.kind \in {"remove_tcp", "remove_serial"} -> FALSE
    [] OTHER -> TRUE

RunStale ==
  /\ Running /\ It # 0 /\ ~sockets[It].listed
  /\ IF Dereferences(Next1) THEN Ends("undefined")
     ELSE Becomes(Handled) /\ UNCHANGED <<at, pointers>>
  /\ UNCHANGED <<menu, parted>>
-----------------------------------------------------------------------------
(* The menu.  A branch looks at the pointers, may prompt for its arguments *)
(* while nothing else runs, and acts; then the menu is posted again.       *)

RunMenu ==
  /\ Handles("menu") /\ Becomes(Handled)
  /\ input' = IF input = "closed" THEN input ELSE "reading"
  /\ UNCHANGED <<mode, at, pointers, parted>>

Again(w) == Becomes(Post(w, "menu", 0)) /\ at' = "queue"

(* A request through the layers over socket k.                             *)
Submit(w, k, request) ==
  IF sockets[k].listed THEN Again(With(w, k, "pending", request)) /\ UNCHANGED pointers
  ELSE Ends("undefined")

(* Fault: 1 does not ask whether the engine's transport is connected.      *)
GuardTrustsSocket(c) ==
  CASE c = "D" -> m_pSerialSocket # 0 /\ m_pHDLC # 0 /\ sockets[m_pSerialSocket].isOpen
    [] c = "1" -> m_pSocket # 0 /\ sockets[m_pSocket].isOpen
    [] c = "2" ->
         m_pSocket # 0 /\ sockets[m_pSocket].isOpen /\ sockets[m_pClientEngine].layer = "open"
    [] OTHER -> TRUE

(* What the branch of a choice asks before it prompts.                     *)
Guard(c) ==
  CASE c = "D" -> m_pSerialSocket # 0 /\ m_pHDLC # 0 /\ sockets[m_pSerialSocket].isOpen
    [] c = "1" -> m_pSocket # 0 /\ sockets[m_pSocket].isOpen /\ IsUp(sockets[m_pClientEngine])
    [] c = "2" ->
         m_pSocket # 0 /\ sockets[m_pSocket].isOpen /\ sockets[m_pClientEngine].layer = "open"
    [] OTHER -> TRUE

Prompts(c) ==
  IF mode = "client" THEN c \in {"A", "B", "D", "E", "1", "2"} ELSE c \in {"2", "3"}

Chosen(c) == Handles(c) /\ c \in MenuChoices

RunPrompt ==
  /\ \E c \in MenuChoices :
       /\ Chosen(c) /\ Prompts(c) /\ (mode = "client" => Guard(c))
       /\ at' = c
  /\ Becomes(Handled)
  /\ UNCHANGED <<menu, pointers, parted>>

(* V has no branch; a guard that fails only prints a line.                 *)
RunNothing ==
  /\ Chosen("V") \/ \E c \in MenuChoices : Chosen(c) /\ mode = "client" /\ Prompts(c) /\ ~Guard(c)
  /\ Again(Handled) /\ UNCHANGED <<menu, pointers, parted>>

RunExit == Chosen("0") /\ Ends("exited") /\ UNCHANGED <<menu, parted>>

(* C: HDLC Identify.                                                       *)
RunIdentify ==
  /\ Chosen("C")
  /\ IF m_pHDLC = 0 THEN Again(Handled) /\ UNCHANGED pointers
     ELSE Submit(Handled, m_pHDLC, "identify")
  /\ UNCHANGED <<menu, parted>>

(* 5: COSEM Release looks at no pointer.                                   *)
RunRelease ==
  /\ Chosen("5") /\ mode = "client" /\ parted' = TRUE
  /\ CASE m_pClientEngine = 0 -> Ends("undefined")
       [] m_pClientEngine # 0 /\ sockets[m_pClientEngine].layer = "open" ->
            Submit(Handled, m_pClientEngine, "release")
       [] OTHER -> Again(Handled) /\ UNCHANGED pointers
  /\ UNCHANGED menu

(* Fault: the pointer to the released socket is kept.                      *)
RunTcpDisconnectKeeps ==
  /\ Chosen("T") /\ parted' = TRUE
  /\ CASE m_pSocket = 0 -> Again(Handled) /\ UNCHANGED pointers
       [] m_pSocket # 0 /\ sockets[m_pSocket].kind = "tcp" ->
            Again(ReleaseTcp(Handled, m_pSocket)) /\ UNCHANGED pointers
       [] OTHER -> Again(Handled) /\ UNCHANGED pointers
  /\ UNCHANGED menu

(* T: TCP Disconnect, whatever kind of socket it is.                       *)
RunTcpDisconnect ==
  /\ Chosen("T") /\ parted' = TRUE
  /\ CASE m_pSocket = 0 -> Again(Handled) /\ UNCHANGED pointers
       [] m_pSocket # 0 /\ sockets[m_pSocket].kind = "tcp" ->
            /\ Again(ReleaseTcp(Handled, m_pSocket))
            /\ m_pSocket' = 0 /\ UNCHANGED <<m_pSerialSocket, m_pHDLC>>
       [] m_pSocket # 0 /\ sockets[m_pSocket].kind # "tcp" /\ sockets[m_pSocket].isOpen ->
            /\ Again(ReleaseSerialAsTcp(Handled, m_pSocket))
            /\ m_pSocket' = 0 /\ UNCHANGED <<m_pSerialSocket, m_pHDLC>>
       [] OTHER -> Ends("thrown")
  /\ UNCHANGED menu

(* U: HDLC Disconnect.                                                     *)
RunHdlcDisconnect ==
  /\ Chosen("U") /\ parted' = TRUE
  /\ IF m_pHDLC # 0 /\ IsUp(sockets[m_pHDLC]) THEN Submit(Handled, m_pHDLC, "unlink")
     ELSE Again(Handled) /\ UNCHANGED pointers
  /\ UNCHANGED menu
-----------------------------------------------------------------------------
(* The user answers the prompts, and the branch acts.                      *)

Answers(c) == at = c /\ mode = "client"
Made == Len(sockets) + 1

(* A: TCP Connect.                                                         *)
TcpConnect ==
  /\ Answers("A")
  /\ \E name \in Names : Again(OpenTcp(Create(World, "tcp"), Made, name))
  /\ m_pSocket' = Made /\ UNCHANGED <<m_pSerialSocket, m_pHDLC, menu, parted>>

(* Fault: a port that failed to open is closed, where cancel() throws.     *)
HdlcConnectCloses ==
  /\ Answers("B")
  /\ \/ Ends("thrown")
     \/ /\ Again(OpenSerial(Create(World, "hdlc"), Made, "succeeds"))
        /\ m_pSocket' = Made /\ m_pSerialSocket' = Made /\ m_pHDLC' = Made
  /\ UNCHANGED <<menu, parted>>

(* B: HDLC Physical Connect.                                               *)
HdlcConnect ==
  /\ Answers("B")
  /\ \E outcome \in {"fails", "half", "succeeds"} :
       /\ Again(OpenSerial(Create(World, "hdlc"), Made, outcome))
       /\ m_pSocket' = IF outcome = "succeeds" THEN Made ELSE m_pSocket
  /\ m_pSerialSocket' = Made /\ m_pHDLC' = Made /\ UNCHANGED <<menu, parted>>

(* E: Serial Wrapper Connect.                                              *)
WrapperConnect ==
  /\ Answers("E")
  /\ \E outcome \in {"fails", "half", "succeeds"} :
       Again(OpenSerial(Create(World, "wrapper"), Made, outcome))
  /\ m_pSerialSocket' = Made /\ m_pSocket' = Made /\ UNCHANGED <<m_pHDLC, menu, parted>>

(* D: HDLC Datalink Connect.                                               *)
DatalinkConnect == Answers("D") /\ Submit(World, m_pHDLC, "link") /\ UNCHANGED <<menu, parted>>

(* 1 to 4: the arguments may be ones for which nothing is sent.            *)
Request ==
  /\ Answers("1") \/ Answers("2")
  /\ \/ Again(World) /\ UNCHANGED pointers
     \/ Submit(World, m_pClientEngine, IF at = "1" THEN "associate" ELSE "access")
  /\ UNCHANGED <<menu, parted>>

(* The server's menu: 1 listens without a prompt, 2 and 3 open a port.     *)
TcpServer ==
  /\ mode = "server" /\ Chosen("1")
  /\ Again(Listen(Create(Handled, "tcp"), Made))
  /\ UNCHANGED <<pointers, menu, parted>>
SerialServer ==
  /\ mode = "server" /\ Prompting
  /\ \E outcome \in {"fails", "half", "succeeds"} :
       Again(OpenSerial(Create(World, IF at = "2" THEN "hdlc" ELSE "wrapper"), Made, outcome))
  /\ UNCHANGED <<pointers, menu, parted>>

(* GetLine() throws at the end of the input.                               *)
EndsPrompt ==
  /\ Prompting /\ at' = "thrown" /\ input' = "closed"
  /\ UNCHANGED <<mode, queue, sockets, pointers, parted>>

(* run() returns when nothing is left to do.                               *)
RunReturns ==
  /\ at = "queue" /\ queue = <<>> /\ input = "closed"
  /\ \A k \in DOMAIN sockets : sockets[k].op = "none"
  /\ at' = "exited" /\ UNCHANGED <<menu, queue, sockets, pointers, parted>>

Run ==
  \/ RunResolved \/ RunConnected \/ RunAccepted \/ RunBroken \/ RunNotConnected
  \/ RunClosed \/ RunBadDescriptor \/ RunData \/ RunMistyped \/ RunDisconnectConfirm
  \/ RunRemove \/ RunStale \/ RunMenu \/ RunPrompt \/ RunNothing \/ RunExit \/ RunIdentify
  \/ RunRelease \/ RunTcpDisconnect \/ RunHdlcDisconnect \/ TcpServer \/ RunReturns
User ==
  \/ \E c \in MenuChoices : Types(c)
  \/ EndsInput \/ TcpConnect \/ HdlcConnect \/ WrapperConnect \/ DatalinkConnect
  \/ Request \/ SerialServer \/ EndsPrompt
Network == Alive /\ \E k \in DOMAIN sockets : Resolve(k) \/ Connects(k)
Peers ==
  /\ Alive
  /\ \E k \in DOMAIN sockets : Arrives(k) \/ ArrivesBroken(k) \/ Talks(k) \/ Closes(k)

Next == Run \/ User \/ Network \/ Peers

(* io_service::run goes on, names resolve or fail, and attempts to connect *)
(* end.  Nothing is assumed of the user, not even that a prompt is         *)
(* answered, nor of the peers.                                             *)
Spec == Init /\ [][Next]_vars /\ WF_vars(Run) /\ WF_vars(Network)
-----------------------------------------------------------------------------
(* Properties.                                                             *)

Listed(k) == k \in DOMAIN sockets /\ sockets[k].listed

(* Types; the menu's pointers to sockets are null or point to sockets that *)
(* exist, in whatever order connections are made, fail and are dropped.    *)
TypeOK ==
  /\ mode \in {"client", "server"} /\ at \in {"queue", "exited", "thrown", "undefined"} \cup MenuChoices
  /\ input \in {"idle", "reading", "closed"} /\ parted \in BOOLEAN
  /\ Len(sockets) <= MaxSockets /\ m_pHDLC \in 0..Len(sockets)
  /\ \A k \in DOMAIN sockets :
       /\ sockets[k].kind \in {"tcp", "hdlc", "wrapper"}
       /\ sockets[k].op \in {"none", "resolving", "connecting", "accepting", "reading"}
       /\ sockets[k].layer \in {"down", "physical", "connected", "open"}
  /\ \A p \in {m_pSocket, m_pSerialSocket} : p = 0 \/ Listed(p)

(* "Post to allow socket cleanup befor removal" (LinuxSocket.cpp:107) is   *)
(* enough for a connection that was established: when its socket is        *)
(* destroyed no read of it is left that had been waiting, only one that    *)
(* was started on the closed socket.  Of others an attempt may be left.    *)
QuietAfterRemoval ==
  \A i \in DOMAIN queue :
    LET h == queue[i] IN
    (h.of # 0 /\ ~Listed(h.of)) =>
      \/ h.kind = "bad_descriptor"
      \/ /\ h.kind \in {"resolved", "connected", "reset", "refused", "connect_aborted"}
         /\ sockets[h.of].kind = "tcp" /\ sockets[h.of].layer = "down"

(* An association is opened, and data are requested, only through the      *)
(* layers over the open socket that the menu takes for the current one,    *)
(* although engine and socket are kept in two pointers that failed and     *)
(* dropped connections move apart.                                         *)
RequestsUseOwnSocket ==
  [][\A k \in DOMAIN sockets :
       (sockets'[k].pending # sockets[k].pending /\ sockets'[k].pending \in {"associate", "access"})
         => k = m_pSocket /\ Listed(k) /\ sockets[k].isOpen]_vars

(* An exception leaves the queue as it is; its first handler threw because *)
(* of what the peer did, if it is one of these.                            *)
PeerIsToBlame == queue # <<>> /\ Head(queue).kind \in {"reset", "mistyped"}

(* Making connections, with any outcome, and using them is safe in every   *)
(* order but for what the peer can do at any time: until the user asks for *)
(* a disconnect or a release, a client never follows a stray pointer, and  *)
(* dies of an exception only when the user ends the input at a prompt, the *)
(* peer resets a connection before its handler has run, or it answers with *)
(* a value of another type.                                                *)
ConnectingIsSafe ==
  mode = "client" /\ ~parted =>
    at # "undefined" /\ (at = "thrown" => input = "closed" \/ PeerIsToBlame)

(* A name with an endpoint that accepts is connected to in the end, also   *)
(* behind ones that refuse, unless the socket is released, the process     *)
(* ends, or the user leaves a prompt unanswered: that stops everything.    *)
FallbackWorks ==
  \A k \in 1..MaxSockets :
    (k \in DOMAIN sockets /\ sockets[k].op = "resolving" /\ "accepts" \in ToSet(sockets[k].left))
      ~> (\/ k \in DOMAIN sockets /\ (sockets[k].layer # "down" \/ ~sockets[k].listed)
          \/ ~Alive \/ []Prompting)
=============================================================================
