---------------------------- MODULE SerialSocket ----------------------------
(***************************************************************************)
(* One LinuxSerialSocket (src/src/core/LinuxSerial.cpp) on its io_service: *)
(* asynchronous reads with a timeout, Close() and ReleaseSocket().  All of *)
(* it runs on one thread, so what matters is the order in which io_service *)
(* runs the handlers that are queued.                                      *)
(*                                                                         *)
(* External, as the code uses it: asio's queue.  The reactor's turn is an  *)
(* item of that queue; in its turn it appends the descriptor if it became  *)
(* readable, then the timer if it is due.  A read on the descriptor is     *)
(* tried at once and queues its completion, or waits for the reactor.      *)
(* cancel() recalls only what waits: an operation that has finished, or an *)
(* expiry that is queued, still runs.  Aborted waits of the timer do       *)
(* nothing when they run and are left out.  The user is the wrapper or the *)
(* HDLC layer: it has at most one read outstanding, as the library does.   *)
(***************************************************************************)
EXTENDS Integers, Sequences, FiniteSets

CONSTANTS
  Wants,      \* the values of ReadAtLeast
  MaxReads,   \* bound: reads started
  MaxBytes    \* bound: bytes that arrive

ASSUME WantsAssumption == Wants \subseteq Nat \ {0}
ASSUME BoundsAssumption == MaxReads \in Nat /\ MaxBytes \in Nat

VARIABLES
  at,                \* "queue": between handlers; "moved": in the composed
                     \* read, after some bytes; "user": in the user's code;
                     \* "terminated": an exception left io_service::run
  queue,             \* handlers in the order they will run
  isOpen, removed,   \* m_Port is open; the socket object was destroyed
  read,              \* "none", "waiting" in the reactor, "queued" to complete
  want, got,         \* bytes the read asked for; bytes it has
  timed,             \* it was given a timeout
  timer, armedFor,   \* m_ReadTimer: "off", "armed", "due"; the read it is for
  arrived, line,     \* bytes that arrived so far; in the kernel's buffer
  gone,              \* the other end of the line hung up
  buffered, taken,   \* bytes in m_ReadBuffer; bytes the user took from it
  reads, answered    \* reads started; reads whose outcome the user was told

input == <<arrived, line, gone>>
buffers == <<buffered, taken>>
port == <<isOpen, removed>>
request == <<want, timed, reads>>
clock == <<timer, armedFor>>
vars == <<at, queue, isOpen, removed, read, want, got, timed, timer, armedFor,
          arrived, line, gone, buffered, taken, reads, answered>>

(* A handler: its kind, the read it belongs to (0: none), and for an       *)
(* aborted read the read whose timeout aborted it (0: the port closed).    *)
Item == [kind : {"reactor", "other", "ready", "moved", "eof", "bad_descriptor",
                 "aborted", "expiry", "remove"},
         of : 0..MaxReads, by : 0..MaxReads]
Handler(kind, of, by) == [kind |-> kind, of |-> of, by |-> by]
Reactor == Handler("reactor", 0, 0)

(* Open() succeeded, and m_Connect has called the user.                    *)
Init ==
  /\ at = "user" /\ queue = <<Reactor>> /\ isOpen = TRUE /\ removed = FALSE
  /\ read = "none" /\ want = 0 /\ got = 0 /\ timed = FALSE
  /\ timer = "off" /\ armedFor = 0
  /\ arrived = 0 /\ line = 0 /\ gone = FALSE /\ buffered = 0 /\ taken = 0
  /\ reads = 0 /\ answered = 0
-----------------------------------------------------------------------------
(* The line and the clock.                                                 *)

ByteArrives ==
  /\ arrived < MaxBytes /\ ~gone
  /\ arrived' = arrived + 1 /\ line' = line + 1
  /\ UNCHANGED <<at, queue, port, read, request, got, clock, gone, buffers, answered>>

HangUp ==
  /\ ~gone /\ gone' = TRUE
  /\ UNCHANGED <<at, queue, port, read, request, got, clock, arrived, line, buffers, answered>>

TimeIsUp ==
  /\ timer = "armed" /\ timer' = "due"
  /\ UNCHANGED <<at, queue, port, read, request, got, armedFor, input, buffers, answered>>
-----------------------------------------------------------------------------
(* io_service::run.                                                        *)

Handles(kind) == at = "queue" /\ Head(queue).kind = kind

(* What the reactor finds in its turn; it blocks while there is nothing.   *)
Ready ==
  IF isOpen /\ read = "waiting" /\ (line > 0 \/ gone)
  THEN <<Handler("ready", reads, 0)>> ELSE <<>>
Expiry == IF timer = "due" THEN <<Handler("expiry", armedFor, 0)>> ELSE <<>>
Other == <<Handler("other", 0, 0)>>

RunReactor ==
  /\ Handles("reactor")
  /\ \E descriptors \in {Ready, Other \o Ready, Ready \o Other} :
       /\ Tail(queue) \o descriptors \o Expiry # <<>>
       /\ queue' = Tail(queue) \o descriptors \o Expiry \o <<Reactor>>
  /\ timer' = IF timer = "due" THEN "off" ELSE timer
  /\ UNCHANGED <<at, port, read, request, got, armedFor, input, buffers, answered>>

(* Another handler of the process, such as its menu, may use the socket.   *)
RunOther ==
  /\ Handles("other") /\ queue' = Tail(queue)
  /\ at' = "user"
  /\ UNCHANGED <<port, read, request, got, clock, input, buffers, answered>>

(* Fault: m_ReadTimer.cancel() is forgotten.                               *)
CancelTimerNot == UNCHANGED clock

(* m_ReadTimer.cancel(): no effect on an expiry that is in the queue.      *)
CancelTimer == timer' = "off" /\ UNCHANGED armedFor

(* The user is told the outcome of its read.                               *)
Answer ==
  /\ CancelTimer
  /\ read' = "none" /\ answered' = answered + 1 /\ at' = "user"

(* A system call of a read that wants n and has h: it finds bytes, which   *)
(* go to m_ReadBuffer.                                                     *)
MoveBytes(n, h) ==
  LET moved == IF line < n - h THEN line ELSE n - h IN
  /\ line' = line - moved /\ got' = h + moved /\ buffered' = buffered + moved
  /\ UNCHANGED <<arrived, gone, taken>>

(* The reactor's item: the read that waits, if one still does, is performed*)
(* and its handler runs.                                                   *)
RunReady ==
  /\ Handles("ready") /\ queue' = Tail(queue)
  /\ IF read = "waiting" /\ line > 0
     THEN MoveBytes(want, got) /\ at' = "moved" /\ UNCHANGED <<read, clock, answered>>
     ELSE /\ UNCHANGED <<got, input, buffers>>
          /\ IF read = "waiting" /\ gone THEN Answer ELSE UNCHANGED <<at, read, clock, answered>>
  /\ UNCHANGED <<port, request>>

RunMoved ==
  /\ Handles("moved") /\ queue' = Tail(queue)
  /\ at' = "moved"
  /\ UNCHANGED <<port, read, request, got, clock, input, buffers, answered>>

(* async_read_some: tried at once, and then queued, or left to the reactor.*)
TrySome(id, n, h) ==
  LET Queue(kind) == read' = "queued" /\ queue' = Append(queue, Handler(kind, id, 0)) IN
  IF isOpen /\ line > 0 THEN MoveBytes(n, h) /\ Queue("moved")
  ELSE /\ got' = h /\ UNCHANGED <<input, buffers>>
       /\ IF ~isOpen THEN Queue("bad_descriptor")
          ELSE IF gone THEN Queue("eof")
          ELSE read' = "waiting" /\ UNCHANGED queue

(* Fault: whatever arrived completes the read.                             *)
CompleteEarly ==
  /\ at = "moved"
  /\ Answer
  /\ buffered' = buffered - want /\ taken' = taken + want
  /\ UNCHANGED <<queue, got, input, port, request>>

(* transfer_exactly is satisfied: ASIO_Read_Handler and m_Read, in which   *)
(* the user takes what it asked for with AppendAsyncReadResult.  Otherwise *)
(* the composed read goes on.                                              *)
Complete ==
  /\ at = "moved"
  /\ IF got = want
     THEN /\ Answer
          /\ buffered' = buffered - want /\ taken' = taken + want
          /\ UNCHANGED <<queue, got, input>>
     ELSE /\ at' = "queue" /\ TrySome(reads, want, got)
          /\ UNCHANGED <<clock, answered>>
  /\ UNCHANGED <<port, request>>

(* Fault: an aborted read tells the user nothing.                          *)
RunFailedSilently ==
  /\ Handles("eof") \/ Handles("aborted")
  /\ queue' = Tail(queue)
  /\ CancelTimer
  /\ read' = "none"
  /\ UNCHANGED <<at, answered, port, request, got, input, buffers>>

(* ASIO_Read_Handler at the end of file (OnClose), or with an operation    *)
(* that was aborted (m_Read with ERR_TIMEOUT).                             *)
RunFailed ==
  /\ Handles("eof") \/ Handles("aborted")
  /\ queue' = Tail(queue)
  /\ Answer
  /\ UNCHANGED <<port, request, got, input, buffers>>

(* ASIO_Read_Handler on a closed port returns at once.                     *)
RunBadDescriptor ==
  /\ Handles("bad_descriptor") /\ queue' = Tail(queue)
  /\ read' = "none"
  /\ UNCHANGED <<at, port, request, got, clock, input, buffers, answered>>

(* m_Port.cancel(): a read that waits is queued as aborted, behind q.      *)
Cancelled(q, by) == IF read = "waiting" THEN Append(q, Handler("aborted", reads, by)) ELSE q
StopsWaiting == read' = IF read = "waiting" THEN "queued" ELSE read

(* Fault: an expiry ends the wait of the timer, not of the port.           *)
RunExpiryInVain ==
  /\ Handles("expiry") /\ queue' = Tail(queue)
  /\ UNCHANGED <<at, read, port, request, got, clock, input, buffers, answered>>

(* ASIO_Read_Timeout: whatever read waits now is aborted.  On a port that  *)
(* was closed cancel() throws.  On an object that was destroyed anything   *)
(* may follow; the run ends here.                                          *)
RunExpiry ==
  /\ Handles("expiry")
  /\ IF isOpen
     THEN queue' = Cancelled(Tail(queue), Head(queue).of) /\ StopsWaiting /\ UNCHANGED at
     ELSE at' = "terminated" /\ queue' = Tail(queue) /\ UNCHANGED read
  /\ UNCHANGED <<port, request, got, clock, input, buffers, answered>>

(* RemoveSocket.                                                           *)
RunRemove ==
  /\ Handles("remove") /\ queue' = Tail(queue)
  /\ removed' = TRUE /\ timer' = "off"
  /\ UNCHANGED <<at, isOpen, read, request, got, armedFor, input, buffers, answered>>
-----------------------------------------------------------------------------
(* The user.                                                               *)

(* Read(nullptr, n, timeout).                                              *)
Read(n, withTimeout) ==
  /\ at = "user" /\ isOpen /\ read = "none" /\ reads < MaxReads
  /\ reads' = reads + 1 /\ want' = n /\ timed' = withTimeout
  /\ TrySome(reads', n, 0)
  /\ IF withTimeout THEN timer' = "armed" /\ armedFor' = reads' ELSE CancelTimer
  /\ UNCHANGED <<at, port, answered>>

(* Close(): cancel, close, and OnClose; the timer goes on.                 *)
Close ==
  /\ at = "user" /\ isOpen
  /\ isOpen' = FALSE
  /\ queue' = Cancelled(queue, 0) /\ StopsWaiting
  /\ UNCHANGED <<at, removed, request, got, clock, input, buffers, answered>>

(* Fault: the removal is posted before the port is closed.                 *)
ReleaseRemovesFirst ==
  /\ at = "user" /\ isOpen
  /\ isOpen' = FALSE
  /\ queue' = Cancelled(Append(queue, Handler("remove", 0, 0)), 0) /\ StopsWaiting
  /\ UNCHANGED <<at, removed, request, got, clock, input, buffers, answered>>

(* ReleaseSocket(): Close(), and RemoveSocket is posted.                   *)
Release ==
  /\ at = "user" /\ isOpen
  /\ isOpen' = FALSE
  /\ queue' = Append(Cancelled(queue, 0), Handler("remove", 0, 0)) /\ StopsWaiting
  /\ UNCHANGED <<at, removed, request, got, clock, input, buffers, answered>>

Return ==
  /\ at = "user" /\ at' = "queue"
  /\ UNCHANGED <<queue, port, read, request, got, clock, input, buffers, answered>>

Run ==
  \/ RunReactor \/ RunOther \/ RunReady \/ RunMoved \/ Complete \/ RunFailed
  \/ RunBadDescriptor \/ RunExpiry \/ RunRemove
User == (\E n \in Wants, t \in BOOLEAN : Read(n, t)) \/ Close \/ Release
Environment == ByteArrives \/ HangUp

Next == Run \/ User \/ Return \/ TimeIsUp \/ Environment

(* io_service::run goes on, callbacks return, and time passes.             *)
Spec == Init /\ [][Next]_vars /\ WF_vars(Run \/ Return) /\ WF_vars(TimeIsUp)
-----------------------------------------------------------------------------
(* Properties.                                                             *)

Queued(kind) == {i \in DOMAIN queue : queue[i].kind = kind}

(* Types; the reactor has one turn in the queue, and a read is outstanding *)
(* exactly until its outcome was told or its port closed.                  *)
TypeOK ==
  /\ at \in {"queue", "moved", "user", "terminated"}
  /\ queue \in Seq(Item) /\ Cardinality(Queued("reactor")) = 1
  /\ isOpen \in BOOLEAN /\ removed \in BOOLEAN
  /\ read \in {"none", "waiting", "queued"}
  /\ want \in Wants \cup {0} /\ got \in Nat /\ timed \in BOOLEAN
  /\ timer \in {"off", "armed", "due"} /\ armedFor \in 0..MaxReads
  /\ arrived \in 0..MaxBytes /\ line \in 0..MaxBytes /\ gone \in BOOLEAN
  /\ buffered \in Int /\ taken \in Nat
  /\ reads \in 0..MaxReads /\ answered \in 0..reads
  /\ isOpen => (read = "none" <=> answered = reads)

(* Whatever partial, aborted and resumed reads there were, every byte that *)
(* arrived is in the kernel, in m_ReadBuffer or with the user, and nobody  *)
(* takes bytes that never came.                                            *)
EveryByteOnce == arrived = line + buffered + taken /\ taken <= arrived

(* An expiry that comes too late cuts short at most the next read, not a   *)
(* later one.                                                              *)
LateExpiryHitsNext ==
  \A i \in Queued("aborted") : queue[i].by \in {0, queue[i].of - 1, queue[i].of}

(* ReleaseSocket's deferred removal is enough for reads: when the socket   *)
(* is removed no read is in the middle, none will be told of data, of an   *)
(* abort or of the end of file, and one that is still outstanding was      *)
(* resumed on the closed port, which its handler ignores.  It is not       *)
(* enough for the timer, which Close() does not cancel: an expiry may run  *)
(* on the destroyed socket.                                                *)
ReadsEndBeforeRemoval ==
  removed =>
    /\ at # "moved" /\ Queued("moved") \cup Queued("aborted") \cup Queued("eof") = {}
    /\ read = "none" \/ Queued("bad_descriptor") # {}

(* A read with a timeout ends, whatever the line does.  It holds only for  *)
(* reads of at most two bytes: a longer one can miss its own expiry while  *)
(* a part of it is queued to complete, and then waits without a timeout.   *)
TimedReadsEnd ==
  (read # "none" /\ timed /\ want <= 2) ~> (read = "none" \/ at = "terminated" \/ removed)

(* "Got Data, cancel any timeouts" (LinuxSerial.cpp:163): the timeout of a *)
(* read that got its data does not end another read.                       *)
OwnTimeoutOnly ==
  \A i \in Queued("aborted") : queue[i].by \in {0, queue[i].of}
=============================================================================
