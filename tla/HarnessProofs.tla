--------------------------- MODULE HarnessProofs ---------------------------
(***************************************************************************)
(* Theorems about Harness, for any endpoints of names and any number of    *)
(* connections: a released socket leaves next to nothing in the queue,     *)
(* making connections and using them is safe in every order of choices and *)
(* handlers but for what the peer can do at any time, and a request goes   *)
(* through the socket the user was asked for.                              *)
(* The invariant has a part for each socket, its handlers included (WInv), *)
(* and parts for what the menu knows of the sockets: its pointers, the     *)
(* engine, the choice that prompts, and the one handler of its own.  The   *)
(* first half of the module shows what each operation on a world, which is *)
(* sockets and queue together, does to it; the second goes through Next.   *)
(***************************************************************************)
EXTENDS Harness, SequenceTheorems, TLAPS

Endpoints == {"accepts", "refuses"}
Socket ==
  [kind : {"tcp", "hdlc", "wrapper"}, isOpen : BOOLEAN, listed : BOOLEAN,
   op : {"none", "resolving", "connecting", "accepting", "reading"},
   left : Seq(Endpoints), to : {"none"} \cup Endpoints,
   layer : {"down", "physical", "connected", "open"},
   pending : {"none", "identify", "link", "unlink", "release", "associate", "access"}]

(* The kinds of handlers: of an attempt to connect, of what only a socket  *)
(* that is connected or listens waits for, all that an operation ends      *)
(* with, and removals.                                                     *)
Attempts == {"resolved", "connected", "reset", "refused", "connect_aborted"}
Deliveries == {"accepted", "broken", "data", "mistyped", "eof", "read_aborted"}
Completions == Attempts \cup Deliveries \cup {"bad_descriptor"}
Removals == {"remove_tcp", "remove_serial"}
Lines == {"0", "1", "2", "3", "5", "A", "B", "C", "D", "E", "T", "U", "V"}

Handlers ==
  [kind : {"menu"} \cup Lines, of : {0}] \cup [kind : Completions \cup Removals, of : Nat \ {0}]
Worlds == [sockets : Seq(Socket), queue : Seq(Handlers)]

Waits(q, k, a) == \E i \in 1..Len(q) : q[i].of = k /\ q[i].kind = a
Before(q, k, a, b) ==
  \E i, j \in 1..Len(q) :
    /\ i < j /\ q[i].of = k /\ q[j].of = k
    /\ q[i].kind = a /\ q[j].kind = b

(* One operation at a time: while one is under way nothing of the socket   *)
(* that ends an operation is queued, and never two such handlers.          *)
OneOperation(s, q, k) ==
  /\ \A a \in Completions : Waits(q, k, a) => s.op = "none"
  /\ \A a, b \in Completions : ~Before(q, k, a, b)
(* One removal at a time, posted when nothing could end a read any more;   *)
(* what was connected or read before it belongs to a socket now closed.    *)
OneRemoval(s, q, k) ==
  /\ \A a, b \in Removals : ~Before(q, k, a, b)
  /\ \A a \in Removals : Waits(q, k, a) => s.op \notin {"reading", "accepting"}
  /\ \A a \in Removals, b \in Deliveries : ~Before(q, k, a, b)
  /\ \A a \in {"connected"} \cup Deliveries, b \in Removals : Before(q, k, a, b) => ~s.isOpen
  /\ Waits(q, k, "remove_serial") => s.kind # "tcp"
(* Only sockets of TCP whose layers are down try to connect.               *)
AttemptsAreTcp(s, q, k) ==
  (s.op \in {"resolving", "connecting"} \/ \E a \in Attempts : Waits(q, k, a)) =>
    s.kind = "tcp" /\ s.layer = "down"
(* A destroyed socket does nothing, and a serial one was closed before.    *)
Gone(s, q, k) ==
  /\ ~s.listed => s.op = "none" /\ \A a \in Removals \cup Deliveries : ~Waits(q, k, a)
  /\ s.kind # "tcp" /\ (~s.listed \/ \E a \in Removals : Waits(q, k, a)) => ~s.isOpen
(* Only the server accepts, only the client makes requests and releases.   *)
Sides(s, q, k, m) ==
  /\ s.op = "accepting" \/ Waits(q, k, "accepted") \/ Waits(q, k, "broken") => m = "server"
  /\ ~s.listed \/ s.pending # "none" \/ (\E a \in Removals : Waits(q, k, a)) => m = "client"

Sound(s, q, k, m) ==
  /\ OneOperation(s, q, k) /\ OneRemoval(s, q, k) /\ AttemptsAreTcp(s, q, k)
  /\ Gone(s, q, k) /\ Sides(s, q, k, m)

WInv(w, m) ==
  /\ w \in Worlds
  /\ \A i \in 1..Len(w.queue) : w.queue[i].of <= Len(w.sockets)
  /\ \A k \in 1..Len(w.sockets) : Sound(w.sockets[k], w.queue, k, m)

(* A pointer is null or its socket exists and no removal of it waits.      *)
Valid(p) ==
  p # 0 =>
    /\ p \in 1..Len(sockets) /\ sockets[p].listed
    /\ ~Waits(queue, p, IF sockets[p].kind = "tcp" THEN "remove_tcp" ELSE "remove_serial")
Pointers ==
  /\ Valid(m_pSocket) /\ Valid(m_pSerialSocket)
  /\ m_pSerialSocket # 0 => sockets[m_pSerialSocket].kind # "tcp"
  /\ m_pHDLC \in 0..Len(sockets)
  /\ mode = "server" => m_pSocket = 0 /\ m_pSerialSocket = 0 /\ m_pHDLC = 0

(* The engine is over the socket made last, which is m_pSocket's or one    *)
(* over which nothing can happen before it is opened again.                *)
Dormant(k) ==
  /\ sockets[k].layer = "down" /\ sockets[k].op = "none"
  /\ \A a \in Completions : ~Waits(queue, k, a)
Engine ==
  m_pSocket # 0 => m_pSocket = Len(sockets) \/ Dormant(Len(sockets))
(* While a choice prompts, what it checked before is still the case.       *)
Prompt ==
  /\ at \in {"queue", "exited", "thrown", "undefined"} \cup MenuChoices
  /\ Prompting => Prompts(at)
  /\ mode = "client" /\ at = "D" => m_pHDLC # 0
  /\ mode = "client" /\ at \in {"1", "2"} =>
       /\ m_pSocket # 0 /\ m_pSocket = Len(sockets) /\ sockets[m_pSocket].isOpen
(* Before the user disconnects or releases anything, nothing is removed    *)
(* and a socket that connects is open.                                     *)
Untouched ==
  mode = "client" /\ ~parted =>
    /\ at # "undefined" /\ (at = "thrown" => input = "closed" \/ PeerIsToBlame)
    /\ \A k \in 1..Len(sockets) :
         /\ sockets[k].listed /\ sockets[k].pending # "unlink"
         /\ \A a \in Removals : ~Waits(queue, k, a)
         /\ sockets[k].op = "connecting" \/ Waits(queue, k, "connected") => sockets[k].isOpen

(* The menu is one handler, or reads a choice, or prompts; a choice that   *)
(* makes a socket has room for it.                                         *)
Menu ==
  /\ \A a, b \in {"menu"} \cup Lines : ~Before(queue, 0, a, b)
  /\ input = "reading" \/ Prompting => \A a \in {"menu"} \cup Lines : ~Waits(queue, 0, a)
  /\ ~(input = "reading" /\ Prompting)
  /\ Len(sockets) <= MaxSockets
  /\ \A c \in Lines : Makes(c) /\ (at = c \/ Waits(queue, 0, c)) => Len(sockets) < MaxSockets

IInv ==
  /\ mode \in {"client", "server"} /\ input \in {"idle", "reading", "closed"} /\ parted \in BOOLEAN
  /\ WInv(World, mode)
  /\ Pointers /\ Engine /\ Prompt /\ Untouched /\ Menu
-----------------------------------------------------------------------------
(* The queue.                                                              *)

LEMMA AppendWaits ==
  ASSUME NEW q \in Seq(Handlers), NEW h \in Handlers
  PROVE  /\ Append(q, h) \in Seq(Handlers)
         /\ \A k, a : Waits(Append(q, h), k, a) => Waits(q, k, a) \/ (h.of = k /\ h.kind = a)
         /\ \A k, a, b : Before(Append(q, h), k, a, b)
                          => Before(q, k, a, b) \/ (Waits(q, k, a) /\ h.of = k /\ h.kind = b)
<1>. DEFINE r == Append(q, h)
<1>1. /\ r \in Seq(Handlers) /\ Len(r) = Len(q) + 1 /\ Len(q) \in Nat
      /\ \A i \in 1..Len(q) : r[i] = q[i]
      /\ r[Len(q) + 1] = h
  BY AppendProperties, LenProperties
<1>. HIDE DEF r
<1>2. \A i \in 1..Len(r) : i \in 1..Len(q) \/ i = Len(q) + 1
  BY <1>1
<1>3. ASSUME NEW k, NEW a, Waits(r, k, a)
      PROVE  Waits(q, k, a) \/ (h.of = k /\ h.kind = a)
  BY <1>1, <1>2, <1>3 DEF Waits
<1>4. ASSUME NEW k, NEW a, NEW b, Before(r, k, a, b)
      PROVE  Before(q, k, a, b) \/ (Waits(q, k, a) /\ h.of = k /\ h.kind = b)
  <2>1. PICK i \in 1..Len(r), j \in 1..Len(r) :
          i < j /\ r[i].of = k /\ r[j].of = k /\ r[i].kind = a /\ r[j].kind = b
    BY <1>4 DEF Before
  <2>2. i \in 1..Len(q)
    BY <1>1, <2>1
  <2>3. j \in 1..Len(q) \/ j = Len(q) + 1
    BY <1>2, <2>1
  <2>4. QED
    BY <1>1, <2>1, <2>2, <2>3 DEF Before, Waits
<1>5. QED
  BY <1>1, <1>3, <1>4 DEF r

LEMMA TailWaits ==
  ASSUME NEW q \in Seq(Handlers), q # <<>>
  PROVE  /\ Tail(q) \in Seq(Handlers) /\ Head(q) \in Handlers
         /\ Waits(q, Head(q).of, Head(q).kind)
         /\ \A k, a : Waits(Tail(q), k, a) => Waits(q, k, a)
         /\ \A k, a, b : Before(Tail(q), k, a, b) => Before(q, k, a, b)
         /\ \A a : Waits(Tail(q), Head(q).of, a) => Before(q, Head(q).of, Head(q).kind, a)
<1>. DEFINE r == Tail(q)
<1>1. /\ r \in Seq(Handlers) /\ Len(q) \in Nat /\ Len(q) > 0 /\ Len(r) = Len(q) - 1
      /\ \A i \in 1..Len(r) : r[i] = q[i + 1]
      /\ Head(q) = q[1] /\ Head(q) \in Handlers
  BY HeadTailProperties, LenProperties, EmptySeq
<1>. HIDE DEF r
<1>2. 1 \in 1..Len(q) /\ \A i \in 1..Len(r) : i + 1 \in 1..Len(q) /\ 1 < i + 1
  BY <1>1
<1>3. Waits(q, Head(q).of, Head(q).kind)
  BY <1>1, <1>2 DEF Waits
<1>4. ASSUME NEW k, NEW a, Waits(r, k, a) PROVE Waits(q, k, a)
  BY <1>1, <1>2, <1>4 DEF Waits
<1>5. ASSUME NEW k, NEW a, NEW b, Before(r, k, a, b) PROVE Before(q, k, a, b)
  <2>1. PICK i \in 1..Len(r), j \in 1..Len(r) :
          i < j /\ r[i].of = k /\ r[j].of = k /\ r[i].kind = a /\ r[j].kind = b
    BY <1>5 DEF Before
  <2>2. i + 1 \in 1..Len(q) /\ j + 1 \in 1..Len(q) /\ i + 1 < j + 1
    BY <1>1, <1>2, <2>1
  <2>3. QED
    BY <1>1, <2>1, <2>2 DEF Before
<1>6. ASSUME NEW a, Waits(r, Head(q).of, a) PROVE Before(q, Head(q).of, Head(q).kind, a)
  <2>1. PICK i \in 1..Len(r) : r[i].of = Head(q).of /\ r[i].kind = a
    BY <1>6 DEF Waits
  <2>2. QED
    BY <1>1, <1>2, <2>1 DEF Before
<1>7. QED
  BY <1>1, <1>3, <1>4, <1>5, <1>6 DEF r

LEMMA BothWait ==
  ASSUME NEW q, NEW k, NEW a, NEW b, Before(q, k, a, b)
  PROVE  Waits(q, k, a) /\ Waits(q, k, b)
BY DEF Before, Waits
-----------------------------------------------------------------------------
(* Sockets.                                                                *)

Idle(w, k) == w.sockets[k].op = "none" /\ \A a \in Completions : ~Waits(w.queue, k, a)
Kept(w, k) == \A a \in Removals : ~Waits(w.queue, k, a)

(* From w to v only socket k has changed, and only handlers of it, of      *)
(* kinds A, were posted.                                                   *)
Changes(w, v, k, A) ==
  /\ Len(v.sockets) = Len(w.sockets)
  /\ \A j \in 1..Len(w.sockets) : j # k => v.sockets[j] = w.sockets[j]
  /\ v.sockets[k].kind = w.sockets[k].kind
  /\ \A a : Waits(v.queue, k, a) => Waits(w.queue, k, a) \/ a \in A
  /\ \A j \in Nat : j # k =>
       /\ \A a : Waits(v.queue, j, a) => Waits(w.queue, j, a)
       /\ \A a, b : Before(v.queue, j, a, b) => Before(w.queue, j, a, b)

Put(w, k, s) == [w EXCEPT !.sockets[k] = s]

LEMMA WorldParts ==
  ASSUME NEW w \in Worlds
  PROVE  /\ w.sockets \in Seq(Socket) /\ w.queue \in Seq(Handlers)
         /\ Len(w.sockets) \in Nat /\ DOMAIN w.sockets = 1..Len(w.sockets)
         /\ \A k \in 1..Len(w.sockets) : w.sockets[k] \in Socket
         /\ w = [sockets |-> w.sockets, queue |-> w.queue]
<1>1. w.sockets \in Seq(Socket) /\ w.queue \in Seq(Handlers) /\ w = [sockets |-> w.sockets, queue |-> w.queue]
  BY DEF Worlds
<1>2. QED
  BY <1>1, LenProperties, ElementOfSeq

LEMMA PutIs ==
  ASSUME NEW w \in Worlds, NEW k \in 1..Len(w.sockets), NEW s \in Socket
  PROVE  /\ Put(w, k, s) \in Worlds
         /\ Put(w, k, s).queue = w.queue /\ Put(w, k, s).sockets[k] = s
         /\ Len(Put(w, k, s).sockets) = Len(w.sockets)
         /\ \A j \in 1..Len(w.sockets) : j # k => Put(w, k, s).sockets[j] = w.sockets[j]
<1>. DEFINE t == [w.sockets EXCEPT ![k] = s]
<1>1. /\ w.sockets \in Seq(Socket) /\ Len(w.sockets) \in Nat /\ w.queue \in Seq(Handlers)
      /\ w.sockets \in [1..Len(w.sockets) -> Socket]
  BY WorldParts, SeqDef, LenProperties
<1>2. /\ Put(w, k, s).sockets = t /\ Put(w, k, s).queue = w.queue
      /\ t \in Seq(Socket) => Put(w, k, s) \in Worlds
  BY DEF Put, Worlds
<1>3. t \in [1..Len(w.sockets) -> Socket] /\ t[k] = s /\ \A j \in 1..Len(w.sockets) : j # k => t[j] = w.sockets[j]
  BY <1>1
<1>. HIDE DEF t
<1>4. t \in Seq(Socket)
  BY <1>1, <1>3, SeqDef
<1>5. Len(t) = Len(w.sockets)
  <2>1. DOMAIN t = 1..Len(w.sockets) /\ DOMAIN t = 1..Len(t) /\ Len(t) \in Nat
    BY <1>3, <1>4, LenProperties
  <2>2. QED
    BY <1>1, <2>1
<1>6. QED
  BY <1>1, <1>2, <1>3, <1>4, <1>5

LEMMA PutSound ==
  ASSUME NEW m, NEW w, WInv(w, m), NEW k \in 1..Len(w.sockets), NEW s \in Socket,
         Sound(s, w.queue, k, m), s.kind = w.sockets[k].kind
  PROVE  /\ WInv(Put(w, k, s), m) /\ Put(w, k, s).sockets[k] = s
         /\ Put(w, k, s).queue = w.queue /\ Changes(w, Put(w, k, s), k, {})
<1>1. w \in Worlds
  BY DEF WInv
<1>. DEFINE v == Put(w, k, s)
<1>2. /\ v \in Worlds
      /\ v.queue = w.queue /\ v.sockets[k] = s
      /\ Len(v.sockets) = Len(w.sockets)
      /\ \A j \in 1..Len(w.sockets) : j # k => v.sockets[j] = w.sockets[j]
  BY <1>1, PutIs
<1>. HIDE DEF v
<1>3. WInv(v, m)
  <2>1. ASSUME NEW j \in 1..Len(v.sockets) PROVE Sound(v.sockets[j], v.queue, j, m)
    <3>1. CASE j = k
      BY <1>2, <3>1, Zenon
    <3>2. CASE j # k
      <4>1. v.sockets[j] = w.sockets[j] /\ v.queue = w.queue /\ Sound(w.sockets[j], w.queue, j, m)
        BY <1>2, <3>2 DEF WInv
      <4>2. QED
        BY <4>1, Zenon
    <3>3. QED
      BY <3>1, <3>2
  <2>2. QED
    BY <1>2, <2>1 DEF WInv
<1>4. Changes(w, v, k, {})
  BY <1>2 DEF Changes
<1>5. QED
  BY <1>2, <1>3, <1>4 DEF v

(* Queue r holds what q held, and perhaps a handler of kind a of socket k  *)
(* behind it.                                                              *)
More(q, r, k, a) ==
  /\ \A b : Waits(r, k, b) => Waits(q, k, b) \/ b = a
  /\ \A b, c : Before(r, k, b, c) => Before(q, k, b, c) \/ (Waits(q, k, b) /\ c = a)
  /\ \A j \in Nat : j # k =>
       /\ \A b : Waits(r, j, b) => Waits(q, j, b)
       /\ \A b, c : Before(r, j, b, c) => Before(q, j, b, c)

LEMMA AppendMore ==
  ASSUME NEW q \in Seq(Handlers), NEW a, NEW k \in Nat, Handler(a, k) \in Handlers
  PROVE  More(q, Append(q, Handler(a, k)), k, a)
<1>. DEFINE h == Handler(a, k)
<1>1. h.of = k /\ h.kind = a
  BY DEF Handler
<1>. HIDE DEF h
<1>2. h \in Handlers
  BY DEF h
<1>3. QED
  BY <1>1, <1>2, AppendWaits DEF h, More

LEMMA PostIs ==
  ASSUME NEW w \in Worlds, NEW a, NEW k \in Nat, Handler(a, k) \in Handlers
  PROVE  /\ Post(w, a, k) \in Worlds /\ Post(w, a, k).sockets = w.sockets
         /\ Post(w, a, k).queue = Append(w.queue, Handler(a, k))
         /\ More(w.queue, Append(w.queue, Handler(a, k)), k, a)
<1>1. w.queue \in Seq(Handlers) /\ w.sockets \in Seq(Socket)
  BY WorldParts
<1>. DEFINE h == Handler(a, k)
<1>2. /\ Post(w, a, k).sockets = w.sockets /\ Post(w, a, k).queue = Append(w.queue, h)
      /\ Append(w.queue, h) \in Seq(Handlers) => Post(w, a, k) \in Worlds
  BY DEF Post, Worlds
<1>. HIDE DEF h
<1>3. Append(w.queue, h) \in Seq(Handlers) /\ More(w.queue, Append(w.queue, h), k, a)
  BY <1>1, AppendWaits, AppendMore DEF h
<1>4. QED
  BY <1>2, <1>3 DEF h

LEMMA PostSound ==
  ASSUME NEW m, NEW w, WInv(w, m), NEW a \in Completions \cup Removals, NEW k \in 1..Len(w.sockets),
         Sound(w.sockets[k], Append(w.queue, Handler(a, k)), k, m)
  PROVE  /\ WInv(Post(w, a, k), m) /\ Post(w, a, k).sockets = w.sockets
         /\ Changes(w, Post(w, a, k), k, {a})
<1>. DEFINE v == Post(w, a, k)
<1>1. w \in Worlds /\ Handler(a, k) \in Handlers /\ k \in Nat \ {0} /\ Len(w.sockets) \in Nat
  <2>1. w \in Worlds
    BY DEF WInv
  <2>2. Len(w.sockets) \in Nat
    BY <2>1, WorldParts
  <2>3. k \in Nat \ {0}
    BY <2>2
  <2>4. QED
    BY <2>1, <2>2, <2>3 DEF Handler, Handlers
<1>2. /\ v \in Worlds /\ v.sockets = w.sockets
      /\ v.queue = Append(w.queue, Handler(a, k)) /\ More(w.queue, v.queue, k, a)
  BY <1>1, PostIs
<1>3. \A i \in 1..Len(v.queue) : v.queue[i].of <= Len(v.sockets)
  <2>1. w.queue \in Seq(Handlers)
    BY <1>1, WorldParts
  <2>2. /\ Len(w.queue) \in Nat /\ Len(v.queue) = Len(w.queue) + 1
        /\ \A i \in 1..Len(w.queue) : v.queue[i] = w.queue[i]
        /\ v.queue[Len(w.queue) + 1].of = k
    BY <1>1, <1>2, <2>1, AppendProperties, LenProperties DEF Handler
  <2>. HIDE DEF v
  <2>3. \A i \in 1..Len(w.queue) : w.queue[i].of <= Len(w.sockets)
    BY DEF WInv
  <2>4. ASSUME NEW i \in 1..Len(v.queue) PROVE v.queue[i].of <= Len(v.sockets)
    <3>1. i \in 1..Len(w.queue) \/ i = Len(w.queue) + 1
      BY <2>2
    <3>2. QED
      BY <1>1, <1>2, <2>2, <2>3, <3>1
  <2>5. QED
    BY <2>4
<1>. HIDE DEF v
<1>4. ASSUME NEW j \in 1..Len(w.sockets) PROVE Sound(v.sockets[j], v.queue, j, m)
  <2>1. CASE j = k
    BY <1>2, <2>1, Zenon
  <2>2. CASE j # k
    <3>1. Sound(w.sockets[j], w.queue, j, m)
      BY DEF WInv
    <3>2. /\ \A b : Waits(v.queue, j, b) => Waits(w.queue, j, b)
          /\ \A b, c : Before(v.queue, j, b, c) => Before(w.queue, j, b, c)
      BY <1>1, <1>2, <2>2 DEF More
    <3>3. Sound(w.sockets[j], v.queue, j, m)
      BY <3>1, <3>2 DEF Sound, OneOperation, OneRemoval, AttemptsAreTcp, Gone, Sides
    <3>4. QED
      BY <1>2, <3>3
  <2>3. QED
    BY <2>1, <2>2
<1>5. WInv(v, m)
  BY <1>2, <1>3, <1>4 DEF WInv
<1>6. Changes(w, v, k, {a})
  BY <1>2 DEF Changes, More
<1>7. QED
  BY <1>2, <1>5, <1>6 DEF v

(* A completion may be posted of a socket that waits for nothing any more. *)
LEMMA CompletionSound ==
  ASSUME NEW m, NEW w, WInv(w, m), NEW a \in Completions, NEW k \in 1..Len(w.sockets), Idle(w, k),
         a \in Deliveries => w.sockets[k].listed /\ Kept(w, k),
         a \in Attempts => w.sockets[k].kind = "tcp" /\ w.sockets[k].layer = "down",
         a \in {"accepted", "broken"} => m = "server"
  PROVE  /\ WInv(Post(w, a, k), m) /\ Post(w, a, k).sockets = w.sockets
         /\ Changes(w, Post(w, a, k), k, {a})
<1>. DEFINE q == Append(w.queue, Handler(a, k))
<1>1. w \in Worlds /\ k \in Nat /\ Handler(a, k) \in Handlers
  <2>1. w \in Worlds
    BY DEF WInv
  <2>2. k \in Nat \ {0}
    BY <2>1, WorldParts
  <2>3. QED
    BY <2>1, <2>2 DEF Handler, Handlers
<1>2. More(w.queue, q, k, a)
  BY <1>1, PostIs
<1>3. Sound(w.sockets[k], w.queue, k, m)
  BY DEF WInv
<1>. HIDE DEF q
<1>4. Sound(w.sockets[k], q, k, m)
  <2>1. OneOperation(w.sockets[k], q, k)
    BY <1>2, <1>3 DEF Sound, More, OneOperation, Idle
  <2>2. OneRemoval(w.sockets[k], q, k)
    BY <1>2, <1>3 DEF Sound, More, OneRemoval, Idle, Kept, Completions, Removals, Attempts, Deliveries
  <2>3. AttemptsAreTcp(w.sockets[k], q, k)
    BY <1>2, <1>3 DEF Sound, More, AttemptsAreTcp
  <2>4. Gone(w.sockets[k], q, k)
    BY <1>2, <1>3 DEF Sound, More, Gone, Completions, Removals, Attempts, Deliveries
  <2>5. Sides(w.sockets[k], q, k, m)
    BY <1>2, <1>3 DEF Sound, More, Sides, Completions, Removals, Attempts, Deliveries
  <2>6. QED
    BY <2>1, <2>2, <2>3, <2>4, <2>5 DEF Sound
<1>5. QED
  BY <1>4, PostSound DEF q

(* A removal may be posted of a socket that is closed and has none yet.    *)
LEMMA RemovalSound ==
  ASSUME NEW w, WInv(w, "client"), NEW a \in Removals, NEW k \in 1..Len(w.sockets),
         w.sockets[k].listed, Kept(w, k), ~w.sockets[k].isOpen,
         w.sockets[k].op \in {"none", "resolving"},
         a = "remove_serial" => w.sockets[k].kind # "tcp"
  PROVE  /\ WInv(Post(w, a, k), "client") /\ Post(w, a, k).sockets = w.sockets
         /\ Changes(w, Post(w, a, k), k, {a})
<1>. DEFINE q == Append(w.queue, Handler(a, k))
<1>1. w \in Worlds /\ k \in Nat /\ Handler(a, k) \in Handlers
  <2>1. w \in Worlds
    BY DEF WInv
  <2>2. k \in Nat \ {0}
    BY <2>1, WorldParts
  <2>3. QED
    BY <2>1, <2>2 DEF Handler, Handlers
<1>2. More(w.queue, q, k, a)
  BY <1>1, PostIs
<1>3. Sound(w.sockets[k], w.queue, k, "client")
  BY DEF WInv
<1>. HIDE DEF q
<1>4. Sound(w.sockets[k], q, k, "client")
  <2>1. OneOperation(w.sockets[k], q, k)
    BY <1>2, <1>3 DEF Sound, More, OneOperation, Completions, Removals, Attempts, Deliveries
  <2>2. OneRemoval(w.sockets[k], q, k)
    BY <1>2, <1>3 DEF Sound, More, OneRemoval, Kept, Removals, Attempts, Deliveries
  <2>3. AttemptsAreTcp(w.sockets[k], q, k)
    BY <1>2, <1>3 DEF Sound, More, AttemptsAreTcp, Removals, Attempts
  <2>4. Gone(w.sockets[k], q, k)
    BY <1>2, <1>3 DEF Sound, More, Gone
  <2>5. Sides(w.sockets[k], q, k, "client")
    BY <1>2, <1>3 DEF Sound, More, Sides, Removals
  <2>6. QED
    BY <2>1, <2>2, <2>3, <2>4, <2>5 DEF Sound
<1>5. QED
  BY <1>4, PostSound DEF q

(* What may become of a socket without a word to the queue: it may be      *)
(* closed, stop waiting, and be used by a request, at any time; and it may *)
(* be opened and start to wait when it is idle.                            *)
LEMMA LowerSound ==
  ASSUME NEW m, NEW w, WInv(w, m), NEW k \in 1..Len(w.sockets), NEW s \in Socket,
         s.kind = w.sockets[k].kind, s.listed = w.sockets[k].listed,
         s.op \in {"none", w.sockets[k].op}, s.isOpen => w.sockets[k].isOpen,
         s.layer \in {"down", w.sockets[k].layer},
         s.pending \in {"none", w.sockets[k].pending} \/ m = "client"
  PROVE  Sound(s, w.queue, k, m)
<1>1. Sound(w.sockets[k], w.queue, k, m)
  BY DEF WInv
<1>2. OneOperation(s, w.queue, k)
  BY <1>1 DEF Sound, OneOperation
<1>3. OneRemoval(s, w.queue, k)
  BY <1>1 DEF Sound, OneRemoval
<1>4. AttemptsAreTcp(s, w.queue, k)
  BY <1>1 DEF Sound, AttemptsAreTcp
<1>5. Gone(s, w.queue, k)
  BY <1>1 DEF Sound, Gone
<1>6. Sides(s, w.queue, k, m)
  BY <1>1 DEF Sound, Sides
<1>7. QED
  BY <1>2, <1>3, <1>4, <1>5, <1>6 DEF Sound

LEMMA IdleSound ==
  ASSUME NEW m, NEW w, WInv(w, m), NEW k \in 1..Len(w.sockets), NEW s \in Socket, Idle(w, k),
         s.kind = w.sockets[k].kind, s.listed, w.sockets[k].listed,
         s.isOpen => w.sockets[k].isOpen \/ Kept(w, k) \/ s.kind = "tcp",
         s.op \in {"resolving", "connecting"} => s.kind = "tcp" /\ s.layer = "down",
         s.op \in {"accepting", "reading"} => Kept(w, k),
         s.op = "accepting" => m = "server",
         s.pending \in {"none", w.sockets[k].pending} \/ m = "client"
  PROVE  Sound(s, w.queue, k, m)
<1>1. Sound(w.sockets[k], w.queue, k, m)
  BY DEF WInv
<1>2. OneOperation(s, w.queue, k)
  BY <1>1 DEF Sound, OneOperation, Idle
<1>3. OneRemoval(s, w.queue, k)
  <2>1. \A a \in {"connected"} \cup Deliveries, b \in Removals : ~Before(w.queue, k, a, b)
    <3>1. {"connected"} \cup Deliveries \subseteq Completions
      BY DEF Completions, Attempts
    <3>2. QED
      BY <3>1, BothWait DEF Idle
  <2>2. QED
    BY <1>1, <2>1 DEF Sound, OneRemoval, Kept
<1>4. AttemptsAreTcp(s, w.queue, k)
  <2>1. Attempts \subseteq Completions
    BY DEF Completions
  <2>2. QED
    BY <2>1 DEF AttemptsAreTcp, Idle
<1>5. Gone(s, w.queue, k)
  BY <1>1 DEF Sound, Gone, Kept
<1>6. Sides(s, w.queue, k, m)
  BY <1>1 DEF Sound, Sides
<1>7. QED
  BY <1>2, <1>3, <1>4, <1>5, <1>6 DEF Sound

(* The fields of a socket, and of one that differs in some of them.        *)
LEMMA SocketParts ==
  ASSUME NEW s \in Socket
  PROVE  /\ s.kind \in {"tcp", "hdlc", "wrapper"} /\ s.isOpen \in BOOLEAN /\ s.listed \in BOOLEAN
         /\ s.op \in {"none", "resolving", "connecting", "accepting", "reading"}
         /\ s.left \in Seq(Endpoints) /\ s.to \in {"none"} \cup Endpoints
         /\ s.layer \in {"down", "physical", "connected", "open"}
         /\ s.pending \in {"none", "identify", "link", "unlink", "release", "associate", "access"}
BY DEF Socket

(* What an operation leaves alone of its socket.                           *)
SameUse(w, v, k) ==
  /\ v.sockets[k].listed = w.sockets[k].listed
  /\ v.sockets[k].pending = w.sockets[k].pending
  /\ v.sockets[k].layer = w.sockets[k].layer

SameButLayer(w, v, k) ==
  /\ v.sockets[k].listed = w.sockets[k].listed
  /\ v.sockets[k].pending = w.sockets[k].pending

LEMMA StartReadSound ==
  ASSUME NEW m, NEW w, WInv(w, m), NEW k \in 1..Len(w.sockets), w.sockets[k].listed, Idle(w, k),
         w.sockets[k].isOpen => Kept(w, k)
  PROVE  /\ WInv(StartRead(w, k), m) /\ SameUse(w, StartRead(w, k), k)
         /\ StartRead(w, k).sockets[k].isOpen = w.sockets[k].isOpen
         /\ StartRead(w, k).sockets[k].op \in {"none", "reading"}
         /\ Changes(w, StartRead(w, k), k, {"bad_descriptor"})
<1>1. w \in Worlds /\ w.sockets[k] \in Socket
  BY WorldParts DEF WInv
<1>2. CASE w.sockets[k].isOpen
  <2>. DEFINE s == [w.sockets[k] EXCEPT !.op = "reading"]
  <2>1. StartRead(w, k) = Put(w, k, s)
    <3>1. StartRead(w, k) = With(w, k, "op", "reading")
      BY <1>2 DEF StartRead
    <3>2. With(w, k, "op", "reading") = Put(w, k, s)
      BY <1>1 DEF With, Put, Worlds
    <3>3. QED
      BY <3>1, <3>2
  <2>2. /\ s \in Socket /\ s.op = "reading" /\ s.kind = w.sockets[k].kind
        /\ s.listed = w.sockets[k].listed /\ s.isOpen = w.sockets[k].isOpen
        /\ s.pending = w.sockets[k].pending /\ s.layer = w.sockets[k].layer
    BY <1>1 DEF Socket
  <2>. HIDE DEF s
  <2>3. Sound(s, w.queue, k, m)
    BY <1>2, <2>2, IdleSound
  <2>4. /\ WInv(Put(w, k, s), m) /\ Put(w, k, s).sockets[k] = s /\ Changes(w, Put(w, k, s), k, {})
    BY <2>2, <2>3, PutSound
  <2>5. Changes(w, Put(w, k, s), k, {"bad_descriptor"})
    BY <2>4 DEF Changes
  <2>6. QED
    BY <2>1, <2>2, <2>4, <2>5 DEF SameUse
<1>3. CASE ~w.sockets[k].isOpen
  <2>1. StartRead(w, k) = Post(w, "bad_descriptor", k)
    BY <1>3 DEF StartRead
  <2>2. "bad_descriptor" \in Completions /\ "bad_descriptor" \notin Deliveries \cup Attempts
    BY DEF Completions, Deliveries, Attempts
  <2>3. /\ WInv(Post(w, "bad_descriptor", k), m) /\ Post(w, "bad_descriptor", k).sockets = w.sockets
        /\ Changes(w, Post(w, "bad_descriptor", k), k, {"bad_descriptor"})
    BY <2>2, CompletionSound
  <2>4. QED
    BY <2>1, <2>3 DEF SameUse, Idle
<1>4. QED
  BY <1>2, <1>3

(* Changes of the same socket one after the other.                         *)
LEMMA ChangesTwice ==
  ASSUME NEW w, NEW v, NEW u, NEW k \in Nat, NEW A, NEW B, Changes(w, v, k, A), Changes(v, u, k, B),
         k \in 1..Len(w.sockets)
  PROVE  Changes(w, u, k, A \cup B)
BY DEF Changes

LEMMA ChangesMore ==
  ASSUME NEW w, NEW v, NEW k, NEW A, NEW B, Changes(w, v, k, A), A \subseteq B
  PROVE  Changes(w, v, k, B)
BY DEF Changes

LEMMA ConnectNextSound ==
  ASSUME NEW m, NEW w, WInv(w, m), NEW k \in 1..Len(w.sockets), w.sockets[k].listed, Idle(w, k),
         w.sockets[k].kind = "tcp", w.sockets[k].layer = "down"
  PROVE  /\ WInv(ConnectNext(w, k), m) /\ SameUse(w, ConnectNext(w, k), k)
         /\ \/ ConnectNext(w, k).sockets[k].op = "none"
            \/ ConnectNext(w, k).sockets[k].op = "connecting" /\ ConnectNext(w, k).sockets[k].isOpen
         /\ Changes(w, ConnectNext(w, k), k, {})
<1>1. w \in Worlds /\ w.sockets[k] \in Socket
  BY WorldParts DEF WInv
<1>2. CASE w.sockets[k].left = <<>>
  <2>1. ConnectNext(w, k) = w
    BY <1>2 DEF ConnectNext
  <2>2. QED
    BY <2>1 DEF SameUse, Changes, Idle
<1>3. CASE w.sockets[k].left # <<>>
  <2>. DEFINE s == [w.sockets[k] EXCEPT !.op = "connecting", !.isOpen = TRUE,
                      !.to = Head(w.sockets[k].left), !.left = Tail(w.sockets[k].left)]
  <2>1. ConnectNext(w, k) = Put(w, k, s)
    BY <1>1, <1>3 DEF ConnectNext, Put, Worlds
  <2>2. Head(w.sockets[k].left) \in Endpoints /\ Tail(w.sockets[k].left) \in Seq(Endpoints)
    BY <1>1, <1>3, SocketParts, HeadTailProperties
  <2>3. /\ s \in Socket /\ s.op = "connecting" /\ s.kind = w.sockets[k].kind
        /\ s.listed = w.sockets[k].listed /\ s.isOpen
        /\ s.pending = w.sockets[k].pending /\ s.layer = w.sockets[k].layer
    BY <1>1, <2>2 DEF Socket
  <2>. HIDE DEF s
  <2>4. Sound(s, w.queue, k, m)
    BY <2>3, IdleSound
  <2>5. /\ WInv(Put(w, k, s), m) /\ Put(w, k, s).sockets[k] = s /\ Changes(w, Put(w, k, s), k, {})
    BY <2>3, <2>4, PutSound
  <2>6. QED
    BY <2>1, <2>3, <2>5 DEF SameUse
<1>4. QED
  BY <1>2, <1>3

(* A socket that is closed, at any time; what it posts depends on what it  *)
(* waits for.                                                              *)
LEMMA CloseSocketSound ==
  ASSUME NEW m, NEW w, WInv(w, m), NEW k \in 1..Len(w.sockets)
  PROVE  /\ WInv(CloseSocket(w, k), m) /\ SameUse(w, CloseSocket(w, k), k)
         /\ ~CloseSocket(w, k).sockets[k].isOpen
         /\ CloseSocket(w, k).sockets[k].op \in {"none", "resolving"}
         /\ w.sockets[k].op # "resolving" => CloseSocket(w, k).sockets[k].op = "none"
         /\ Changes(w, CloseSocket(w, k), k,
                    CASE w.sockets[k].op = "reading" -> {"read_aborted"}
                      [] w.sockets[k].op = "connecting" -> {"connect_aborted"}
                      [] OTHER -> {})
<1>1. w \in Worlds /\ w.sockets[k] \in Socket /\ Sound(w.sockets[k], w.queue, k, m)
  BY WorldParts DEF WInv
<1>. DEFINE s == [w.sockets[k] EXCEPT !.isOpen = FALSE, !.op = "none", !.to = "none"]
            v == Put(w, k, s)
<1>2. [w EXCEPT !.sockets[k].isOpen = FALSE, !.sockets[k].op = "none", !.sockets[k].to = "none"] = v
  BY <1>1 DEF Put, Worlds
<1>3. /\ s \in Socket /\ s.op = "none" /\ s.kind = w.sockets[k].kind
      /\ s.listed = w.sockets[k].listed /\ s.isOpen = FALSE
      /\ s.pending = w.sockets[k].pending /\ s.layer = w.sockets[k].layer
  BY <1>1 DEF Socket
<1>4. CloseSocket(w, k) =
        CASE w.sockets[k].op = "reading" -> Post(v, "read_aborted", k)
          [] w.sockets[k].op = "connecting" -> Post(v, "connect_aborted", k)
          [] w.sockets[k].op = "resolving" -> With(v, k, "op", "resolving")
          [] OTHER -> v
  BY <1>2, Zenon DEF CloseSocket
<1>. HIDE DEF s
<1>5. /\ WInv(v, m) /\ v.sockets[k] = s /\ v.queue = w.queue /\ Changes(w, v, k, {})
  <2>1. Sound(s, w.queue, k, m)
    BY <1>3, LowerSound
  <2>2. QED
    BY <1>3, <2>1, PutSound
<1>6. k \in 1..Len(v.sockets) /\ k \in Nat
  BY <1>1, <1>5, WorldParts DEF Changes
<1>. HIDE DEF v
<1>7. CASE w.sockets[k].op = "reading"
  <2>1. Idle(v, k) /\ Kept(v, k) /\ v.sockets[k].listed
    BY <1>1, <1>3, <1>5, <1>7 DEF Idle, Kept, Sound, OneOperation, OneRemoval, Gone
  <2>2. "read_aborted" \in Completions /\ "read_aborted" \notin Attempts
    BY DEF Completions, Deliveries, Attempts
  <2>3. /\ WInv(Post(v, "read_aborted", k), m) /\ Post(v, "read_aborted", k).sockets = v.sockets
        /\ Changes(v, Post(v, "read_aborted", k), k, {"read_aborted"})
    BY <1>5, <1>6, <2>1, <2>2, CompletionSound
  <2>4. Changes(w, Post(v, "read_aborted", k), k, {"read_aborted"})
    BY <1>5, <1>6, <2>3 DEF Changes
  <2>5. QED
    BY <1>3, <1>4, <1>5, <1>7, <2>3, <2>4 DEF SameUse
<1>8. CASE w.sockets[k].op = "connecting"
  <2>1. Idle(v, k) /\ v.sockets[k].kind = "tcp" /\ v.sockets[k].layer = "down"
    BY <1>1, <1>3, <1>5, <1>8 DEF Idle, Sound, OneOperation, AttemptsAreTcp
  <2>2. "connect_aborted" \in Completions /\ "connect_aborted" \notin Deliveries
    BY DEF Completions, Deliveries, Attempts
  <2>3. /\ WInv(Post(v, "connect_aborted", k), m) /\ Post(v, "connect_aborted", k).sockets = v.sockets
        /\ Changes(v, Post(v, "connect_aborted", k), k, {"connect_aborted"})
    BY <1>5, <1>6, <2>1, <2>2, CompletionSound
  <2>4. Changes(w, Post(v, "connect_aborted", k), k, {"connect_aborted"})
    BY <1>5, <1>6, <2>3 DEF Changes
  <2>5. QED
    BY <1>3, <1>4, <1>5, <1>8, <2>3, <2>4 DEF SameUse
<1>9. CASE w.sockets[k].op = "resolving"
  <2>. DEFINE t == [w.sockets[k] EXCEPT !.isOpen = FALSE, !.to = "none"]
  <2>1. CloseSocket(w, k) = Put(w, k, t)
    <3>1. CloseSocket(w, k) = With(v, k, "op", "resolving")
      BY <1>4, <1>9
    <3>2. With(v, k, "op", "resolving") = Put(w, k, t)
      BY <1>1, <1>9 DEF With, Put, Worlds, Socket, v, s
    <3>3. QED
      BY <3>1, <3>2
  <2>2. /\ t \in Socket /\ t.op = "resolving" /\ t.kind = w.sockets[k].kind
        /\ t.listed = w.sockets[k].listed /\ t.isOpen = FALSE
        /\ t.pending = w.sockets[k].pending /\ t.layer = w.sockets[k].layer
    BY <1>1, <1>9 DEF Socket
  <2>. HIDE DEF t
  <2>3. Sound(t, w.queue, k, m)
    BY <1>9, <2>2, LowerSound
  <2>4. /\ WInv(Put(w, k, t), m) /\ Put(w, k, t).sockets[k] = t /\ Changes(w, Put(w, k, t), k, {})
    BY <2>2, <2>3, PutSound
  <2>5. QED
    BY <1>9, <2>1, <2>2, <2>4 DEF SameUse
<1>10. CASE w.sockets[k].op \notin {"reading", "connecting", "resolving"}
  <2>1. CloseSocket(w, k) = v
    BY <1>4, <1>10
  <2>2. QED
    BY <1>3, <1>5, <1>10, <2>1 DEF SameUse
<1>11. QED
  BY <1>7, <1>8, <1>9, <1>10

(* A client releases a socket of its own that it has not released before.  *)
LEMMA ReleaseSound ==
  ASSUME NEW w, WInv(w, "client"), NEW k \in 1..Len(w.sockets), w.sockets[k].listed, Kept(w, k),
         NEW a \in Removals, a = "remove_serial" => w.sockets[k].kind # "tcp",
         NEW v, v = CloseSocket(w, k) \/ v = CloseSerial(w, k)
  PROVE  /\ WInv(Post(v, a, k), "client")
         /\ Post(v, a, k).sockets[k].listed /\ ~Post(v, a, k).sockets[k].isOpen
         /\ Post(v, a, k).sockets[k].pending = w.sockets[k].pending
         /\ Changes(w, Post(v, a, k), k, {"read_aborted", "connect_aborted", a})
         /\ w.sockets[k].op = "none" =>
              Post(v, a, k).sockets[k].op = "none" /\ Changes(w, Post(v, a, k), k, {a})
<1>. DEFINE c == CloseSocket(w, k)
            A == {"read_aborted", "connect_aborted"}
<1>1. /\ WInv(c, "client") /\ SameUse(w, c, k)
      /\ ~c.sockets[k].isOpen /\ c.sockets[k].op \in {"none", "resolving"}
      /\ w.sockets[k].op # "resolving" => c.sockets[k].op = "none"
  BY CloseSocketSound
<1>2. Changes(w, c, k, A) /\ (w.sockets[k].op = "none" => Changes(w, c, k, {}))
  <2>1. Changes(w, c, k, CASE w.sockets[k].op = "reading" -> {"read_aborted"}
                           [] w.sockets[k].op = "connecting" -> {"connect_aborted"}
                           [] OTHER -> {})
    BY CloseSocketSound
  <2>. HIDE DEF c
  <2>2. CASE w.sockets[k].op = "reading"
    BY <2>1, <2>2, ChangesMore
  <2>3. CASE w.sockets[k].op = "connecting"
    BY <2>1, <2>3, ChangesMore
  <2>4. CASE w.sockets[k].op \notin {"reading", "connecting"}
    BY <2>1, <2>4, ChangesMore
  <2>5. QED
    BY <2>2, <2>3, <2>4
<1>3. k \in 1..Len(c.sockets) /\ c \in Worlds /\ c.sockets[k] \in Socket
  BY <1>1, <1>2, WorldParts DEF Changes, WInv
<1>. HIDE DEF c
<1>4. /\ WInv(v, "client") /\ SameButLayer(w, v, k)
      /\ ~v.sockets[k].isOpen /\ v.sockets[k].op \in {"none", "resolving"}
      /\ w.sockets[k].op # "resolving" => v.sockets[k].op = "none"
      /\ Changes(w, v, k, A)
      /\ w.sockets[k].op = "none" => Changes(w, v, k, {})
  <2>1. CASE v = c
    BY <1>1, <1>2, <2>1 DEF SameButLayer, SameUse
  <2>2. CASE v = CloseSerial(w, k)
    <3>. DEFINE s == [c.sockets[k] EXCEPT !.layer = "down"]
    <3>1. v = Put(c, k, s)
      BY <1>3, <2>2 DEF CloseSerial, With, Put, Worlds, c
    <3>2. /\ s \in Socket /\ s.op = c.sockets[k].op /\ s.kind = c.sockets[k].kind /\ s.layer = "down"
          /\ s.listed = c.sockets[k].listed /\ s.isOpen = c.sockets[k].isOpen
          /\ s.pending = c.sockets[k].pending
      BY <1>3 DEF Socket
    <3>. HIDE DEF s
    <3>3. Sound(s, c.queue, k, "client")
      BY <1>1, <1>3, <3>2, LowerSound
    <3>4. /\ WInv(Put(c, k, s), "client") /\ Put(c, k, s).sockets[k] = s
          /\ Changes(c, Put(c, k, s), k, {})
      BY <1>1, <1>3, <3>2, <3>3, PutSound
    <3>5. \A B : Changes(w, c, k, B) => Changes(w, v, k, B)
      BY <3>1, <3>4 DEF Changes
    <3>6. QED
      BY <1>1, <1>2, <3>1, <3>2, <3>4, <3>5 DEF SameButLayer, SameUse
  <2>3. QED
    BY <2>1, <2>2 DEF c
<1>5. k \in 1..Len(v.sockets) /\ v.sockets[k].listed /\ v.sockets[k].kind = w.sockets[k].kind
  BY <1>4 DEF Changes, SameButLayer
<1>6. Kept(v, k)
  <2>1. \A b \in Removals : b \notin A
    BY DEF Removals
  <2>2. QED
    BY <1>4, <2>1 DEF Kept, Changes
<1>7. /\ WInv(Post(v, a, k), "client") /\ Post(v, a, k).sockets = v.sockets
      /\ Changes(v, Post(v, a, k), k, {a})
  BY <1>4, <1>5, <1>6, RemovalSound
<1>8. /\ Changes(w, Post(v, a, k), k, {"read_aborted", "connect_aborted", a})
      /\ w.sockets[k].op = "none" => Changes(w, Post(v, a, k), k, {a})
  BY <1>4, <1>7 DEF Changes
<1>9. QED
  BY <1>4, <1>7, <1>8 DEF SameButLayer

(* A socket that was made just now.                                        *)
LEMMA CreateSound ==
  ASSUME NEW m, NEW w, WInv(w, m), NEW kind \in {"tcp", "hdlc", "wrapper"}, NEW n, n = Len(w.sockets) + 1
  PROVE  /\ WInv(Create(w, kind), m) /\ Create(w, kind).queue = w.queue
         /\ Len(Create(w, kind).sockets) = n /\ n \in 1..n
         /\ \A j \in 1..Len(w.sockets) : Create(w, kind).sockets[j] = w.sockets[j] /\ j \in 1..n
         /\ Idle(Create(w, kind), n) /\ Kept(Create(w, kind), n)
         /\ Create(w, kind).sockets[n].kind = kind /\ Create(w, kind).sockets[n].listed
         /\ Create(w, kind).sockets[n].layer = "down" /\ Create(w, kind).sockets[n].pending = "none"
<1>. DEFINE s == [kind |-> kind, isOpen |-> FALSE, listed |-> TRUE, op |-> "none",
                  left |-> <<>>, to |-> "none", layer |-> "down", pending |-> "none"]
            t == Append(w.sockets, s)
            v == Create(w, kind)
<1>1. w \in Worlds /\ w.sockets \in Seq(Socket) /\ w.queue \in Seq(Handlers) /\ Len(w.sockets) \in Nat
  BY WorldParts DEF WInv
<1>2. /\ s \in Socket /\ s.op = "none" /\ s.listed /\ ~s.isOpen /\ s.pending = "none"
      /\ s.kind = kind /\ s.layer = "down"
  BY EmptySeq DEF Socket
<1>3. v.sockets = t /\ v.queue = w.queue /\ (t \in Seq(Socket) => v \in Worlds)
  BY <1>1 DEF Create, Worlds
<1>. HIDE DEF s
<1>4. /\ t \in Seq(Socket) /\ Len(t) = n /\ t[n] = s
      /\ \A j \in 1..Len(w.sockets) : t[j] = w.sockets[j]
  BY <1>1, <1>2, AppendProperties
<1>. HIDE DEF t, v
<1>5. n \in 1..n /\ n \in Nat /\ \A j \in 1..n : j \in 1..Len(w.sockets) \/ j = n
  BY <1>1
<1>6. \A j \in 1..Len(w.sockets) : j \in 1..n
  BY <1>1
<1>7. \A a : ~Waits(w.queue, n, a)
  <2>1. \A i \in 1..Len(w.queue) : w.queue[i].of <= Len(w.sockets)
    BY DEF WInv
  <2>2. \A i \in 1..Len(w.queue) : w.queue[i].of # n
    <3>1. \A i \in 1..Len(w.queue) : w.queue[i].of \in Nat
      BY <1>1, ElementOfSeq DEF Handlers
    <3>2. QED
      BY <1>1, <2>1, <3>1
  <2>3. QED
    BY <2>2 DEF Waits
<1>8. Sound(s, w.queue, n, m)
  <2>1. \A a, b : ~Before(w.queue, n, a, b)
    BY <1>7, BothWait
  <2>2. QED
    BY <1>2, <1>7, <2>1 DEF Sound, OneOperation, OneRemoval, AttemptsAreTcp, Gone, Sides
<1>9. WInv(v, m)
  <2>1. ASSUME NEW j \in 1..n PROVE Sound(v.sockets[j], v.queue, j, m)
    <3>1. CASE j = n
      BY <1>3, <1>4, <1>8, <3>1
    <3>2. CASE j \in 1..Len(w.sockets)
      <4>1. v.sockets[j] = w.sockets[j] /\ Sound(w.sockets[j], w.queue, j, m)
        BY <1>3, <1>4, <3>2 DEF WInv
      <4>2. QED
        BY <1>3, <4>1
    <3>3. QED
      BY <1>5, <3>1, <3>2
  <2>2. \A i \in 1..Len(v.queue) : v.queue[i].of <= Len(v.sockets)
    <3>1. \A i \in 1..Len(w.queue) : w.queue[i].of <= Len(w.sockets) /\ w.queue[i].of \in Nat
      BY <1>1, ElementOfSeq DEF Handlers, WInv
    <3>2. QED
      BY <1>1, <1>3, <1>4, <3>1
  <2>3. QED
    BY <1>3, <1>4, <2>1, <2>2 DEF WInv
<1>10. Idle(v, n) /\ Kept(v, n)
  BY <1>2, <1>3, <1>4, <1>7 DEF Idle, Kept
<1>11. QED
  BY <1>2, <1>3, <1>4, <1>5, <1>6, <1>9, <1>10 DEF v

(* A TCP socket that was made just now resolves its name, or listens.      *)
LEMMA OpenTcpSound ==
  ASSUME NEW m, NEW w, WInv(w, m), NEW k \in 1..Len(w.sockets), w.sockets[k].listed, Idle(w, k),
         w.sockets[k].kind = "tcp", w.sockets[k].layer = "down", NEW name \in Seq(Endpoints)
  PROVE  /\ WInv(OpenTcp(w, k, name), m) /\ SameUse(w, OpenTcp(w, k, name), k)
         /\ OpenTcp(w, k, name).sockets[k].op = "resolving"
         /\ Changes(w, OpenTcp(w, k, name), k, {})
<1>1. w \in Worlds /\ w.sockets[k] \in Socket
  BY WorldParts DEF WInv
<1>. DEFINE s == [w.sockets[k] EXCEPT !.op = "resolving", !.left = name]
<1>2. OpenTcp(w, k, name) = Put(w, k, s)
  BY <1>1 DEF OpenTcp, With, Put, Worlds
<1>3. /\ s \in Socket /\ s.op = "resolving" /\ s.kind = w.sockets[k].kind
      /\ s.listed = w.sockets[k].listed /\ s.isOpen = w.sockets[k].isOpen
      /\ s.pending = w.sockets[k].pending /\ s.layer = w.sockets[k].layer
  BY <1>1 DEF Socket
<1>. HIDE DEF s
<1>4. Sound(s, w.queue, k, m)
  BY <1>3, IdleSound
<1>5. /\ WInv(Put(w, k, s), m) /\ Put(w, k, s).sockets[k] = s /\ Changes(w, Put(w, k, s), k, {})
  BY <1>3, <1>4, PutSound
<1>6. QED
  BY <1>2, <1>3, <1>5 DEF SameUse

LEMMA ListenSound ==
  ASSUME NEW w, WInv(w, "server"), NEW k \in 1..Len(w.sockets), w.sockets[k].listed, Idle(w, k),
         Kept(w, k)
  PROVE  /\ WInv(Listen(w, k), "server") /\ SameUse(w, Listen(w, k), k)
         /\ Changes(w, Listen(w, k), k, {})
<1>1. w \in Worlds /\ w.sockets[k] \in Socket
  BY WorldParts DEF WInv
<1>. DEFINE s == [w.sockets[k] EXCEPT !.op = "accepting"]
<1>2. Listen(w, k) \in {w, Put(w, k, s)}
  <2>1. With(w, k, "op", "accepting") = Put(w, k, s)
    BY <1>1 DEF With, Put, Worlds
  <2>2. QED
    BY <2>1 DEF Listen
<1>3. /\ s \in Socket /\ s.op = "accepting" /\ s.kind = w.sockets[k].kind
      /\ s.listed = w.sockets[k].listed /\ s.isOpen = w.sockets[k].isOpen
      /\ s.pending = w.sockets[k].pending /\ s.layer = w.sockets[k].layer
  BY <1>1 DEF Socket
<1>. HIDE DEF s
<1>4. Sound(s, w.queue, k, "server")
  BY <1>3, IdleSound
<1>5. /\ WInv(Put(w, k, s), "server") /\ Put(w, k, s).sockets[k] = s /\ Changes(w, Put(w, k, s), k, {})
  BY <1>3, <1>4, PutSound
<1>6. CASE Listen(w, k) = w
  BY <1>6 DEF SameUse, Changes
<1>7. CASE Listen(w, k) = Put(w, k, s)
  BY <1>3, <1>5, <1>7 DEF SameUse
<1>8. QED
  BY <1>2, <1>6, <1>7

(* A serial socket that was made just now is opened, with any outcome; the *)
(* layers above it stay down unless it succeeds.                           *)
LEMMA OpenSerialSound ==
  ASSUME NEW m, NEW w, WInv(w, m), NEW k \in 1..Len(w.sockets), w.sockets[k].listed, Idle(w, k),
         Kept(w, k), w.sockets[k].kind # "tcp", w.sockets[k].layer = "down",
         NEW outcome \in {"fails", "half", "succeeds"}
  PROVE  /\ WInv(OpenSerial(w, k, outcome), m) /\ SameButLayer(w, OpenSerial(w, k, outcome), k)
         /\ OpenSerial(w, k, outcome).sockets[k].op \in {"none", "reading"}
         /\ Changes(w, OpenSerial(w, k, outcome), k, {"bad_descriptor"})
         /\ outcome # "succeeds" =>
              /\ OpenSerial(w, k, outcome).sockets[k].layer = "down"
              /\ Idle(OpenSerial(w, k, outcome), k)
<1>1. w \in Worlds /\ w.sockets[k] \in Socket
  BY WorldParts DEF WInv
<1>2. CASE outcome = "fails"
  <2>1. OpenSerial(w, k, outcome) = w
    BY <1>2 DEF OpenSerial
  <2>2. QED
    BY <2>1 DEF SameButLayer, Changes, Idle
<1>3. CASE outcome = "half"
  <2>. DEFINE s == [w.sockets[k] EXCEPT !.isOpen = TRUE]
  <2>1. OpenSerial(w, k, outcome) = Put(w, k, s)
    <3>1. OpenSerial(w, k, outcome) = With(w, k, "isOpen", TRUE)
      BY <1>3 DEF OpenSerial
    <3>2. With(w, k, "isOpen", TRUE) = Put(w, k, s)
      BY <1>1 DEF With, Put, Worlds
    <3>3. QED
      BY <3>1, <3>2
  <2>2. /\ s \in Socket /\ s.op = w.sockets[k].op /\ s.kind = w.sockets[k].kind
        /\ s.listed = w.sockets[k].listed /\ s.isOpen
        /\ s.pending = w.sockets[k].pending /\ s.layer = w.sockets[k].layer
    BY <1>1 DEF Socket
  <2>. HIDE DEF s
  <2>3. Sound(s, w.queue, k, m)
    BY <2>2, IdleSound DEF Idle
  <2>4. /\ WInv(Put(w, k, s), m) /\ Put(w, k, s).sockets[k] = s /\ Put(w, k, s).queue = w.queue
        /\ Changes(w, Put(w, k, s), k, {})
    BY <2>2, <2>3, PutSound
  <2>5. Changes(w, Put(w, k, s), k, {"bad_descriptor"})
    BY <2>4 DEF Changes
  <2>6. QED
    BY <2>1, <2>2, <2>4, <2>5 DEF SameButLayer, Idle
<1>4. CASE outcome = "succeeds"
  <2>1. PICK layer \in {"physical", "connected"} :
          OpenSerial(w, k, outcome) = StartRead(With(With(w, k, "isOpen", TRUE), k, "layer", layer), k)
    BY <1>4 DEF OpenSerial
  <2>. DEFINE s == [w.sockets[k] EXCEPT !.isOpen = TRUE, !.layer = layer]
              v == Put(w, k, s)
  <2>2. With(With(w, k, "isOpen", TRUE), k, "layer", layer) = v
    BY <1>1 DEF With, Put, Worlds
  <2>3. /\ s \in Socket /\ s.op = w.sockets[k].op /\ s.kind = w.sockets[k].kind
        /\ s.listed = w.sockets[k].listed /\ s.isOpen
        /\ s.pending = w.sockets[k].pending
    BY <1>1, <2>1 DEF Socket
  <2>. HIDE DEF s
  <2>4. Sound(s, w.queue, k, m)
    BY <2>3, IdleSound DEF Idle
  <2>5. /\ WInv(v, m) /\ v.sockets[k] = s /\ v.queue = w.queue /\ Changes(w, v, k, {})
    BY <2>3, <2>4, PutSound
  <2>. HIDE DEF v
  <2>6. k \in 1..Len(v.sockets) /\ Idle(v, k) /\ Kept(v, k) /\ v.sockets[k].listed
    BY <2>3, <2>5 DEF Changes, Idle, Kept
  <2>7. /\ WInv(StartRead(v, k), m) /\ SameUse(v, StartRead(v, k), k)
        /\ StartRead(v, k).sockets[k].op \in {"none", "reading"}
        /\ Changes(v, StartRead(v, k), k, {"bad_descriptor"})
    BY <2>5, <2>6, StartReadSound
  <2>8. Changes(w, StartRead(v, k), k, {"bad_descriptor"})
    BY <2>5, <2>7 DEF Changes
  <2>9. QED
    BY <1>4, <2>1, <2>2, <2>3, <2>5, <2>7, <2>8 DEF SameUse, SameButLayer
<1>5. QED
  BY <1>2, <1>3, <1>4
-----------------------------------------------------------------------------
(* Handlers.                                                               *)

LEMMA WorldIs ==
  ASSUME WInv(World, mode)
  PROVE  /\ World \in Worlds /\ World.sockets = sockets /\ World.queue = queue
         /\ sockets \in Seq(Socket) /\ queue \in Seq(Handlers) /\ Len(sockets) \in Nat
         /\ DOMAIN sockets = 1..Len(sockets)
         /\ \A k \in 1..Len(sockets) : sockets[k] \in Socket /\ Sound(sockets[k], queue, k, mode)
<1>1. World \in Worlds /\ World.sockets = sockets /\ World.queue = queue
  BY DEF WInv, World
<1>2. QED
  BY <1>1, WorldParts DEF WInv

(* What is known when a handler runs: the rest of the queue, and how its   *)
(* own handlers stand to the first.                                        *)
LEMMA HandledIs ==
  ASSUME WInv(World, mode), queue # <<>>
  PROVE  /\ WInv(Handled, mode) /\ Handled.sockets = sockets /\ Handled.queue = Tail(queue)
         /\ \A k : Changes(World, Handled, k, {})
         /\ \A a, b : Before(Handled.queue, 0, a, b) => Before(queue, 0, a, b)
         /\ Next1 \in Handlers /\ It \in 0..Len(sockets)
         /\ Waits(queue, It, Next1.kind)
         /\ \A a : Waits(Handled.queue, It, a) => Before(queue, It, Next1.kind, a)
<1>1. /\ World \in Worlds /\ World.sockets = sockets /\ World.queue = queue
      /\ sockets \in Seq(Socket) /\ queue \in Seq(Handlers) /\ Len(sockets) \in Nat
  BY WorldIs
<1>2. Handled.sockets = sockets /\ Handled.queue = Tail(queue)
      /\ (Tail(queue) \in Seq(Handlers) => Handled \in Worlds)
  BY <1>1 DEF Handled, World, Worlds
<1>3. /\ Tail(queue) \in Seq(Handlers) /\ Next1 \in Handlers
      /\ Waits(queue, It, Next1.kind)
      /\ \A k, a : Waits(Tail(queue), k, a) => Waits(queue, k, a)
      /\ \A k, a, b : Before(Tail(queue), k, a, b) => Before(queue, k, a, b)
      /\ \A a : Waits(Tail(queue), It, a) => Before(queue, It, Next1.kind, a)
  BY <1>1, TailWaits DEF Next1, It
<1>4. /\ Len(queue) \in Nat /\ Len(queue) > 0 /\ Len(Tail(queue)) = Len(queue) - 1
      /\ Head(queue) = queue[1]
      /\ \A i \in 1..Len(Tail(queue)) : Tail(queue)[i] = queue[i + 1]
  BY <1>1, HeadTailProperties, LenProperties, EmptySeq
<1>5. \A i \in 1..Len(queue) : queue[i].of <= Len(sockets)
  BY <1>1 DEF WInv
<1>6. \A i \in 1..Len(Tail(queue)) : Tail(queue)[i].of <= Len(sockets)
  BY <1>4, <1>5
<1>7. ASSUME NEW k \in 1..Len(sockets) PROVE Sound(sockets[k], Tail(queue), k, mode)
  <2>1. Sound(sockets[k], queue, k, mode)
    BY <1>7, WorldIs
  <2>2. QED
    BY <1>3, <2>1 DEF Sound, OneOperation, OneRemoval, AttemptsAreTcp, Gone, Sides
<1>8. WInv(Handled, mode)
  BY <1>2, <1>3, <1>6, <1>7 DEF WInv
<1>9. ASSUME NEW k PROVE Changes(World, Handled, k, {})
  BY <1>1, <1>2, <1>3 DEF Changes
<1>10. It \in 0..Len(sockets)
  <2>1. It \in Nat
    BY <1>3 DEF It, Handlers
  <2>2. It <= Len(sockets)
    BY <1>4, <1>5 DEF It, Next1
  <2>3. QED
    BY <1>1, <2>1, <2>2
<1>11. QED
  BY <1>2, <1>3, <1>8, <1>9, <1>10

(* Handlers of kinds that sockets have are handlers of sockets.            *)
LEMMA KindOfSocket ==
  ASSUME NEW h \in Handlers
  PROVE  /\ h.kind \in Completions \cup Removals => h.of \in Nat \ {0}
         /\ h.kind \in {"menu"} \cup Lines => h.of = 0
         /\ h.kind \in {"menu"} \cup Lines \cup Completions \cup Removals
BY DEF Handlers, Completions, Removals, Lines, Attempts, Deliveries

(* A completion finds its socket idle, and open only if it is kept.        *)
LEMMA CompletionIs ==
  ASSUME WInv(World, mode), NEW kind \in Completions, Handles(kind)
  PROVE  /\ It \in 1..Len(sockets) /\ It \in 1..Len(Handled.sockets)
         /\ sockets[It].listed /\ sockets[It].op = "none" /\ sockets[It] \in Socket
         /\ Idle(Handled, It) /\ ~Dormant(It)
         /\ kind \in {"connected"} \cup Deliveries /\ sockets[It].isOpen => Kept(Handled, It)
         /\ kind \in Attempts => sockets[It].kind = "tcp" /\ sockets[It].layer = "down"
         /\ kind \in {"accepted", "broken"} => mode = "server" /\ Kept(Handled, It)
<1>1. at = "queue" /\ queue # <<>> /\ Next1.kind = kind /\ (It # 0 => sockets[It].listed)
  BY DEF Handles, Running, It
<1>2. /\ WInv(Handled, mode) /\ Handled.sockets = sockets /\ Next1 \in Handlers
      /\ It \in 0..Len(sockets) /\ Waits(queue, It, kind)
      /\ \A a : Waits(Handled.queue, It, a) => Before(queue, It, kind, a)
      /\ \A a : Waits(Handled.queue, It, a) => Waits(queue, It, a)
  <2>1. \A a : Waits(Handled.queue, It, a) => Waits(queue, It, a)
    BY <1>1, HandledIs DEF Changes, World
  <2>2. QED
    BY <1>1, <2>1, HandledIs
<1>3. It \in 1..Len(sockets)
  BY <1>1, <1>2, KindOfSocket, WorldIs DEF It
<1>4. sockets[It] \in Socket /\ Sound(sockets[It], queue, It, mode)
  BY <1>3, WorldIs
<1>5. sockets[It].op = "none" /\ Idle(Handled, It) /\ ~Dormant(It)
  BY <1>2, <1>4 DEF Idle, Dormant, Sound, OneOperation
<1>6. kind \in {"connected"} \cup Deliveries /\ sockets[It].isOpen => Kept(Handled, It)
  BY <1>2, <1>4 DEF Kept, Sound, OneRemoval
<1>7. kind \in Attempts => sockets[It].kind = "tcp" /\ sockets[It].layer = "down"
  BY <1>2, <1>4 DEF Sound, AttemptsAreTcp
<1>8. kind \in {"accepted", "broken"} => mode = "server" /\ Kept(Handled, It)
  <2>1. kind \in {"accepted", "broken"} => mode = "server"
    BY <1>2, <1>4 DEF Sound, Sides
  <2>2. mode = "server" => Kept(Handled, It)
    BY <1>2, <1>4 DEF Sound, Sides, Kept
  <2>3. QED
    BY <2>1, <2>2
<1>9. QED
  BY <1>1, <1>2, <1>3, <1>4, <1>5, <1>6, <1>7, <1>8
-----------------------------------------------------------------------------
(* Steps.                                                                  *)

(* A request for data or an association goes through the menu's current    *)
(* socket: what a step of RequestsUseOwnSocket is.                         *)
RequestStep ==
  \A k \in DOMAIN sockets :
    (sockets'[k].pending # sockets[k].pending /\ sockets'[k].pending \in {"associate", "access"})
      => k = m_pSocket /\ Listed(k) /\ sockets[k].isOpen

LEMMA BecomesSound ==
  ASSUME NEW v, WInv(v, mode), Becomes(v), mode' = mode
  PROVE  WInv(World, mode)' /\ sockets' = v.sockets /\ queue' = v.queue
<1>1. v \in Worlds /\ sockets' = v.sockets /\ queue' = v.queue
  BY DEF Becomes, WInv
<1>2. v = [sockets |-> sockets', queue |-> queue']
  BY <1>1 DEF Worlds
<1>3. QED
  BY <1>1, <1>2 DEF WInv, World

(* A socket's completion or the network moves socket k on.                 *)
LEMMA SocketStep ==
  ASSUME IInv, at # "thrown", NEW k \in 1..Len(sockets), NEW v, WInv(v, mode), Becomes(v),
         Changes(World, v, k, Completions),
         UNCHANGED <<mode, at, input, m_pSocket, m_pSerialSocket, m_pHDLC, parted>>,
         v.sockets[k].listed = sockets[k].listed,
         v.sockets[k].pending \in {"none", sockets[k].pending},
         ~Dormant(k),
         at # "queue" => v.sockets[k].isOpen = sockets[k].isOpen,
         mode = "client" /\ ~parted =>
           (v.sockets[k].op = "connecting" \/ Waits(v.queue, k, "connected") => v.sockets[k].isOpen)
  PROVE  IInv' /\ RequestStep
<1>1. WInv(World, mode)' /\ sockets' = v.sockets /\ queue' = v.queue
  BY BecomesSound
<1>2. Len(sockets) \in Nat /\ k \in Nat \ {0} /\ DOMAIN sockets = 1..Len(sockets)
  BY WorldIs DEF IInv
<1>3. /\ Len(sockets') = Len(sockets)
      /\ \A j \in 1..Len(sockets) : j # k => sockets'[j] = sockets[j]
      /\ sockets'[k].kind = sockets[k].kind /\ sockets'[k].listed = sockets[k].listed
      /\ \A a : Waits(queue', k, a) => Waits(queue, k, a) \/ a \in Completions
      /\ \A j \in Nat : j # k =>
           /\ \A a : Waits(queue', j, a) => Waits(queue, j, a)
           /\ \A a, b : Before(queue', j, a, b) => Before(queue, j, a, b)
  BY <1>1 DEF Changes, World
<1>4. \A a \in Removals : a \notin Completions
  BY DEF Removals, Completions, Attempts, Deliveries
<1>5. \A j \in 1..Len(sockets) :
        /\ sockets'[j].kind = sockets[j].kind /\ sockets'[j].listed = sockets[j].listed
        /\ \A a \in Removals : Waits(queue', j, a) => Waits(queue, j, a)
        /\ sockets'[j].pending \in {"none", sockets[j].pending}
  BY <1>1, <1>2, <1>3, <1>4
<1>6. Pointers'
  BY <1>2, <1>3, <1>5 DEF IInv, Pointers, Valid, Removals
<1>7. Engine'
  BY <1>2, <1>3 DEF IInv, Engine, Dormant
<1>8. Prompt'
  BY <1>1, <1>2, <1>3 DEF IInv, Prompt, Prompting, MenuChoices, Prompts
<1>9. Untouched'
  BY <1>1, <1>2, <1>3, <1>5 DEF IInv, Untouched
<1>10. Menu'
  BY <1>2, <1>3 DEF IInv, Menu, Prompting, MenuChoices, Makes
<1>11. RequestStep
  BY <1>2, <1>5 DEF RequestStep
<1>12. QED
  BY <1>1, <1>6, <1>7, <1>8, <1>9, <1>10, <1>11 DEF IInv

(* A handler goes: whatever is left was there before.                      *)
LEMMA PopStep ==
  ASSUME IInv, at # "thrown", queue # <<>>, Becomes(Handled),
         UNCHANGED <<mode, at, input, m_pSocket, m_pSerialSocket, m_pHDLC, parted>>
  PROVE  IInv' /\ RequestStep
<1>1. WInv(Handled, mode) /\ Handled.sockets = sockets /\ Handled.queue = Tail(queue)
      /\ \A k : Changes(World, Handled, k, {})
      /\ \A a, b : Before(Handled.queue, 0, a, b) => Before(queue, 0, a, b)
  BY HandledIs DEF IInv
<1>2. WInv(World, mode)' /\ sockets' = sockets /\ queue' = Handled.queue
  BY <1>1, BecomesSound
<1>3. \A k, a : Waits(queue', k, a) => Waits(queue, k, a)
  BY <1>1, <1>2 DEF Changes, World
<1>4. Pointers'
  BY <1>2, <1>3 DEF IInv, Pointers, Valid
<1>5. Engine'
  BY <1>2, <1>3 DEF IInv, Engine, Dormant
<1>6. Prompt'
  BY <1>2 DEF IInv, Prompt, Prompting, MenuChoices, Prompts
<1>7. Untouched'
  BY <1>2, <1>3 DEF IInv, Untouched
<1>8. Menu'
  BY <1>1, <1>2, <1>3 DEF IInv, Menu, Prompting, MenuChoices, Makes
<1>9. RequestStep
  BY <1>2 DEF RequestStep
<1>10. QED
  BY <1>2, <1>4, <1>5, <1>6, <1>7, <1>8, <1>9 DEF IInv

(* A handler of socket It runs to its end.                                 *)
LEMMA CompletionStep ==
  ASSUME IInv, NEW kind \in Completions, Handles(kind), NEW v, WInv(v, mode), Becomes(v),
         Changes(Handled, v, It, {"bad_descriptor"}),
         v.sockets[It].listed, v.sockets[It].pending \in {"none", sockets[It].pending},
         v.sockets[It].op = "connecting" => v.sockets[It].isOpen,
         UNCHANGED <<mode, at, input, m_pSocket, m_pSerialSocket, m_pHDLC, parted>>
  PROVE  IInv' /\ RequestStep
<1>1. at = "queue" /\ queue # <<>>
  BY DEF Handles, Running
<1>2. /\ It \in 1..Len(sockets) /\ sockets[It].listed /\ Idle(Handled, It) /\ ~Dormant(It)
      /\ sockets[It] \in Socket /\ v.sockets[It] \in Socket
  <2>1. /\ It \in 1..Len(sockets) /\ sockets[It].listed /\ Idle(Handled, It) /\ ~Dormant(It)
        /\ sockets[It] \in Socket /\ Handled.sockets = sockets
    BY <1>1, CompletionIs, HandledIs DEF IInv
  <2>2. It \in 1..Len(v.sockets)
    BY <2>1 DEF Changes
  <2>3. v.sockets[It] \in Socket
    BY <2>2, WorldParts DEF WInv
  <2>4. QED
    BY <2>1, <2>3
<1>3. Changes(World, v, It, Completions)
  <2>1. Changes(World, Handled, It, {}) /\ It \in Nat
    BY <1>1, <1>2, HandledIs, WorldIs DEF IInv
  <2>2. It \in 1..Len(World.sockets) /\ "bad_descriptor" \in Completions
    BY <1>2 DEF World, Completions
  <2>3. Changes(World, v, It, {} \cup {"bad_descriptor"})
    BY <2>1, <2>2, ChangesTwice
  <2>4. QED
    BY <2>2, <2>3, ChangesMore
<1>4. ~Waits(v.queue, It, "connected")
  BY <1>2 DEF Changes, Idle, Completions, Attempts
<1>5. v.sockets[It].listed = sockets[It].listed
  BY <1>2, SocketParts
<1>6. QED
  BY <1>1, <1>2, <1>3, <1>4, <1>5, SocketStep

(* A socket that has become idle is looked after, and reads again.         *)
LEMMA ReadOnSound ==
  ASSUME NEW m, NEW w, WInv(w, m), NEW k \in 1..Len(w.sockets), w.sockets[k].listed, Idle(w, k),
         NEW s \in Socket, s.kind = w.sockets[k].kind, s.listed, s.op = "none",
         s.isOpen => Kept(w, k), s.pending \in {"none", w.sockets[k].pending}
  PROVE  /\ WInv(StartRead(Put(w, k, s), k), m)
         /\ Changes(w, StartRead(Put(w, k, s), k), k, {"bad_descriptor"})
         /\ StartRead(Put(w, k, s), k).sockets[k].listed
         /\ StartRead(Put(w, k, s), k).sockets[k].pending = s.pending
         /\ StartRead(Put(w, k, s), k).sockets[k].layer = s.layer
         /\ StartRead(Put(w, k, s), k).sockets[k].op \in {"none", "reading"}
<1>. DEFINE v == Put(w, k, s)
<1>1. Sound(s, w.queue, k, m)
  BY IdleSound
<1>2. /\ WInv(v, m) /\ v.sockets[k] = s /\ v.queue = w.queue /\ Changes(w, v, k, {})
  BY <1>1, PutSound
<1>. HIDE DEF v
<1>3. /\ k \in 1..Len(v.sockets) /\ Idle(v, k) /\ v.sockets[k].listed
      /\ v.sockets[k].isOpen => Kept(v, k)
  BY <1>2 DEF Changes, Idle, Kept
<1>4. /\ WInv(StartRead(v, k), m) /\ SameUse(v, StartRead(v, k), k)
      /\ StartRead(v, k).sockets[k].op \in {"none", "reading"}
      /\ Changes(v, StartRead(v, k), k, {"bad_descriptor"})
  BY <1>2, <1>3, StartReadSound
<1>5. Changes(w, StartRead(v, k), k, {"bad_descriptor"})
  BY <1>2, <1>4 DEF Changes
<1>6. QED
  BY <1>2, <1>4, <1>5 DEF SameUse, v
-----------------------------------------------------------------------------
(* Completions.                                                            *)

(* What CompletionStep needs of the tuples.                                *)
LEMMA KeepsAll ==
  ASSUME Keeps
  PROVE  UNCHANGED <<mode, at, input, m_pSocket, m_pSerialSocket, m_pHDLC, parted>>
BY DEF Keeps, menu, pointers

LEMMA AttemptStep ==
  ASSUME IInv, RunResolved \/ RunNotConnected
  PROVE  IInv' /\ RequestStep
<1>1. PICK kind \in {"resolved", "refused", "connect_aborted"} : Handles(kind)
  BY DEF RunResolved, RunNotConnected
<1>2. Becomes(ConnectNext(Handled, It)) /\ Keeps
  BY DEF RunResolved, RunNotConnected
<1>3. kind \in Completions /\ kind \in Attempts
  BY <1>1 DEF Completions, Attempts
<1>4. queue # <<>> /\ WInv(World, mode) /\ WInv(Handled, mode) /\ Handled.sockets = sockets
  BY <1>1, HandledIs DEF IInv, Handles, Running
<1>5. /\ It \in 1..Len(Handled.sockets) /\ Handled.sockets[It].listed /\ Idle(Handled, It)
      /\ Handled.sockets[It].kind = "tcp" /\ Handled.sockets[It].layer = "down"
  BY <1>1, <1>3, <1>4, CompletionIs
<1>. DEFINE v == ConnectNext(Handled, It)
<1>6. /\ WInv(v, mode) /\ SameUse(Handled, v, It) /\ Changes(Handled, v, It, {})
      /\ \/ v.sockets[It].op = "none"
         \/ v.sockets[It].op = "connecting" /\ v.sockets[It].isOpen
  BY <1>4, <1>5, ConnectNextSound
<1>. HIDE DEF v
<1>7. Changes(Handled, v, It, {"bad_descriptor"})
  BY <1>6, ChangesMore
<1>8. Becomes(v) /\ v.sockets[It].listed /\ v.sockets[It].pending = sockets[It].pending
  BY <1>2, <1>4, <1>5, <1>6 DEF v, SameUse
<1>9. QED
  BY <1>1, <1>2, <1>3, <1>6, <1>7, <1>8, KeepsAll, CompletionStep

LEMMA AcceptedStep == ASSUME IInv, RunAccepted PROVE IInv' /\ RequestStep
<1>1. Handles("accepted") /\ Keeps /\ "accepted" \in Completions
  BY DEF RunAccepted, Completions, Deliveries
<1>2. queue # <<>> /\ WInv(World, mode) /\ WInv(Handled, mode) /\ Handled.sockets = sockets
  BY <1>1, HandledIs DEF IInv, Handles, Running
<1>3. /\ It \in 1..Len(Handled.sockets) /\ Handled.sockets[It].listed /\ Idle(Handled, It)
      /\ Kept(Handled, It) /\ Handled.sockets[It] \in Socket /\ Handled \in Worlds
      /\ Handled.sockets[It].op = "none"
  BY <1>1, <1>2, CompletionIs DEF WInv
<1>. DEFINE s == [Handled.sockets[It] EXCEPT !.isOpen = TRUE, !.layer = "connected"]
            v == StartRead(Put(Handled, It, s), It)
<1>4. Becomes(v)
  <2>1. [Handled EXCEPT !.sockets[It].isOpen = TRUE, !.sockets[It].layer = "connected"]
          = Put(Handled, It, s)
    BY <1>3 DEF Put, Worlds
  <2>2. QED
    BY <2>1 DEF RunAccepted
<1>5. /\ s \in Socket /\ s.op = "none" /\ s.kind = Handled.sockets[It].kind
      /\ s.listed = Handled.sockets[It].listed /\ s.pending = Handled.sockets[It].pending
  BY <1>3 DEF Socket
<1>. HIDE DEF s
<1>6. /\ WInv(v, mode) /\ Changes(Handled, v, It, {"bad_descriptor"})
      /\ v.sockets[It].listed /\ v.sockets[It].pending = s.pending
      /\ v.sockets[It].op \in {"none", "reading"}
  BY <1>2, <1>3, <1>5, ReadOnSound
<1>. HIDE DEF v
<1>7. QED
  BY <1>1, <1>2, <1>4, <1>5, <1>6, KeepsAll, CompletionStep

LEMMA ClosedStep == ASSUME IInv, RunClosed \/ RunBadDescriptor PROVE IInv' /\ RequestStep
<1>1. CASE RunBadDescriptor
  BY <1>1, KeepsAll, PopStep DEF RunBadDescriptor, Handles, Running
<1>2. CASE RunClosed
  <2>1. PICK kind \in {"eof", "read_aborted"} : Handles(kind)
    BY <1>2 DEF RunClosed
  <2>2. kind \in Completions /\ Keeps
    BY <1>2, <2>1 DEF RunClosed, Completions, Deliveries
  <2>3. queue # <<>> /\ WInv(World, mode) /\ WInv(Handled, mode) /\ Handled.sockets = sockets
    BY <2>1, HandledIs DEF IInv, Handles, Running
  <2>4. /\ It \in 1..Len(Handled.sockets) /\ Handled.sockets[It].listed /\ Idle(Handled, It)
        /\ Handled.sockets[It] \in Socket /\ Handled \in Worlds
        /\ Handled.sockets[It].op = "none"
    BY <2>1, <2>2, <2>3, CompletionIs DEF WInv
  <2>. DEFINE s == [Handled.sockets[It] EXCEPT !.layer = "down"]
              v == Put(Handled, It, s)
  <2>5. Becomes(v)
    <3>1. With(Handled, It, "layer", "down") = Put(Handled, It, s)
      BY <2>4 DEF With, Put, Worlds
    <3>2. QED
      BY <1>2, <3>1 DEF RunClosed
  <2>6. /\ s \in Socket /\ s.op = "none" /\ s.kind = Handled.sockets[It].kind
        /\ s.listed = Handled.sockets[It].listed /\ s.pending = Handled.sockets[It].pending
        /\ s.isOpen = Handled.sockets[It].isOpen /\ s.layer = "down"
    BY <2>4 DEF Socket
  <2>. HIDE DEF s
  <2>7. Sound(s, Handled.queue, It, mode)
    BY <2>3, <2>4, <2>6, IdleSound
  <2>8. WInv(v, mode) /\ v.sockets[It] = s /\ Changes(Handled, v, It, {})
    BY <2>3, <2>4, <2>6, <2>7, PutSound
  <2>. HIDE DEF v
  <2>9. Changes(Handled, v, It, {"bad_descriptor"})
    BY <2>8, ChangesMore
  <2>10. QED
    BY <2>1, <2>2, <2>3, <2>4, <2>5, <2>6, <2>8, <2>9, KeepsAll, CompletionStep
<1>3. QED
  BY <1>1, <1>2

LEMMA DataStep == ASSUME IInv, RunData PROVE IInv' /\ RequestStep
<1>1. Handles("data") /\ Keeps /\ "data" \in Completions /\ "data" \in Deliveries
  BY DEF RunData, Completions, Deliveries
<1>2. queue # <<>> /\ WInv(World, mode) /\ WInv(Handled, mode) /\ Handled.sockets = sockets
  BY <1>1, HandledIs DEF IInv, Handles, Running
<1>3. /\ It \in 1..Len(Handled.sockets) /\ Handled.sockets[It].listed /\ Idle(Handled, It)
      /\ Handled.sockets[It].isOpen => Kept(Handled, It)
      /\ Handled.sockets[It] \in Socket /\ Handled \in Worlds
      /\ Handled.sockets[It].op = "none"
  BY <1>1, <1>2, CompletionIs DEF WInv
<1>4. PICK layer \in {"down", "physical", "connected", "open"} :
        Becomes(StartRead([Handled EXCEPT !.sockets[It].layer = layer,
                                          !.sockets[It].pending = "none"], It))
  <2>1. PICK layer \in {sockets[It].layer,
                        CASE sockets[It].pending = "associate" -> "open"
                          [] sockets[It].pending \in {"link", "release"} -> "connected"
                          [] OTHER -> sockets[It].layer} :
          Becomes(StartRead([Handled EXCEPT !.sockets[It].layer = layer,
                                            !.sockets[It].pending = "none"], It))
    BY DEF RunData
  <2>2. layer \in {"down", "physical", "connected", "open"}
    <3>1. sockets[It].layer \in {"down", "physical", "connected", "open"}
      BY <1>2, <1>3, SocketParts
    <3>2. QED
      BY <2>1, <3>1
  <2>3. QED
    BY <2>1, <2>2
<1>. DEFINE s == [Handled.sockets[It] EXCEPT !.layer = layer, !.pending = "none"]
            v == StartRead(Put(Handled, It, s), It)
<1>5. Becomes(v)
  <2>1. [Handled EXCEPT !.sockets[It].layer = layer, !.sockets[It].pending = "none"]
          = Put(Handled, It, s)
    BY <1>3 DEF Put, Worlds
  <2>2. QED
    BY <1>4, <2>1
<1>6. /\ s \in Socket /\ s.op = "none" /\ s.kind = Handled.sockets[It].kind
      /\ s.listed = Handled.sockets[It].listed /\ s.pending = "none"
      /\ s.isOpen = Handled.sockets[It].isOpen
  BY <1>3, <1>4 DEF Socket
<1>. HIDE DEF s
<1>7. /\ WInv(v, mode) /\ Changes(Handled, v, It, {"bad_descriptor"})
      /\ v.sockets[It].listed /\ v.sockets[It].pending = s.pending
      /\ v.sockets[It].op \in {"none", "reading"}
  <2>1. s.listed /\ (s.isOpen => Kept(Handled, It)) /\ s.pending \in {"none", Handled.sockets[It].pending}
    BY <1>3, <1>6
  <2>2. QED
    BY <1>2, <1>3, <1>6, <2>1, ReadOnSound
<1>. HIDE DEF v
<1>8. v.sockets[It].pending \in {"none", sockets[It].pending} /\ v.sockets[It].op # "connecting"
  BY <1>6, <1>7
<1>9. QED
  BY <1>1, <1>2, <1>5, <1>7, <1>8, KeepsAll, CompletionStep
-----------------------------------------------------------------------------
(* Ends.                                                                   *)

LEMMA EndsStep ==
  ASSUME IInv, NEW how \in {"exited", "thrown", "undefined"}, Ends(how), mode' = mode,
         input' \in {input, "closed"}, parted' \in {parted, TRUE},
         how = "undefined" => (mode = "client" => parted'),
         how = "thrown" => (mode = "client" => parted' \/ input' = "closed" \/ PeerIsToBlame)
  PROVE  IInv' /\ RequestStep
<1>1. /\ at' = how /\ queue' = queue /\ sockets' = sockets
      /\ m_pSocket' = m_pSocket /\ m_pSerialSocket' = m_pSerialSocket /\ m_pHDLC' = m_pHDLC
  BY DEF Ends, pointers
<1>2. how \notin MenuChoices /\ ~Prompting' /\ how \notin Lines
  BY <1>1 DEF Prompting, MenuChoices, Lines
<1>3. WInv(World, mode)'
  BY <1>1 DEF IInv, WInv, World, Sound
<1>4. Pointers'
  BY <1>1 DEF IInv, Pointers, Valid
<1>5. Engine'
  BY <1>1 DEF IInv, Engine, Dormant
<1>6. Prompt'
  BY <1>1, <1>2 DEF Prompt
<1>7. Untouched'
  BY <1>1 DEF IInv, Untouched, PeerIsToBlame
<1>8. Menu'
  BY <1>1, <1>2 DEF IInv, Menu, Makes
<1>9. RequestStep
  BY <1>1 DEF RequestStep
<1>10. mode' \in {"client", "server"} /\ input' \in {"idle", "reading", "closed"} /\ parted' \in BOOLEAN
  BY DEF IInv
<1>11. QED
  BY <1>3, <1>4, <1>5, <1>6, <1>7, <1>8, <1>9, <1>10 DEF IInv

(* A socket that is connected reads; one that was closed meanwhile throws, *)
(* which takes a user's disconnect.                                        *)
LEMMA ConnectedStep == ASSUME IInv, RunConnected PROVE IInv' /\ RequestStep
<1>1. /\ Handles("connected") /\ "connected" \in Completions /\ "connected" \in Attempts
      /\ mode' = mode /\ input' = input /\ parted' = parted
  BY DEF RunConnected, Completions, Attempts, menu
<1>2. /\ queue # <<>> /\ WInv(World, mode) /\ WInv(Handled, mode) /\ Handled.sockets = sockets
      /\ Waits(queue, It, "connected") /\ It \in 1..Len(sockets)
  <2>1. queue # <<>> /\ Next1.kind = "connected"
    BY <1>1 DEF Handles, Running
  <2>2. QED
    BY <1>1, <2>1, HandledIs, CompletionIs DEF IInv
<1>3. CASE sockets[It].isOpen
  <2>1. /\ It \in 1..Len(Handled.sockets) /\ Handled.sockets[It].listed /\ Idle(Handled, It)
        /\ Kept(Handled, It) /\ Handled.sockets[It] \in Socket /\ Handled \in Worlds
        /\ Handled.sockets[It].op = "none"
    BY <1>1, <1>2, <1>3, CompletionIs DEF WInv
  <2>. DEFINE s == [Handled.sockets[It] EXCEPT !.layer = "connected"]
              v == StartRead(Put(Handled, It, s), It)
  <2>2. Becomes(v) /\ UNCHANGED <<mode, at, input, m_pSocket, m_pSerialSocket, m_pHDLC, parted>>
    <3>1. With(Handled, It, "layer", "connected") = Put(Handled, It, s)
      BY <2>1 DEF With, Put, Worlds
    <3>2. Becomes(StartRead(With(Handled, It, "layer", "connected"), It)) /\ UNCHANGED <<at, pointers>>
      BY <1>3 DEF RunConnected
    <3>3. QED
      BY <1>1, <3>1, <3>2 DEF pointers
  <2>3. /\ s \in Socket /\ s.op = "none" /\ s.kind = Handled.sockets[It].kind
        /\ s.listed = Handled.sockets[It].listed /\ s.pending = Handled.sockets[It].pending
    BY <2>1 DEF Socket
  <2>. HIDE DEF s
  <2>4. /\ WInv(v, mode) /\ Changes(Handled, v, It, {"bad_descriptor"})
        /\ v.sockets[It].listed /\ v.sockets[It].pending = s.pending
        /\ v.sockets[It].op \in {"none", "reading"}
    BY <1>2, <2>1, <2>3, ReadOnSound
  <2>. HIDE DEF v
  <2>5. QED
    BY <1>1, <1>2, <2>2, <2>3, <2>4, CompletionStep
<1>4. CASE ~sockets[It].isOpen
  <2>1. Ends("thrown")
    BY <1>4 DEF RunConnected
  <2>2. mode = "client" => parted
    BY <1>2, <1>4 DEF IInv, Untouched
  <2>3. QED
    BY <1>1, <2>1, <2>2, EndsStep
<1>5. QED
  BY <1>3, <1>4

(* A connection that somebody broke off: of a client, its peer.            *)
LEMMA BrokenStep == ASSUME IInv, RunBroken PROVE IInv' /\ RequestStep
<1>1. Ends("thrown") /\ mode' = mode /\ input' = input /\ parted' = parted
  BY DEF RunBroken, menu
<1>2. CASE Handles("broken")
  <2>1. "broken" \in Completions
    BY DEF Completions, Deliveries
  <2>2. mode = "server"
    BY <1>2, <2>1, CompletionIs DEF IInv
  <2>3. QED
    BY <1>1, <2>2, EndsStep
<1>3. CASE Handles("reset")
  <2>1. PeerIsToBlame
    BY <1>3 DEF Handles, Running, Next1, PeerIsToBlame
  <2>2. QED
    BY <1>1, <2>1, EndsStep
<1>4. QED
  BY <1>2, <1>3 DEF RunBroken

LEMMA MistypedStep == ASSUME IInv, RunMistyped PROVE IInv' /\ RequestStep
<1>1. Ends("thrown") /\ mode' = mode /\ input' = input /\ parted' = parted
  BY DEF RunMistyped, menu
<1>2. PeerIsToBlame
  BY DEF RunMistyped, Handles, Running, Next1, PeerIsToBlame
<1>3. QED
  BY <1>1, <1>2, EndsStep

(* A socket that is destroyed was released by the user.                    *)
LEMMA StaleStep == ASSUME IInv, RunStale PROVE IInv' /\ RequestStep
<1>1. /\ Running /\ It # 0 /\ ~sockets[It].listed
      /\ mode' = mode /\ input' = input /\ parted' = parted
  BY DEF RunStale, menu
<1>2. CASE Ends("undefined")
  <2>1. It \in 1..Len(sockets)
    BY <1>1, HandledIs, WorldIs DEF IInv, Running
  <2>2. mode = "client" => parted
    BY <1>1, <2>1 DEF IInv, Untouched
  <2>3. QED
    BY <1>1, <1>2, <2>2, EndsStep
<1>3. CASE Becomes(Handled) /\ UNCHANGED <<at, pointers>>
  <2>1. UNCHANGED <<mode, at, input, m_pSocket, m_pSerialSocket, m_pHDLC, parted>>
    BY <1>1, <1>3 DEF pointers
  <2>2. QED
    BY <1>1, <1>3, <2>1, PopStep DEF Running
<1>4. QED
  BY <1>2, <1>3 DEF RunStale

LEMMA OverStep == ASSUME IInv, RunExit \/ RunReturns \/ EndsPrompt PROVE IInv' /\ RequestStep
<1>1. CASE RunExit
  <2>1. Ends("exited") /\ mode' = mode /\ input' = input /\ parted' = parted
    BY <1>1 DEF RunExit, menu
  <2>2. QED
    BY <2>1, EndsStep
<1>2. CASE RunReturns
  <2>1. Ends("exited")
    BY <1>2 DEF RunReturns, Ends
  <2>2. mode' = mode /\ input' = input /\ parted' = parted
    BY <1>2 DEF RunReturns, menu
  <2>3. QED
    BY <2>1, <2>2, EndsStep
<1>3. CASE EndsPrompt
  <2>1. Ends("thrown")
    BY <1>3 DEF EndsPrompt, Ends
  <2>2. mode' = mode /\ input' = "closed" /\ parted' = parted
    BY <1>3 DEF EndsPrompt
  <2>3. QED
    BY <2>1, <2>2, EndsStep
<1>4. QED
  BY <1>1, <1>2, <1>3
-----------------------------------------------------------------------------
(* Removal.                                                                *)

(* A socket is destroyed; what it still waits for is aborted.              *)
LEMMA DestroySound ==
  ASSUME NEW w, WInv(w, "client"), NEW k \in 1..Len(w.sockets),
         w.sockets[k].op \notin {"reading", "accepting"},
         \A a \in Removals \cup Deliveries : ~Waits(w.queue, k, a),
         NEW v, v = With(With(CloseSocket(w, k), k, "listed", FALSE), k, "op", "none")
  PROVE  /\ WInv(v, "client") /\ Changes(w, v, k, {"connect_aborted"})
         /\ ~v.sockets[k].listed /\ v.sockets[k].op = "none"
         /\ v.sockets[k].layer = w.sockets[k].layer /\ v.sockets[k].pending = w.sockets[k].pending
         /\ w.sockets[k].op = "none" => Changes(w, v, k, {})
<1>. DEFINE c == CloseSocket(w, k)
<1>1. /\ WInv(c, "client") /\ SameUse(w, c, k) /\ ~c.sockets[k].isOpen
      /\ Changes(w, c, k, CASE w.sockets[k].op = "reading" -> {"read_aborted"}
                            [] w.sockets[k].op = "connecting" -> {"connect_aborted"}
                            [] OTHER -> {})
  BY CloseSocketSound
<1>. HIDE DEF c
<1>2. Changes(w, c, k, {"connect_aborted"}) /\ (w.sockets[k].op = "none" => Changes(w, c, k, {}))
  <2>1. CASE w.sockets[k].op = "connecting"
    BY <1>1, <2>1
  <2>2. CASE w.sockets[k].op \notin {"connecting", "reading"}
    BY <1>1, <2>2, ChangesMore
  <2>3. QED
    BY <2>1, <2>2
<1>3. k \in 1..Len(c.sockets) /\ c \in Worlds /\ c.sockets[k] \in Socket
  BY <1>1, <1>2, WorldParts DEF Changes, WInv
<1>. DEFINE s == [c.sockets[k] EXCEPT !.listed = FALSE, !.op = "none"]
<1>4. v = Put(c, k, s)
  BY <1>3 DEF With, Put, Worlds, c
<1>5. /\ s \in Socket /\ s.op = "none" /\ s.kind = c.sockets[k].kind
      /\ s.listed = FALSE /\ s.isOpen = c.sockets[k].isOpen
      /\ s.pending = c.sockets[k].pending /\ s.layer = c.sockets[k].layer
  BY <1>3 DEF Socket
<1>. HIDE DEF s
<1>6. Sound(s, c.queue, k, "client")
  <2>1. Sound(c.sockets[k], c.queue, k, "client")
    BY <1>1, <1>3 DEF WInv
  <2>2. \A a \in Removals \cup Deliveries : ~Waits(c.queue, k, a)
    BY <1>2 DEF Changes, Removals, Deliveries
  <2>3. OneOperation(s, c.queue, k)
    BY <1>5, <2>1 DEF Sound, OneOperation
  <2>4. OneRemoval(s, c.queue, k)
    BY <1>5, <2>1 DEF Sound, OneRemoval
  <2>5. AttemptsAreTcp(s, c.queue, k)
    BY <1>5, <2>1 DEF Sound, AttemptsAreTcp
  <2>6. Gone(s, c.queue, k)
    BY <1>1, <1>5, <2>2 DEF Gone
  <2>7. Sides(s, c.queue, k, "client")
    BY <1>5, <2>1 DEF Sound, Sides
  <2>8. QED
    BY <2>3, <2>4, <2>5, <2>6, <2>7 DEF Sound
<1>7. /\ WInv(Put(c, k, s), "client") /\ Put(c, k, s).sockets[k] = s
      /\ Changes(c, Put(c, k, s), k, {})
  BY <1>1, <1>3, <1>5, <1>6, PutSound
<1>8. \A A : Changes(w, c, k, A) => Changes(w, v, k, A)
  BY <1>4, <1>7 DEF Changes
<1>9. QED
  BY <1>1, <1>2, <1>4, <1>5, <1>7, <1>8 DEF SameUse

(* Neither pointer points to the socket that is destroyed.                 *)
LEMMA RemoveStep == ASSUME IInv, RunRemove PROVE IInv' /\ RequestStep
<1>1. PICK a \in Removals : Handles(a)
  BY DEF RunRemove, Removals
<1>2. /\ queue # <<>> /\ at = "queue" /\ Next1.kind = a /\ (It # 0 => sockets[It].listed)
      /\ UNCHANGED <<mode, at, input, m_pSocket, m_pSerialSocket, m_pHDLC, parted>>
  BY <1>1, KeepsAll DEF RunRemove, Handles, Running, It
<1>3. CASE ~((sockets[It].kind = "tcp") = (a = "remove_tcp"))
  <2>1. Becomes(Handled)
    BY <1>2, <1>3 DEF RunRemove
  <2>2. QED
    BY <1>2, <2>1, PopStep
<1>4. CASE (sockets[It].kind = "tcp") = (a = "remove_tcp")
  <2>. DEFINE v == With(With(CloseSocket(Handled, It), It, "listed", FALSE), It, "op", "none")
  <2>1. Becomes(v)
    BY <1>2, <1>4 DEF RunRemove
  <2>2. /\ WInv(World, mode) /\ WInv(Handled, mode) /\ Handled.sockets = sockets
        /\ Changes(World, Handled, It, {})
        /\ It \in 0..Len(sockets) /\ Next1 \in Handlers /\ Waits(queue, It, a)
        /\ \A b : Waits(Handled.queue, It, b) => Before(queue, It, a, b)
    BY <1>2, HandledIs DEF IInv
  <2>3. It \in 1..Len(sockets) /\ It \in Nat \ {0} /\ DOMAIN sockets = 1..Len(sockets) /\ Len(sockets) \in Nat
    BY <1>2, <2>2, KindOfSocket, WorldIs DEF It
  <2>4. Sound(sockets[It], queue, It, mode)
    BY <2>2, <2>3, WorldIs
  <2>5. mode = "client" /\ parted
    <3>1. mode = "client"
      BY <2>2, <2>4 DEF Sound, Sides
    <3>2. QED
      BY <2>2, <2>3, <3>1 DEF IInv, Untouched
  <2>6. sockets[It].op \notin {"reading", "accepting"}
    BY <2>2, <2>4 DEF Sound, OneRemoval
  <2>7. \A b \in Removals \cup Deliveries : ~Waits(Handled.queue, It, b)
    BY <2>2, <2>4 DEF Sound, OneRemoval
  <2>8. /\ WInv(v, mode) /\ Changes(Handled, v, It, {"connect_aborted"})
        /\ v.sockets[It].layer = sockets[It].layer /\ v.sockets[It].pending = sockets[It].pending
        /\ v.sockets[It].op = "none"
        /\ sockets[It].op = "none" => Changes(Handled, v, It, {})
    BY <2>2, <2>3, <2>5, <2>6, <2>7, DestroySound
  <2>. HIDE DEF v
  <2>9. WInv(World, mode)' /\ sockets' = v.sockets /\ queue' = v.queue
    BY <1>2, <2>1, <2>8, BecomesSound
  <2>10. /\ Len(sockets') = Len(sockets)
         /\ \A j \in 1..Len(sockets) : j # It => sockets'[j] = sockets[j]
         /\ sockets'[It].kind = sockets[It].kind
         /\ \A b : Waits(queue', It, b) => Waits(queue, It, b) \/ b = "connect_aborted"
         /\ sockets[It].op = "none" => \A b : Waits(queue', It, b) => Waits(queue, It, b)
         /\ \A j \in Nat : j # It =>
              /\ \A b : Waits(queue', j, b) => Waits(queue, j, b)
              /\ \A b, c : Before(queue', j, b, c) => Before(queue, j, b, c)
    BY <2>2, <2>8, <2>9 DEF Changes, World
  <2>11. m_pSocket # It /\ m_pSerialSocket # It
    <3>1. a = IF sockets[It].kind = "tcp" THEN "remove_tcp" ELSE "remove_serial"
      BY <1>4 DEF Removals
    <3>2. QED
      BY <2>2, <2>3, <3>1 DEF IInv, Pointers, Valid
  <2>12. Pointers'
    <3>1. \A p \in Nat : p # It /\ Valid(p) => Valid(p)'
      BY <2>3, <2>10 DEF Valid
    <3>2. /\ m_pSocket \in Nat /\ m_pSerialSocket \in Nat
      BY DEF IInv, Pointers, Valid
    <3>3. Valid(m_pSocket)' /\ Valid(m_pSerialSocket)'
      BY <1>2, <2>11, <3>1, <3>2 DEF IInv, Pointers, Valid
    <3>4. m_pSerialSocket # 0 => sockets'[m_pSerialSocket].kind # "tcp"
      BY <2>10, <2>11 DEF IInv, Pointers, Valid
    <3>5. QED
      BY <1>2, <2>10, <3>3, <3>4 DEF IInv, Pointers
  <2>13. Engine'
    <3>1. m_pSocket # 0 /\ m_pSocket # Len(sockets) => Dormant(Len(sockets))
      BY DEF IInv, Engine
    <3>2. Dormant(Len(sockets)) => Dormant(Len(sockets))'
      <4>1. CASE It = Len(sockets)
        BY <2>8, <2>9, <2>10, <4>1 DEF Dormant
      <4>2. CASE It # Len(sockets)
        BY <2>3, <2>10, <4>2 DEF Dormant
      <4>3. QED
        BY <4>1, <4>2
    <3>3. QED
      BY <1>2, <2>10, <3>1, <3>2 DEF Engine
  <2>14. Prompt'
    BY <1>2 DEF Prompt, Prompting, MenuChoices
  <2>15. Untouched'
    BY <1>2, <2>5 DEF Untouched
  <2>16. Menu'
    BY <1>2, <2>3, <2>10 DEF IInv, Menu, Prompting, MenuChoices, Makes
  <2>17. RequestStep
    BY <2>3, <2>8, <2>9, <2>10 DEF RequestStep
  <2>18. QED
    BY <1>2, <2>9, <2>12, <2>13, <2>14, <2>15, <2>16, <2>17 DEF IInv
<1>5. QED
  BY <1>3, <1>4
-----------------------------------------------------------------------------
(* The end of an HDLC connection.                                          *)

(* The menu's own handlers, and the number of sockets, stay as they were.  *)
SameMenu(w, v) ==
  /\ Len(v.sockets) = Len(w.sockets)
  /\ \A a : Waits(v.queue, 0, a) => Waits(w.queue, 0, a)
  /\ \A a, b : Before(v.queue, 0, a, b) => Before(w.queue, 0, a, b)

LEMMA ChangesNoMenu ==
  ASSUME NEW w, NEW v, NEW k, k # 0, NEW A, Changes(w, v, k, A)
  PROVE  SameMenu(w, v)
BY DEF Changes, SameMenu

LEMMA SameMenuTwice ==
  ASSUME NEW w, NEW v, NEW u, SameMenu(w, v), SameMenu(v, u)
  PROVE  SameMenu(w, u)
BY DEF SameMenu

(* The serial socket that is released is open, so it was not released      *)
(* before; it need not be the one that confirmed.                          *)
LEMMA DisconnectConfirmStep == ASSUME IInv, RunDisconnectConfirm PROVE IInv' /\ RequestStep
<1>. DEFINE p == m_pSerialSocket
<1>1. /\ Handles("data") /\ "data" \in Completions /\ "data" \in Deliveries
      /\ sockets[It].pending = "unlink" /\ at = "queue" /\ queue # <<>>
      /\ mode' = mode /\ input' = input /\ parted' = parted
  BY DEF RunDisconnectConfirm, Completions, Deliveries, menu, Handles, Running
<1>2. /\ WInv(World, mode) /\ WInv(Handled, mode) /\ Handled.sockets = sockets
      /\ Changes(World, Handled, It, {})
  BY <1>1, HandledIs DEF IInv
<1>3. /\ It \in 1..Len(Handled.sockets) /\ Handled.sockets[It].listed /\ Idle(Handled, It)
      /\ Handled.sockets[It].isOpen => Kept(Handled, It)
      /\ Handled.sockets[It] \in Socket /\ Handled \in Worlds
      /\ Handled.sockets[It].op = "none"
  BY <1>1, <1>2, CompletionIs DEF WInv
<1>4. /\ It \in 1..Len(sockets) /\ It \in Nat \ {0} /\ Len(sockets) \in Nat
      /\ DOMAIN sockets = 1..Len(sockets)
  BY <1>2, <1>3, WorldIs
<1>5. mode = "client" /\ parted
  <2>1. Sound(sockets[It], queue, It, mode)
    BY <1>2, <1>4, WorldIs
  <2>2. mode = "client"
    BY <1>1, <2>1 DEF Sound, Sides
  <2>3. QED
    BY <1>1, <1>4, <2>2 DEF IInv, Untouched
<1>6. CASE Ends("undefined") \/ Ends("thrown")
  BY <1>1, <1>5, <1>6, EndsStep
<1>7. CASE p # 0 /\ sockets[p].isOpen
  <2>1. /\ p \in 1..Len(sockets) /\ sockets[p].listed /\ sockets[p].kind # "tcp"
        /\ p \in Nat \ {0}
    BY <1>4, <1>7 DEF IInv, Pointers, Valid
  <2>2. Kept(Handled, p)
    <3>1. Sound(sockets[p], queue, p, mode)
      BY <1>2, <2>1, WorldIs
    <3>2. \A a : Waits(Handled.queue, p, a) => Waits(queue, p, a)
      BY <1>1, <1>2, <2>1, HandledIs DEF Changes, World
    <3>3. QED
      BY <1>7, <2>1, <3>1, <3>2 DEF Sound, Gone, Kept
  <2>. DEFINE s == [Handled.sockets[It] EXCEPT !.layer = "down", !.pending = "none"]
              u == Put(Handled, It, s)
              v == ReleaseSerial(u, p)
              r == StartRead(v, It)
  <2>3. Becomes(r) /\ m_pSerialSocket' = 0 /\ m_pSocket' = 0 /\ at' = at /\ m_pHDLC' = m_pHDLC
    <3>1. [Handled EXCEPT !.sockets[It].layer = "down", !.sockets[It].pending = "none"] = u
      BY <1>3 DEF Put, Worlds
    <3>2. QED
      BY <1>7, <3>1 DEF RunDisconnectConfirm
  <2>4. /\ s \in Socket /\ s.op = "none" /\ s.kind = Handled.sockets[It].kind
        /\ s.listed = Handled.sockets[It].listed /\ s.pending = "none"
        /\ s.isOpen = Handled.sockets[It].isOpen
    BY <1>3 DEF Socket
  <2>. HIDE DEF s
  <2>5. /\ WInv(u, mode) /\ u.sockets[It] = s /\ u.queue = Handled.queue
        /\ Changes(Handled, u, It, {})
    <3>1. Sound(s, Handled.queue, It, mode)
      BY <1>2, <1>3, <2>4, IdleSound
    <3>2. QED
      BY <1>2, <1>3, <2>4, <3>1, PutSound
  <2>. HIDE DEF u
  <2>6. /\ p \in 1..Len(u.sockets) /\ u.sockets[p].listed /\ u.sockets[p].kind # "tcp"
        /\ Kept(u, p) /\ Len(u.sockets) = Len(sockets)
        /\ Idle(u, It) /\ u.sockets[It].listed /\ (u.sockets[It].isOpen => Kept(u, It))
    BY <1>2, <1>3, <2>1, <2>2, <2>4, <2>5 DEF Changes, Kept, Idle
  <2>7. /\ WInv(v, "client") /\ v.sockets[p].listed /\ ~v.sockets[p].isOpen
        /\ v.sockets[p].pending = u.sockets[p].pending
        /\ Changes(u, v, p, {"read_aborted", "connect_aborted", "remove_serial"})
        /\ u.sockets[p].op = "none" => v.sockets[p].op = "none" /\ Changes(u, v, p, {"remove_serial"})
    <3>1. "remove_serial" \in Removals
      BY DEF Removals
    <3>2. v = Post(CloseSerial(u, p), "remove_serial", p) /\ WInv(u, "client")
      BY <1>5, <2>5 DEF ReleaseSerial
    <3>. HIDE DEF v
    <3>3. QED
      BY <2>6, <3>1, <3>2, ReleaseSound
  <2>. HIDE DEF v
  <2>8. /\ It \in 1..Len(v.sockets) /\ v.sockets[It].listed /\ Idle(v, It)
        /\ v.sockets[It].isOpen => Kept(v, It)
        /\ v.sockets[It].pending = "none"
    <3>1. CASE It = p
      <4>1. u.sockets[p].op = "none"
        BY <2>4, <2>5, <3>1
      <4>2. "remove_serial" \notin Completions
        BY DEF Completions, Attempts, Deliveries
      <4>3. QED
        BY <2>1, <2>4, <2>5, <2>6, <2>7, <3>1, <4>1, <4>2 DEF Idle, Changes
    <3>2. CASE It # p
      BY <1>4, <2>4, <2>5, <2>6, <2>7, <3>2 DEF Idle, Kept, Changes
    <3>3. QED
      BY <3>1, <3>2
  <2>9. WInv(r, mode) /\ SameUse(v, r, It) /\ Changes(v, r, It, {"bad_descriptor"})
    BY <1>5, <2>7, <2>8, StartReadSound
  <2>. HIDE DEF r
  <2>10. WInv(World, mode)' /\ sockets' = r.sockets /\ queue' = r.queue
    BY <1>1, <2>3, <2>9, BecomesSound
  <2>11. SameMenu(World, r)
    <3>1. SameMenu(World, Handled) /\ SameMenu(Handled, u) /\ SameMenu(u, v) /\ SameMenu(v, r)
      BY <1>2, <1>4, <2>1, <2>5, <2>7, <2>9, ChangesNoMenu
    <3>2. QED
      BY <3>1, SameMenuTwice
  <2>12. \A k \in 1..Len(sockets) : sockets'[k].pending \in {"none", sockets[k].pending}
    <3>. SUFFICES ASSUME NEW k \in 1..Len(sockets)
                  PROVE  r.sockets[k].pending \in {"none", sockets[k].pending}
      BY <2>10
    <3>1. CASE k = It
      BY <2>8, <2>9, <3>1 DEF SameUse
    <3>2. CASE k # It /\ k = p
      BY <1>2, <1>4, <2>5, <2>6, <2>7, <2>9, <3>2 DEF Changes
    <3>3. CASE k # It /\ k # p
      BY <1>2, <1>4, <2>5, <2>6, <2>7, <2>9, <3>3 DEF Changes
    <3>4. QED
      BY <3>1, <3>2, <3>3
  <2>13. /\ Len(sockets') = Len(sockets)
         /\ \A a : Waits(queue', 0, a) => Waits(queue, 0, a)
         /\ \A a, b : Before(queue', 0, a, b) => Before(queue, 0, a, b)
    BY <2>10, <2>11 DEF SameMenu, World
  <2>14. Pointers' /\ Engine'
    BY <1>1, <1>5, <2>3, <2>13 DEF IInv, Pointers, Valid, Engine
  <2>15. Prompt'
    BY <1>1, <2>3 DEF Prompt, Prompting, MenuChoices
  <2>16. Untouched'
    BY <1>1, <1>5 DEF Untouched
  <2>17. Menu'
    BY <1>1, <2>3, <2>13 DEF IInv, Menu, Prompting, MenuChoices, Makes
  <2>18. RequestStep
    BY <1>4, <2>12 DEF RequestStep
  <2>19. QED
    BY <1>1, <2>10, <2>14, <2>15, <2>16, <2>17, <2>18 DEF IInv
<1>8. QED
  BY <1>6, <1>7 DEF RunDisconnectConfirm
-----------------------------------------------------------------------------
(* The network and the peers.                                              *)

(* An operation that socket k waits for ends.                              *)
LEMMA CompletesStep ==
  ASSUME IInv, NEW k \in 1..Len(sockets), NEW s \in Socket,
         s.op = "none", s.kind = sockets[k].kind, s.isOpen = sockets[k].isOpen,
         s.listed = sockets[k].listed, s.layer = sockets[k].layer, s.pending = sockets[k].pending,
         NEW kind \in Attempts \cup Deliveries, Becomes(Post(Put(World, k, s), kind, k)),
         kind \in Attempts => sockets[k].op \in {"resolving", "connecting"},
         kind \in Deliveries => sockets[k].op \in {"accepting", "reading"},
         kind \in {"accepted", "broken"} => sockets[k].op = "accepting",
         kind = "connected" => sockets[k].op = "connecting",
         Alive, UNCHANGED <<at, menu, pointers, parted>>
  PROVE  IInv' /\ RequestStep
<1>1. /\ WInv(World, mode) /\ World.sockets = sockets /\ World.queue = queue /\ k \in Nat
      /\ Sound(sockets[k], queue, k, mode)
  BY WorldIs DEF IInv
<1>2. /\ kind \in Completions
      /\ kind \in Deliveries => kind \notin Attempts
      /\ {"accepted", "broken"} \subseteq Deliveries
  BY DEF Completions, Attempts, Deliveries
<1>3. sockets[k].op # "none"
  BY <1>2
<1>. DEFINE w == Put(World, k, s)
            v == Post(w, kind, k)
<1>4. WInv(w, mode) /\ w.sockets[k] = s /\ w.queue = queue /\ Changes(World, w, k, {})
  <2>1. Sound(s, queue, k, mode)
    BY <1>1, LowerSound
  <2>2. QED
    BY <1>1, <2>1, PutSound
<1>. HIDE DEF w
<1>5. k \in 1..Len(w.sockets) /\ Idle(w, k)
  BY <1>1, <1>3, <1>4 DEF Changes, Idle, Sound, OneOperation
<1>6. kind \in Deliveries => w.sockets[k].listed /\ Kept(w, k)
  BY <1>1, <1>4 DEF Kept, Sound, Gone, OneRemoval
<1>7. kind \in Attempts => w.sockets[k].kind = "tcp" /\ w.sockets[k].layer = "down"
  BY <1>1, <1>4 DEF Sound, AttemptsAreTcp
<1>8. kind \in {"accepted", "broken"} => mode = "server"
  BY <1>1 DEF Sound, Sides
<1>9. WInv(v, mode) /\ v.sockets = w.sockets /\ Changes(w, v, k, {kind})
  BY <1>2, <1>4, <1>5, <1>6, <1>7, <1>8, CompletionSound
<1>10. Becomes(v)
  BY DEF w
<1>. HIDE DEF v
<1>11. Changes(World, v, k, {kind})
  BY <1>4, <1>9 DEF Changes
<1>12. Changes(World, v, k, Completions)
  BY <1>2, <1>11, ChangesMore
<1>13. UNCHANGED <<mode, at, input, m_pSocket, m_pSerialSocket, m_pHDLC, parted>>
  BY DEF menu, pointers
<1>14. mode = "client" /\ ~parted =>
         (v.sockets[k].op = "connecting" \/ Waits(v.queue, k, "connected") => v.sockets[k].isOpen)
  <2>1. Waits(v.queue, k, "connected") => Waits(queue, k, "connected") \/ sockets[k].op = "connecting"
    BY <1>1, <1>11 DEF Changes
  <2>2. v.sockets[k] = s
    BY <1>4, <1>9
  <2>3. QED
    BY <2>1, <2>2 DEF IInv, Untouched
<1>15. ~Dormant(k) /\ at # "thrown"
  BY <1>3 DEF Dormant, Alive, Prompting, MenuChoices
<1>16. QED
  BY <1>4, <1>9, <1>10, <1>12, <1>13, <1>14, <1>15, SocketStep

LEMMA CompletesIs ==
  ASSUME WInv(World, mode), NEW k \in 1..Len(sockets), NEW kind, Completes(k, kind)
  PROVE  \E s \in Socket :
           /\ s.op = "none" /\ s.kind = sockets[k].kind /\ s.isOpen = sockets[k].isOpen
           /\ s.listed = sockets[k].listed /\ s.layer = sockets[k].layer /\ s.pending = sockets[k].pending
           /\ Becomes(Post(Put(World, k, s), kind, k))
<1>1. World \in Worlds /\ World.sockets = sockets /\ sockets[k] \in Socket
  BY WorldIs
<1>. DEFINE s == [sockets[k] EXCEPT !.op = "none"]
<1>2. Becomes(Post(Put(World, k, s), kind, k))
  <2>1. With(World, k, "op", "none") = Put(World, k, s)
    BY <1>1 DEF With, Put, Worlds
  <2>2. QED
    BY <2>1 DEF Completes
<1>3. /\ s \in Socket /\ s.op = "none" /\ s.kind = sockets[k].kind /\ s.isOpen = sockets[k].isOpen
      /\ s.listed = sockets[k].listed /\ s.layer = sockets[k].layer /\ s.pending = sockets[k].pending
  BY <1>1 DEF Socket
<1>. HIDE DEF s
<1>4. QED
  BY <1>2, <1>3

LEMMA NetworkStep == ASSUME IInv, Network \/ Peers PROVE IInv' /\ RequestStep
<1>1. WInv(World, mode) /\ DOMAIN sockets = 1..Len(sockets)
  BY WorldIs DEF IInv
<1>2. PICK k \in 1..Len(sockets) :
        Resolve(k) \/ Connects(k) \/ Arrives(k) \/ ArrivesBroken(k) \/ Talks(k) \/ Closes(k)
  BY <1>1 DEF Network, Peers
<1>3. Alive /\ UNCHANGED <<at, menu, pointers, parted>>
  BY <1>2 DEF Resolve, Connects, Arrives, ArrivesBroken, Talks, Closes, Network, Peers
<1>4. ASSUME NEW kind \in {"resolved", "accepted", "broken", "data", "mistyped", "eof"}, Completes(k, kind),
             kind = "resolved" => sockets[k].op = "resolving",
             kind \in {"accepted", "broken"} => sockets[k].op = "accepting",
             kind \in {"data", "mistyped", "eof"} => sockets[k].op = "reading"
      PROVE  IInv' /\ RequestStep
  <2>1. PICK s \in Socket :
           /\ s.op = "none" /\ s.kind = sockets[k].kind /\ s.isOpen = sockets[k].isOpen
           /\ s.listed = sockets[k].listed /\ s.layer = sockets[k].layer /\ s.pending = sockets[k].pending
           /\ Becomes(Post(Put(World, k, s), kind, k))
    BY <1>1, <1>4, CompletesIs
  <2>2. /\ kind \in Attempts \cup Deliveries
        /\ kind \in Attempts => sockets[k].op \in {"resolving", "connecting"}
        /\ kind \in Deliveries => sockets[k].op \in {"accepting", "reading"}
        /\ kind # "connected"
    BY <1>4 DEF Attempts, Deliveries
  <2>3. QED
    BY <1>3, <1>4, <2>1, <2>2, CompletesStep
<1>5. CASE Connects(k)
  <2>1. World \in Worlds /\ World.sockets = sockets /\ sockets[k] \in Socket /\ sockets[k].op = "connecting"
    BY <1>1, <1>5, WorldIs DEF Connects
  <2>. DEFINE s == [sockets[k] EXCEPT !.op = "none", !.to = "none"]
  <2>2. PICK kind \in {"connected", "reset", "refused"} : Becomes(Post(Put(World, k, s), kind, k))
    <3>1. [World EXCEPT !.sockets[k].op = "none", !.sockets[k].to = "none"] = Put(World, k, s)
      BY <2>1 DEF Put, Worlds
    <3>2. QED
      BY <1>5, <3>1 DEF Connects
  <2>3. /\ s \in Socket /\ s.op = "none" /\ s.kind = sockets[k].kind /\ s.isOpen = sockets[k].isOpen
        /\ s.listed = sockets[k].listed /\ s.layer = sockets[k].layer /\ s.pending = sockets[k].pending
    BY <2>1 DEF Socket
  <2>4. kind \in Attempts /\ kind \notin Deliveries
    BY DEF Attempts, Deliveries
  <2>. HIDE DEF s
  <2>5. {"accepted", "broken"} \subseteq Deliveries
    BY DEF Deliveries
  <2>6. QED
    BY <1>3, <2>1, <2>2, <2>3, <2>4, <2>5, CompletesStep
<1>6. CASE Resolve(k)
  BY <1>4, <1>6 DEF Resolve
<1>7. CASE Arrives(k)
  BY <1>4, <1>7 DEF Arrives
<1>8. CASE ArrivesBroken(k)
  BY <1>4, <1>8 DEF ArrivesBroken
<1>9. CASE Talks(k)
  BY <1>4, <1>9 DEF Talks
<1>10. CASE Closes(k)
  BY <1>4, <1>10 DEF Closes
<1>11. QED
  BY <1>2, <1>5, <1>6, <1>7, <1>8, <1>9, <1>10
-----------------------------------------------------------------------------
(* The menu.                                                               *)

(* No handler of the menu is in the queue of w.                            *)
NoMenu(w) == \A a \in {"menu"} \cup Lines : ~Waits(w.queue, 0, a)

LEMMA LineSound ==
  ASSUME NEW m, NEW w, WInv(w, m), NEW a \in {"menu"} \cup Lines
  PROVE  /\ WInv(Post(w, a, 0), m) /\ Post(w, a, 0).sockets = w.sockets
         /\ More(w.queue, Post(w, a, 0).queue, 0, a)
<1>. DEFINE v == Post(w, a, 0)
<1>1. w \in Worlds /\ Handler(a, 0) \in Handlers /\ Len(w.sockets) \in Nat
  BY WorldParts DEF WInv, Handler, Handlers
<1>2. /\ v \in Worlds /\ v.sockets = w.sockets
      /\ v.queue = Append(w.queue, Handler(a, 0)) /\ More(w.queue, v.queue, 0, a)
  BY <1>1, PostIs
<1>3. \A i \in 1..Len(v.queue) : v.queue[i].of <= Len(v.sockets)
  <2>1. w.queue \in Seq(Handlers)
    BY <1>1, WorldParts
  <2>2. /\ Len(w.queue) \in Nat /\ Len(v.queue) = Len(w.queue) + 1
        /\ \A i \in 1..Len(w.queue) : v.queue[i] = w.queue[i]
        /\ v.queue[Len(w.queue) + 1].of = 0
    BY <1>1, <1>2, <2>1, AppendProperties, LenProperties DEF Handler
  <2>. HIDE DEF v
  <2>3. \A i \in 1..Len(w.queue) : w.queue[i].of <= Len(w.sockets)
    BY DEF WInv
  <2>4. ASSUME NEW i \in 1..Len(v.queue) PROVE v.queue[i].of <= Len(v.sockets)
    <3>1. i \in 1..Len(w.queue) \/ i = Len(w.queue) + 1
      BY <2>2
    <3>2. QED
      BY <1>1, <1>2, <2>2, <2>3, <3>1
  <2>5. QED
    BY <2>4
<1>. HIDE DEF v
<1>4. ASSUME NEW k \in 1..Len(w.sockets) PROVE Sound(v.sockets[k], v.queue, k, m)
  <2>1. Sound(w.sockets[k], w.queue, k, m)
    BY DEF WInv
  <2>2. /\ \A b : Waits(v.queue, k, b) => Waits(w.queue, k, b)
        /\ \A b, c : Before(v.queue, k, b, c) => Before(w.queue, k, b, c)
    BY <1>1, <1>2 DEF More
  <2>3. Sound(w.sockets[k], v.queue, k, m)
    BY <2>1, <2>2 DEF Sound, OneOperation, OneRemoval, AttemptsAreTcp, Gone, Sides
  <2>4. QED
    BY <1>2, <2>3
<1>5. QED
  BY <1>2, <1>3, <1>4 DEF WInv, v

(* A choice runs when no other handler of the menu is there.               *)
LEMMA ChosenIs ==
  ASSUME IInv, NEW c \in {"menu"} \cup Lines, Handles(c)
  PROVE  /\ WInv(Handled, mode) /\ Handled.sockets = sockets /\ NoMenu(Handled)
         /\ It = 0 /\ at = "queue" /\ queue # <<>> /\ input # "reading"
         /\ Waits(queue, 0, c)
         /\ \A k \in 1..Len(sockets) : \A a : Waits(Handled.queue, k, a) => Waits(queue, k, a)
         /\ \A a : Waits(Handled.queue, 0, a) => Waits(queue, 0, a)
<1>1. at = "queue" /\ queue # <<>> /\ Next1.kind = c
  BY DEF Handles, Running
<1>2. /\ WInv(Handled, mode) /\ Handled.sockets = sockets /\ Next1 \in Handlers
      /\ \A k : Changes(World, Handled, k, {})
      /\ Waits(queue, It, c)
      /\ \A a : Waits(Handled.queue, It, a) => Before(queue, It, c, a)
  BY <1>1, HandledIs DEF IInv
<1>3. It = 0
  BY <1>1, <1>2, KindOfSocket DEF It
<1>4. \A k, a : Waits(Handled.queue, k, a) => Waits(queue, k, a)
  BY <1>2 DEF Changes, World
<1>5. NoMenu(Handled)
  BY <1>2, <1>3 DEF NoMenu, IInv, Menu
<1>6. input # "reading"
  BY <1>2, <1>3 DEF IInv, Menu
<1>7. QED
  BY <1>1, <1>2, <1>3, <1>4, <1>5, <1>6

(* So does the branch of a choice that has prompted.                       *)
LEMMA PromptingIs ==
  ASSUME IInv, Prompting
  PROVE  /\ WInv(World, mode) /\ World.sockets = sockets /\ World.queue = queue
         /\ NoMenu(World) /\ input # "reading"
BY DEF IInv, Menu, NoMenu, World

(* A branch ends: the menu is posted.                                      *)
LEMMA AgainStep ==
  ASSUME IInv, NEW w, WInv(w, mode), Again(w), NoMenu(w), Len(w.sockets) <= MaxSockets,
         mode' = mode, input' = input, input # "reading"
  PROVE  /\ WInv(World, mode)' /\ Prompt' /\ Menu' /\ sockets' = w.sockets /\ at' = "queue"
         /\ \A k \in Nat \ {0} : \A a : Waits(queue', k, a) => Waits(w.queue, k, a)
<1>. DEFINE v == Post(w, "menu", 0)
<1>1. WInv(v, mode) /\ v.sockets = w.sockets /\ More(w.queue, v.queue, 0, "menu")
  BY LineSound
<1>2. Becomes(v) /\ at' = "queue"
  BY DEF Again
<1>. HIDE DEF v
<1>3. WInv(World, mode)' /\ sockets' = v.sockets /\ queue' = v.queue
  BY <1>1, <1>2, BecomesSound
<1>4. "queue" \notin MenuChoices /\ "queue" \notin Lines /\ "menu" \notin Lines /\ ~Prompting'
  BY <1>2 DEF MenuChoices, Lines, Prompting
<1>5. Prompt'
  BY <1>2, <1>4 DEF Prompt
<1>6. \A a \in {"menu"} \cup Lines : \A b : ~Before(queue', 0, a, b)
  <2>1. \A a, b : Before(w.queue, 0, a, b) => Waits(w.queue, 0, a)
    BY BothWait
  <2>2. QED
    BY <1>1, <1>3, <2>1 DEF More, NoMenu
<1>7. \A c \in Lines : ~Waits(queue', 0, c)
  BY <1>1, <1>3, <1>4 DEF More, NoMenu
<1>8. Menu'
  BY <1>1, <1>2, <1>3, <1>4, <1>6, <1>7 DEF Menu
<1>9. \A k \in Nat \ {0} : \A a : Waits(queue', k, a) => Waits(w.queue, k, a)
  BY <1>1, <1>3 DEF More
<1>10. QED
  BY <1>1, <1>2, <1>3, <1>5, <1>8, <1>9

(* A step that leaves sockets alone but for what they were asked for, and  *)
(* the pointers.                                                           *)
LEMMA StillStep ==
  ASSUME IInv, WInv(World, mode)', Prompt', Menu', mode' = mode,
         input' \in {"idle", "reading", "closed"}, input = "closed" => input' = "closed",
         parted' \in {parted, TRUE},
         UNCHANGED <<m_pSocket, m_pSerialSocket, m_pHDLC>>,
         at' = "undefined" => at = "undefined",
         at' = "thrown" => at = "thrown" /\ queue' = queue,
         Len(sockets') = Len(sockets),
         \A k \in 1..Len(sockets) :
           /\ sockets'[k].kind = sockets[k].kind /\ sockets'[k].isOpen = sockets[k].isOpen
           /\ sockets'[k].listed = sockets[k].listed /\ sockets'[k].op = sockets[k].op
           /\ sockets'[k].layer = sockets[k].layer
           /\ sockets'[k].pending = "unlink" => sockets[k].pending = "unlink" \/ parted',
         \A k \in 1..Len(sockets) : \A a : Waits(queue', k, a) => Waits(queue, k, a)
  PROVE  IInv'
<1>1. Len(sockets) \in Nat
  BY WorldIs DEF IInv
<1>2. Pointers'
  BY <1>1 DEF IInv, Pointers, Valid
<1>3. Engine'
  <2>1. m_pSocket # 0 => Len(sockets) \in 1..Len(sockets)
    BY <1>1 DEF IInv, Pointers, Valid
  <2>2. QED
    BY <2>1 DEF IInv, Engine, Dormant
<1>4. Untouched'
  BY DEF IInv, Untouched, PeerIsToBlame
<1>5. parted' \in BOOLEAN
  BY DEF IInv
<1>6. QED
  BY <1>2, <1>3, <1>4, <1>5 DEF IInv

(* A branch that does nothing.                                             *)
LEMMA NothingStep ==
  ASSUME IInv, NEW w, WInv(w, mode), w.sockets = sockets, NoMenu(w), Again(w),
         \A k \in 1..Len(sockets) : \A a : Waits(w.queue, k, a) => Waits(queue, k, a),
         UNCHANGED <<mode, input, m_pSocket, m_pSerialSocket, m_pHDLC>>, input # "reading",
         parted' \in {parted, TRUE}
  PROVE  IInv' /\ RequestStep
<1>1. Len(sockets) \in Nat /\ Len(sockets) <= MaxSockets
  BY WorldIs DEF IInv, Menu
<1>2. /\ WInv(World, mode)' /\ Prompt' /\ Menu' /\ sockets' = sockets /\ at' = "queue"
      /\ \A k \in Nat \ {0} : \A a : Waits(queue', k, a) => Waits(w.queue, k, a)
  BY <1>1, AgainStep
<1>3. \A k \in 1..Len(sockets) : \A a : Waits(queue', k, a) => Waits(queue, k, a)
  BY <1>1, <1>2
<1>4. input' \in {"idle", "reading", "closed"}
  BY DEF IInv
<1>5. IInv'
  BY <1>2, <1>3, <1>4, StillStep
<1>6. QED
  BY <1>2, <1>5 DEF RequestStep

(* A request is made through the layers over a socket.                     *)
LEMMA SubmitStep ==
  ASSUME IInv, mode = "client", NEW w, WInv(w, mode), w.sockets = sockets, NoMenu(w),
         NEW k \in 1..Len(sockets),
         NEW request \in {"identify", "link", "unlink", "release", "associate", "access"},
         Submit(w, k, request),
         \A j \in 1..Len(sockets) : \A a : Waits(w.queue, j, a) => Waits(queue, j, a),
         mode' = mode, input' = input, input # "reading", parted' \in {parted, TRUE},
         request = "unlink" => parted',
         request \in {"associate", "access"} => k = m_pSocket /\ sockets[k].isOpen
  PROVE  IInv' /\ RequestStep
<1>1. /\ Len(sockets) \in Nat /\ Len(sockets) <= MaxSockets /\ sockets[k] \in Socket
      /\ DOMAIN sockets = 1..Len(sockets) /\ w \in Worlds
  BY WorldIs DEF IInv, Menu, WInv
<1>2. CASE ~sockets[k].listed
  <2>1. Ends("undefined")
    BY <1>2 DEF Submit
  <2>2. parted
    BY <1>2 DEF IInv, Untouched
  <2>3. parted'
    BY <2>2
  <2>4. QED
    BY <2>1, <2>3, EndsStep
<1>3. CASE sockets[k].listed
  <2>. DEFINE s == [sockets[k] EXCEPT !.pending = request]
              v == Put(w, k, s)
  <2>1. Again(v) /\ UNCHANGED <<m_pSocket, m_pSerialSocket, m_pHDLC>>
    <3>1. With(w, k, "pending", request) = v
      BY <1>1 DEF With, Put, Worlds
    <3>2. QED
      BY <1>3, <3>1 DEF Submit, pointers
  <2>2. /\ s \in Socket /\ s.op = sockets[k].op /\ s.kind = sockets[k].kind
        /\ s.listed = sockets[k].listed /\ s.pending = request
        /\ s.isOpen = sockets[k].isOpen /\ s.layer = sockets[k].layer
    BY <1>1 DEF Socket
  <2>. HIDE DEF s
  <2>3. Sound(s, w.queue, k, mode)
    BY <2>2, LowerSound
  <2>4. /\ WInv(v, mode) /\ v.sockets[k] = s /\ v.queue = w.queue /\ Changes(w, v, k, {})
    BY <2>2, <2>3, PutSound
  <2>. HIDE DEF v
  <2>5. Len(v.sockets) = Len(sockets) /\ NoMenu(v)
    BY <2>4 DEF Changes, NoMenu
  <2>6. /\ WInv(World, mode)' /\ Prompt' /\ Menu' /\ sockets' = v.sockets /\ at' = "queue"
        /\ \A j \in Nat \ {0} : \A a : Waits(queue', j, a) => Waits(v.queue, j, a)
    BY <1>1, <2>1, <2>4, <2>5, AgainStep
  <2>7. \A j \in 1..Len(sockets) : \A a : Waits(queue', j, a) => Waits(queue, j, a)
    BY <1>1, <2>4, <2>6
  <2>8. \A j \in 1..Len(sockets) :
           /\ sockets'[j].kind = sockets[j].kind /\ sockets'[j].isOpen = sockets[j].isOpen
           /\ sockets'[j].listed = sockets[j].listed /\ sockets'[j].op = sockets[j].op
           /\ sockets'[j].layer = sockets[j].layer
           /\ sockets'[j].pending = sockets[j].pending \/ (j = k /\ sockets'[j].pending = request)
    BY <2>2, <2>4, <2>6 DEF Changes
  <2>9. input' \in {"idle", "reading", "closed"}
    BY DEF IInv
  <2>10. IInv'
    BY <2>1, <2>5, <2>6, <2>7, <2>8, <2>9, StillStep
  <2>11. RequestStep
    BY <1>1, <1>3, <2>8 DEF RequestStep, Listed
  <2>12. QED
    BY <2>10, <2>11
<1>4. QED
  BY <1>2, <1>3
-----------------------------------------------------------------------------
(* Choices.                                                                *)

LEMMA ChoicesAre == MenuChoices \subseteq Lines /\ \A c \in MenuChoices : c \notin {"queue", "exited", "thrown", "undefined"}
BY DEF MenuChoices, Lines

LEMMA MenuStep == ASSUME IInv, RunMenu PROVE IInv' /\ RequestStep
<1>1. /\ Handles("menu") /\ Becomes(Handled) /\ input' \in {input, "reading"}
      /\ input = "closed" => input' = "closed"
      /\ UNCHANGED <<mode, at, m_pSocket, m_pSerialSocket, m_pHDLC, parted>>
  BY DEF RunMenu, pointers
<1>2. /\ WInv(Handled, mode) /\ Handled.sockets = sockets /\ NoMenu(Handled)
      /\ at = "queue"
      /\ \A k \in 1..Len(sockets) : \A a : Waits(Handled.queue, k, a) => Waits(queue, k, a)
  BY <1>1, ChosenIs
<1>3. WInv(World, mode)' /\ sockets' = sockets /\ queue' = Handled.queue
  BY <1>1, <1>2, BecomesSound
<1>4. ~Prompting' /\ "queue" \notin Lines
  BY <1>1, <1>2 DEF Prompting, MenuChoices, Lines
<1>5. Prompt'
  BY <1>1, <1>2, <1>4 DEF Prompt
<1>6. Menu'
  <2>1. \A a, b \in {"menu"} \cup Lines : ~Before(queue', 0, a, b)
    BY <1>2, <1>3, BothWait DEF NoMenu
  <2>2. \A a \in {"menu"} \cup Lines : ~Waits(queue', 0, a)
    BY <1>2, <1>3 DEF NoMenu
  <2>3. Len(sockets') <= MaxSockets
    BY <1>3 DEF IInv, Menu
  <2>4. QED
    BY <1>1, <1>2, <1>4, <2>1, <2>2, <2>3 DEF Menu
<1>7. input' \in {"idle", "reading", "closed"}
  BY <1>1 DEF IInv
<1>8. IInv'
  BY <1>1, <1>2, <1>3, <1>5, <1>6, <1>7, StillStep
<1>9. QED
  BY <1>3, <1>8 DEF RequestStep

(* The guards of 1 and 2 find the engine connected, so that the menu's     *)
(* socket is the engine's.                                                 *)
LEMMA PromptStep == ASSUME IInv, RunPrompt PROVE IInv' /\ RequestStep
<1>1. PICK c \in MenuChoices :
        Chosen(c) /\ Prompts(c) /\ (mode = "client" => Guard(c)) /\ at' = c
  BY DEF RunPrompt
<1>2. /\ c \in Lines /\ Handles(c) /\ Becomes(Handled)
      /\ UNCHANGED <<mode, input, m_pSocket, m_pSerialSocket, m_pHDLC, parted>>
  BY <1>1, ChoicesAre DEF RunPrompt, Chosen, menu, pointers
<1>3. /\ WInv(Handled, mode) /\ Handled.sockets = sockets /\ NoMenu(Handled)
      /\ input # "reading" /\ Waits(queue, 0, c)
      /\ \A k \in 1..Len(sockets) : \A a : Waits(Handled.queue, k, a) => Waits(queue, k, a)
  BY <1>2, ChosenIs
<1>4. WInv(World, mode)' /\ sockets' = sockets /\ queue' = Handled.queue
  BY <1>2, <1>3, BecomesSound
<1>5. Prompt'
  <2>1. at' \in MenuChoices' /\ Prompts(c)' /\ Prompts(at)'
    BY <1>1, <1>2 DEF MenuChoices, Prompts
  <2>2. mode = "client" /\ c = "D" => m_pHDLC # 0
    BY <1>1 DEF Guard
  <2>3. mode = "client" /\ c \in {"1", "2"} =>
          m_pSocket # 0 /\ m_pSocket = Len(sockets) /\ sockets[m_pSocket].isOpen
    <3>1. SUFFICES ASSUME mode = "client", c \in {"1", "2"}
                   PROVE  m_pSocket # 0 /\ m_pSocket = Len(sockets) /\ sockets[m_pSocket].isOpen
      OBVIOUS
    <3>2. m_pSocket # 0 /\ sockets[m_pSocket].isOpen /\ sockets[Len(sockets)].layer # "down"
      BY <1>1, <3>1 DEF Guard, IsUp, m_pClientEngine
    <3>3. QED
      BY <3>2 DEF IInv, Engine, Dormant
  <2>4. QED
    BY <1>1, <1>2, <1>4, <2>1, <2>2, <2>3 DEF Prompt
<1>6. Menu'
  <2>1. \A a, b \in {"menu"} \cup Lines : ~Before(queue', 0, a, b)
    BY <1>3, <1>4, BothWait DEF NoMenu
  <2>2. \A a \in {"menu"} \cup Lines : ~Waits(queue', 0, a)
    BY <1>3, <1>4 DEF NoMenu
  <2>3. Len(sockets') <= MaxSockets /\ (Makes(c) => Len(sockets') < MaxSockets)
    BY <1>2, <1>3, <1>4 DEF IInv, Menu
  <2>4. \A b : Makes(b)' = Makes(b)
    BY <1>2 DEF Makes
  <2>5. QED
    BY <1>1, <1>2, <1>3, <2>1, <2>2, <2>3, <2>4 DEF Menu
<1>7. at' \notin {"thrown", "undefined"} /\ input' \in {"idle", "reading", "closed"}
  BY <1>1, <1>2, ChoicesAre DEF IInv
<1>8. IInv'
  BY <1>2, <1>3, <1>4, <1>5, <1>6, <1>7, StillStep
<1>9. QED
  BY <1>4, <1>8 DEF RequestStep

(* The user enters a line, or ends the input.                              *)
LEMMA TypesStep == ASSUME IInv, NEW c \in MenuChoices, Types(c) PROVE IInv' /\ RequestStep
<1>1. /\ input = "reading" /\ Alive /\ (Makes(c) => Len(sockets) < MaxSockets)
      /\ input' = "idle" /\ Becomes(Post(World, c, 0)) /\ c \in Lines
      /\ UNCHANGED <<mode, at, m_pSocket, m_pSerialSocket, m_pHDLC, parted>>
  BY ChoicesAre DEF Types, pointers
<1>2. WInv(World, mode) /\ World.sockets = sockets /\ World.queue = queue
  BY WorldIs DEF IInv
<1>3. NoMenu(World) /\ at = "queue" /\ ~Prompting
  BY <1>1, <1>2 DEF IInv, Menu, NoMenu, Alive
<1>. DEFINE v == Post(World, c, 0)
<1>4. WInv(v, mode) /\ v.sockets = sockets /\ More(queue, v.queue, 0, c)
  BY <1>1, <1>2, LineSound
<1>. HIDE DEF v
<1>5. WInv(World, mode)' /\ sockets' = sockets /\ queue' = v.queue
  BY <1>1, <1>4, BecomesSound DEF v
<1>6. \A k \in 1..Len(sockets) : \A a : Waits(queue', k, a) => Waits(queue, k, a)
  <2>1. \A k \in 1..Len(sockets) : k \in Nat /\ k # 0
    BY <1>2, WorldIs
  <2>2. QED
    BY <1>4, <1>5, <2>1 DEF More
<1>7. Prompt' /\ ~Prompting' /\ "queue" \notin Lines
  <2>1. ~Prompting' /\ "queue" \notin Lines
    BY <1>1, <1>3 DEF Prompting, MenuChoices, Lines
  <2>2. QED
    BY <1>1, <1>3, <2>1 DEF Prompt
<1>8. Menu'
  <2>1. \A a, b : Before(queue, 0, a, b) => Waits(queue, 0, a)
    BY BothWait
  <2>2. \A a \in {"menu"} \cup Lines : \A b : ~Before(queue', 0, a, b)
    BY <1>2, <1>3, <1>4, <1>5, <2>1 DEF More, NoMenu
  <2>3. \A b \in {"menu"} \cup Lines : Waits(queue', 0, b) => b = c
    BY <1>2, <1>3, <1>4, <1>5 DEF More, NoMenu
  <2>4. Len(sockets') <= MaxSockets /\ \A b : Makes(b)' = Makes(b)
    BY <1>1, <1>5 DEF IInv, Menu, Makes
  <2>5. QED
    BY <1>1, <1>3, <1>5, <1>7, <2>2, <2>3, <2>4 DEF Menu
<1>9. IInv'
  BY <1>1, <1>3, <1>5, <1>6, <1>7, <1>8, StillStep
<1>10. QED
  BY <1>5, <1>9 DEF RequestStep

LEMMA EndsInputStep == ASSUME IInv, EndsInput PROVE IInv' /\ RequestStep
<1>1. /\ input' = "closed" /\ queue' = queue /\ sockets' = sockets
      /\ UNCHANGED <<mode, at, m_pSocket, m_pSerialSocket, m_pHDLC, parted>>
  BY DEF EndsInput, pointers
<1>2. WInv(World, mode)'
  BY <1>1 DEF IInv, WInv, World, Sound
<1>3. Prompt'
  BY <1>1 DEF IInv, Prompt, Prompting, MenuChoices, Prompts
<1>4. Menu'
  BY <1>1 DEF IInv, Menu, Prompting, MenuChoices, Makes
<1>5. IInv'
  BY <1>1, <1>2, <1>3, <1>4, StillStep
<1>6. QED
  BY <1>1, <1>5 DEF RequestStep

LEMMA NothingRunStep == ASSUME IInv, RunNothing PROVE IInv' /\ RequestStep
<1>1. PICK c \in MenuChoices \cup {"V"} : Chosen(c)
  BY DEF RunNothing
<1>2. c \in Lines /\ Handles(c)
  BY <1>1, ChoicesAre DEF Chosen
<1>3. Again(Handled) /\ UNCHANGED <<mode, input, m_pSocket, m_pSerialSocket, m_pHDLC, parted>>
  BY DEF RunNothing, menu, pointers
<1>4. QED
  BY <1>2, <1>3, ChosenIs, NothingStep

LEMMA ClientChoices ==
  ASSUME NEW c \in {"A", "B", "C", "D", "E", "T", "U", "5"}, Chosen(c), mode \in {"client", "server"}
  PROVE  mode = "client" /\ c \in Lines /\ Handles(c)
BY DEF Chosen, MenuChoices, Lines

LEMMA IdentifyStep == ASSUME IInv, RunIdentify PROVE IInv' /\ RequestStep
<1>1. mode = "client" /\ "C" \in Lines /\ Handles("C")
  BY ClientChoices DEF RunIdentify, IInv
<1>2. mode' = mode /\ input' = input /\ parted' = parted
  BY DEF RunIdentify, menu
<1>3. /\ WInv(Handled, mode) /\ Handled.sockets = sockets /\ NoMenu(Handled) /\ input # "reading"
      /\ \A k \in 1..Len(sockets) : \A a : Waits(Handled.queue, k, a) => Waits(queue, k, a)
  BY <1>1, ChosenIs
<1>4. CASE m_pHDLC = 0
  <2>1. Again(Handled) /\ UNCHANGED <<m_pSocket, m_pSerialSocket, m_pHDLC>>
    BY <1>4 DEF RunIdentify, pointers
  <2>2. QED
    BY <1>2, <1>3, <2>1, NothingStep
<1>5. CASE m_pHDLC # 0
  <2>1. Submit(Handled, m_pHDLC, "identify")
    BY <1>5 DEF RunIdentify
  <2>2. m_pHDLC \in 1..Len(sockets)
    BY <1>5, WorldIs DEF IInv, Pointers
  <2>3. QED
    BY <1>1, <1>2, <1>3, <2>1, <2>2, SubmitStep
<1>6. QED
  BY <1>4, <1>5

LEMMA ReleaseStep == ASSUME IInv, RunRelease PROVE IInv' /\ RequestStep
<1>1. mode = "client" /\ "5" \in Lines /\ Handles("5")
  BY ClientChoices DEF RunRelease, IInv
<1>2. mode' = mode /\ input' = input /\ parted' = TRUE
  BY DEF RunRelease, menu
<1>3. /\ WInv(Handled, mode) /\ Handled.sockets = sockets /\ NoMenu(Handled) /\ input # "reading"
      /\ \A k \in 1..Len(sockets) : \A a : Waits(Handled.queue, k, a) => Waits(queue, k, a)
  BY <1>1, ChosenIs
<1>4. CASE Ends("undefined")
  BY <1>2, <1>4, EndsStep
<1>5. CASE Again(Handled) /\ UNCHANGED pointers
  <2>1. UNCHANGED <<m_pSocket, m_pSerialSocket, m_pHDLC>>
    BY <1>5 DEF pointers
  <2>2. QED
    BY <1>2, <1>3, <1>5, <2>1, NothingStep
<1>6. CASE m_pClientEngine # 0 /\ Submit(Handled, m_pClientEngine, "release")
  <2>1. m_pClientEngine \in 1..Len(sockets)
    BY <1>6, WorldIs DEF IInv, m_pClientEngine
  <2>2. QED
    BY <1>1, <1>2, <1>3, <1>6, <2>1, SubmitStep
<1>7. QED
  BY <1>4, <1>5, <1>6 DEF RunRelease

LEMMA HdlcDisconnectStep == ASSUME IInv, RunHdlcDisconnect PROVE IInv' /\ RequestStep
<1>1. mode = "client" /\ "U" \in Lines /\ Handles("U")
  BY ClientChoices DEF RunHdlcDisconnect, IInv
<1>2. mode' = mode /\ input' = input /\ parted' = TRUE
  BY DEF RunHdlcDisconnect, menu
<1>3. /\ WInv(Handled, mode) /\ Handled.sockets = sockets /\ NoMenu(Handled) /\ input # "reading"
      /\ \A k \in 1..Len(sockets) : \A a : Waits(Handled.queue, k, a) => Waits(queue, k, a)
  BY <1>1, ChosenIs
<1>4. CASE m_pHDLC # 0 /\ Submit(Handled, m_pHDLC, "unlink")
  <2>1. m_pHDLC \in 1..Len(sockets)
    BY <1>4, WorldIs DEF IInv, Pointers
  <2>2. QED
    BY <1>1, <1>2, <1>3, <1>4, <2>1, SubmitStep
<1>5. CASE Again(Handled) /\ UNCHANGED pointers
  <2>1. UNCHANGED <<m_pSocket, m_pSerialSocket, m_pHDLC>>
    BY <1>5 DEF pointers
  <2>2. QED
    BY <1>2, <1>3, <1>5, <2>1, NothingStep
<1>6. QED
  BY <1>4, <1>5 DEF RunHdlcDisconnect

LEMMA DatalinkStep == ASSUME IInv, DatalinkConnect PROVE IInv' /\ RequestStep
<1>1. at = "D" /\ mode = "client" /\ Submit(World, m_pHDLC, "link")
      /\ mode' = mode /\ input' = input /\ parted' = parted
  BY DEF DatalinkConnect, Answers, menu
<1>2. Prompting
  BY <1>1 DEF Prompting, MenuChoices
<1>3. /\ WInv(World, mode) /\ World.sockets = sockets /\ World.queue = queue
      /\ NoMenu(World) /\ input # "reading"
  BY <1>2, PromptingIs
<1>4. m_pHDLC \in 1..Len(sockets)
  BY <1>1, WorldIs DEF IInv, Pointers, Prompt
<1>5. QED
  BY <1>1, <1>3, <1>4, SubmitStep

(* What the guards found still holds when the prompts are answered.        *)
LEMMA MenuRequestStep == ASSUME IInv, Request PROVE IInv' /\ RequestStep
<1>1. /\ at \in {"1", "2"} /\ mode = "client"
      /\ mode' = mode /\ input' = input /\ parted' = parted
  BY DEF Request, Answers, menu
<1>2. Prompting
  BY <1>1 DEF Prompting, MenuChoices
<1>3. /\ WInv(World, mode) /\ World.sockets = sockets /\ World.queue = queue
      /\ NoMenu(World) /\ input # "reading"
  BY <1>2, PromptingIs
<1>4. CASE Again(World) /\ UNCHANGED pointers
  <2>1. UNCHANGED <<m_pSocket, m_pSerialSocket, m_pHDLC>>
    BY <1>4 DEF pointers
  <2>2. QED
    BY <1>1, <1>3, <1>4, <2>1, NothingStep
<1>5. CASE Submit(World, m_pClientEngine, IF at = "1" THEN "associate" ELSE "access")
  <2>1. m_pSocket \in 1..Len(sockets) /\ m_pSocket = m_pClientEngine /\ sockets[m_pSocket].isOpen
    BY <1>1 DEF IInv, Prompt, Pointers, Valid, m_pClientEngine
  <2>2. (IF at = "1" THEN "associate" ELSE "access") \in {"associate", "access"}
    OBVIOUS
  <2>3. QED
    BY <1>1, <1>3, <1>5, <2>1, <2>2, SubmitStep
<1>6. QED
  BY <1>4, <1>5 DEF Request
-----------------------------------------------------------------------------
(* Disconnecting.                                                          *)

(* A socket that the menu points to was not released before, so that it is *)
(* released once.                                                          *)
LEMMA TcpDisconnectStep == ASSUME IInv, RunTcpDisconnect PROVE IInv' /\ RequestStep
<1>. DEFINE k == m_pSocket
<1>1. mode = "client" /\ "T" \in Lines /\ Handles("T")
  BY ClientChoices DEF RunTcpDisconnect, IInv
<1>2. mode' = mode /\ input' = input /\ parted' = TRUE
  BY DEF RunTcpDisconnect, menu
<1>3. /\ WInv(Handled, mode) /\ Handled.sockets = sockets /\ NoMenu(Handled) /\ input # "reading"
      /\ \A j \in 1..Len(sockets) : \A a : Waits(Handled.queue, j, a) => Waits(queue, j, a)
  BY <1>1, ChosenIs
<1>4. CASE Ends("thrown")
  BY <1>2, <1>4, EndsStep
<1>5. CASE Again(Handled) /\ UNCHANGED pointers
  <2>1. UNCHANGED <<m_pSocket, m_pSerialSocket, m_pHDLC>>
    BY <1>5 DEF pointers
  <2>2. QED
    BY <1>2, <1>3, <1>5, <2>1, NothingStep
<1>6. ASSUME NEW c, c = CloseSocket(Handled, k) \/ c = CloseSerial(Handled, k), k # 0,
             Again(Post(c, "remove_tcp", k)), m_pSocket' = 0, UNCHANGED <<m_pSerialSocket, m_pHDLC>>,
             sockets[k].kind # "tcp" => sockets[k].isOpen
      PROVE  IInv' /\ RequestStep
  <2>. DEFINE v == Post(c, "remove_tcp", k)
  <2>1. /\ k \in 1..Len(sockets) /\ sockets[k].listed /\ k \in Nat \ {0} /\ Len(sockets) \in Nat
        /\ DOMAIN sockets = 1..Len(sockets) /\ Len(sockets) <= MaxSockets
    BY <1>6, WorldIs DEF IInv, Pointers, Valid, Menu
  <2>2. Kept(Handled, k)
    <3>1. Sound(sockets[k], queue, k, mode)
      BY <2>1, WorldIs DEF IInv
    <3>2. CASE sockets[k].kind = "tcp"
      <4>1. ~Waits(queue, k, "remove_tcp")
        BY <1>6, <3>2 DEF IInv, Pointers, Valid
      <4>2. ~Waits(queue, k, "remove_serial")
        BY <3>1, <3>2 DEF Sound, OneRemoval
      <4>3. QED
        BY <1>3, <2>1, <4>1, <4>2 DEF Kept, Removals
    <3>3. CASE sockets[k].kind # "tcp"
      BY <1>3, <1>6, <2>1, <3>1, <3>3 DEF Kept, Sound, Gone
    <3>4. QED
      BY <3>2, <3>3
  <2>3. "remove_tcp" \in Removals /\ "remove_tcp" # "remove_serial"
    BY DEF Removals
  <2>4. /\ WInv(v, mode) /\ v.sockets[k].listed /\ v.sockets[k].pending = sockets[k].pending
        /\ Changes(Handled, v, k, {"read_aborted", "connect_aborted", "remove_tcp"})
    <3>1. /\ WInv(Handled, "client") /\ k \in 1..Len(Handled.sockets) /\ Handled.sockets[k].listed
          /\ Handled.sockets[k].pending = sockets[k].pending
      BY <1>1, <1>3, <2>1
    <3>. HIDE DEF k
    <3>2. /\ WInv(v, "client") /\ v.sockets[k].listed /\ v.sockets[k].pending = Handled.sockets[k].pending
          /\ Changes(Handled, v, k, {"read_aborted", "connect_aborted", "remove_tcp"})
      BY <1>6, <2>2, <2>3, <3>1, ReleaseSound
    <3>. HIDE DEF v
    <3>3. QED
      BY <1>1, <3>1, <3>2
  <2>5. Again(v)
    BY <1>6
  <2>. HIDE DEF v
  <2>6. NoMenu(v) /\ Len(v.sockets) = Len(sockets)
    BY <1>3, <2>1, <2>4 DEF NoMenu, Changes
  <2>7. /\ WInv(World, mode)' /\ Prompt' /\ Menu' /\ sockets' = v.sockets /\ at' = "queue"
        /\ \A j \in Nat \ {0} : \A a : Waits(queue', j, a) => Waits(v.queue, j, a)
    BY <1>2, <1>3, <2>1, <2>4, <2>5, <2>6, AgainStep
  <2>8. \A j \in 1..Len(sockets) :
          /\ sockets'[j].kind = sockets[j].kind /\ sockets'[j].pending = sockets[j].pending
          /\ sockets[j].listed => sockets'[j].listed
    BY <1>3, <2>1, <2>4, <2>7 DEF Changes
  <2>9. \A j \in 1..Len(sockets) : Waits(queue', j, "remove_serial") => Waits(queue, j, "remove_serial")
    <3>. SUFFICES ASSUME NEW j \in 1..Len(sockets), Waits(queue', j, "remove_serial")
                  PROVE  Waits(queue, j, "remove_serial")
      OBVIOUS
    <3>1. Waits(v.queue, j, "remove_serial")
      BY <2>1, <2>7
    <3>2. Waits(Handled.queue, j, "remove_serial")
      BY <2>1, <2>4, <3>1 DEF Changes
    <3>3. QED
      BY <1>3, <3>2
  <2>10. Pointers'
    <3>1. m_pSerialSocket # 0 =>
            /\ m_pSerialSocket \in 1..Len(sockets) /\ sockets[m_pSerialSocket].listed
            /\ sockets[m_pSerialSocket].kind # "tcp"
            /\ ~Waits(queue, m_pSerialSocket, "remove_serial")
      BY DEF IInv, Pointers, Valid
    <3>2. Valid(m_pSerialSocket)' /\ (m_pSerialSocket' # 0 => sockets'[m_pSerialSocket].kind # "tcp")
      BY <1>6, <2>6, <2>7, <2>8, <2>9, <3>1 DEF Valid
    <3>3. Valid(m_pSocket)'
      BY <1>6 DEF Valid
    <3>4. m_pHDLC' \in 0..Len(sockets') /\ mode' = "client"
      BY <1>1, <1>2, <1>6, <2>6, <2>7 DEF IInv, Pointers
    <3>5. QED
      BY <1>6, <3>2, <3>3, <3>4 DEF Pointers
  <2>11. Engine'
    BY <1>6 DEF Engine
  <2>12. Untouched'
    BY <1>2 DEF Untouched
  <2>13. RequestStep
    BY <2>1, <2>8 DEF RequestStep
  <2>14. QED
    BY <1>2, <2>7, <2>10, <2>11, <2>12, <2>13 DEF IInv
<1>7. CASE /\ k # 0 /\ sockets[k].kind = "tcp" /\ Again(ReleaseTcp(Handled, k))
           /\ m_pSocket' = 0 /\ UNCHANGED <<m_pSerialSocket, m_pHDLC>>
  BY <1>6, <1>7 DEF ReleaseTcp
<1>8. CASE /\ k # 0 /\ sockets[k].isOpen /\ Again(ReleaseSerialAsTcp(Handled, k))
           /\ m_pSocket' = 0 /\ UNCHANGED <<m_pSerialSocket, m_pHDLC>>
  BY <1>6, <1>8 DEF ReleaseSerialAsTcp
<1>9. QED
  BY <1>4, <1>5, <1>7, <1>8 DEF RunTcpDisconnect
-----------------------------------------------------------------------------
(* Connecting.                                                             *)

(* A socket is made and opened, and is what the menu points to from then   *)
(* on; where it is not, nothing happens to it any more.                    *)
LEMMA MakeStep ==
  ASSUME IInv, NEW w, WInv(w, mode), w.sockets = sockets, NoMenu(w),
         \A k \in 1..Len(sockets) : \A a : Waits(w.queue, k, a) => Waits(queue, k, a),
         NEW n, n = Made, n <= MaxSockets, NEW kind \in {"tcp", "hdlc", "wrapper"},
         NEW v, WInv(v, mode), Changes(Create(w, kind), v, n, {"bad_descriptor"}), Again(v),
         v.sockets[n].listed, v.sockets[n].pending = "none", v.sockets[n].op # "connecting",
         m_pSocket' \in {m_pSocket, n}, m_pSerialSocket' \in {m_pSerialSocket, n},
         m_pSerialSocket' = n => kind # "tcp", m_pHDLC' \in {m_pHDLC, n},
         mode = "server" => UNCHANGED <<m_pSocket, m_pSerialSocket, m_pHDLC>>,
         m_pSocket' = n \/ mode = "server" \/ (v.sockets[n].layer = "down" /\ Idle(v, n)),
         mode' = mode, input' = input, input # "reading", parted' = parted
  PROVE  IInv' /\ RequestStep
<1>1. Len(sockets) \in Nat /\ DOMAIN sockets = 1..Len(sockets) /\ n = Len(sockets) + 1
  BY WorldIs DEF IInv, Made
<1>. DEFINE c == Create(w, kind)
<1>2. /\ WInv(c, mode) /\ c.queue = w.queue /\ Len(c.sockets) = n /\ n \in 1..n
      /\ \A j \in 1..Len(sockets) : c.sockets[j] = sockets[j] /\ j \in 1..n
      /\ Idle(c, n) /\ Kept(c, n) /\ c.sockets[n].kind = kind
  <2>1. WInv(w, mode) /\ n = Len(w.sockets) + 1 /\ kind \in {"tcp", "hdlc", "wrapper"}
    BY <1>1
  <2>4. WInv(c, mode)
    BY <2>1, CreateSound
  <2>2. /\ c.queue = w.queue /\ Len(c.sockets) = n /\ n \in 1..n
        /\ \A j \in 1..Len(w.sockets) : c.sockets[j] = w.sockets[j] /\ j \in 1..n
        /\ Idle(c, n) /\ Kept(c, n)
        /\ c.sockets[n].kind = kind
    BY <2>1, <2>4, CreateSound
  <2>. HIDE DEF c
  <2>3. QED
    BY <2>2, <2>4
<1>3. Changes(c, v, n, {"bad_descriptor"})
  OBVIOUS
<1>. HIDE DEF c
<1>4. /\ Len(v.sockets) = n /\ v.sockets[n].kind = kind
      /\ \A j \in 1..Len(sockets) : v.sockets[j] = sockets[j]
      /\ \A a : Waits(v.queue, n, a) => a = "bad_descriptor"
                                           \/ (a \notin Completions /\ a \notin Removals)
      /\ \A j \in Nat : j # n => \A a : Waits(v.queue, j, a) => Waits(w.queue, j, a)
  BY <1>1, <1>2, <1>3 DEF Changes, Idle, Kept
<1>5. NoMenu(v)
  BY <1>1, <1>4 DEF NoMenu
<1>6. /\ WInv(World, mode)' /\ Prompt' /\ Menu' /\ sockets' = v.sockets /\ at' = "queue"
      /\ \A j \in Nat \ {0} : \A a : Waits(queue', j, a) => Waits(v.queue, j, a)
  BY <1>4, <1>5, AgainStep
<1>7. \A j \in 1..Len(sockets) : \A a : Waits(queue', j, a) => Waits(queue, j, a)
  <2>. SUFFICES ASSUME NEW j \in 1..Len(sockets), NEW a, Waits(queue', j, a)
                PROVE  Waits(queue, j, a)
    OBVIOUS
  <2>1. j \in Nat \ {0} /\ j # n
    BY <1>1
  <2>2. Waits(w.queue, j, a)
    BY <1>4, <1>6, <2>1
  <2>3. QED
    BY <2>2
<1>8. /\ n \in Nat \ {0} /\ Len(sockets') = n /\ 1..Len(sockets') = 1..Len(sockets) \cup {n}
      /\ n \notin 1..Len(sockets)
  BY <1>1, <1>4, <1>6
<1>9. /\ \A a \in Removals : ~Waits(queue', n, a)
      /\ ~Waits(queue', n, "connected")
  <2>1. "bad_descriptor" \notin Removals /\ "connected" \in Completions /\ "bad_descriptor" # "connected"
    BY DEF Removals, Completions, Attempts
  <2>2. QED
    BY <1>4, <1>6, <1>8, <2>1
<1>10. Pointers'
  <2>1. Valid(n)'
    BY <1>6, <1>8, <1>9 DEF Valid, Removals
  <2>2. \A p \in {m_pSocket, m_pSerialSocket} : Valid(p)'
    BY <1>4, <1>6, <1>7, <1>8 DEF IInv, Pointers, Valid
  <2>3. Valid(m_pSocket)' /\ Valid(m_pSerialSocket)'
    BY <2>1, <2>2 DEF Valid
  <2>4. m_pSerialSocket' # 0 => sockets'[m_pSerialSocket'].kind # "tcp"
    BY <1>4, <1>6 DEF IInv, Pointers, Valid
  <2>5. m_pHDLC' \in 0..Len(sockets')
    BY <1>1, <1>8 DEF IInv, Pointers
  <2>6. QED
    BY <2>3, <2>4, <2>5 DEF IInv, Pointers
<1>11. Engine'
  <2>1. CASE m_pSocket' = n
    BY <1>8, <2>1 DEF Engine
  <2>2. CASE mode = "server"
    BY <2>2 DEF IInv, Pointers, Engine
  <2>3. CASE v.sockets[n].layer = "down" /\ Idle(v, n)
    <3>1. Dormant(n)'
      BY <1>6, <1>8, <2>3 DEF Dormant, Idle
    <3>2. QED
      BY <1>8, <3>1 DEF Engine, Dormant
  <2>4. QED
    BY <2>1, <2>2, <2>3
<1>12. Untouched'
  BY <1>4, <1>6, <1>7, <1>8, <1>9 DEF IInv, Untouched
<1>13. RequestStep
  BY <1>1, <1>4, <1>6 DEF RequestStep
<1>14. QED
  BY <1>6, <1>10, <1>11, <1>12, <1>13 DEF IInv
(* What was made in a branch that has prompted.                            *)
LEMMA MadeIs ==
  ASSUME IInv, NEW c \in {"A", "B", "E", "2", "3"}, at = c, c \in {"2", "3"} => mode = "server",
         NEW kind \in {"tcp", "hdlc", "wrapper"}, NEW n, n = Made,
         c \in {"A", "B", "E"} => mode = "client"
  PROVE  /\ WInv(World, mode) /\ World.sockets = sockets /\ World.queue = queue
         /\ NoMenu(World) /\ input # "reading" /\ n <= MaxSockets
         /\ WInv(Create(World, kind), mode) /\ n \in 1..Len(Create(World, kind).sockets)
         /\ Create(World, kind).sockets[n].listed
         /\ Idle(Create(World, kind), n) /\ Kept(Create(World, kind), n)
         /\ Create(World, kind).sockets[n].kind = kind
         /\ Create(World, kind).sockets[n].layer = "down"
         /\ Create(World, kind).sockets[n].pending = "none"
<1>1. c \in Lines /\ Prompting /\ Makes(c)
  BY DEF Lines, Prompting, MenuChoices, Makes
<1>2. /\ WInv(World, mode) /\ World.sockets = sockets /\ World.queue = queue
      /\ NoMenu(World) /\ input # "reading"
  BY <1>1, PromptingIs
<1>3. Len(sockets) \in Nat /\ Len(sockets) < MaxSockets /\ n = Len(World.sockets) + 1
  BY <1>1, <1>2, WorldIs DEF IInv, Menu, Made
<1>4. n <= MaxSockets
  BY <1>2, <1>3, MaxSocketsAssumption
<1>5. WInv(Create(World, kind), mode)
  BY <1>2, <1>3, CreateSound
<1>6. QED
  BY <1>2, <1>3, <1>4, <1>5, CreateSound

LEMMA TcpConnectStep == ASSUME IInv, TcpConnect PROVE IInv' /\ RequestStep
<1>1. /\ at = "A" /\ mode = "client" /\ m_pSocket' = Made
      /\ m_pSerialSocket' = m_pSerialSocket /\ m_pHDLC' = m_pHDLC
      /\ mode' = mode /\ input' = input /\ parted' = parted
  BY DEF TcpConnect, Answers, menu
<1>2. PICK name \in Names : Again(OpenTcp(Create(World, "tcp"), Made, name))
  BY DEF TcpConnect
<1>3. name \in Seq(Endpoints)
  BY NamesAssumption DEF Endpoints
<1>4. PICK n : n = Made
  OBVIOUS
<1>. DEFINE c == Create(World, "tcp")
            v == OpenTcp(c, n, name)
<1>5. /\ WInv(World, mode) /\ World.sockets = sockets /\ World.queue = queue
      /\ NoMenu(World) /\ input # "reading" /\ n <= MaxSockets
      /\ WInv(c, mode) /\ n \in 1..Len(c.sockets)
      /\ c.sockets[n].listed /\ Idle(c, n) /\ c.sockets[n].kind = "tcp"
      /\ c.sockets[n].layer = "down" /\ c.sockets[n].pending = "none"
  BY <1>1, <1>4, MadeIs
<1>6. Again(v)
  BY <1>2, <1>4
<1>. HIDE DEF c
<1>7. /\ WInv(v, mode) /\ SameUse(c, v, n) /\ v.sockets[n].op = "resolving" /\ Changes(c, v, n, {})
  BY <1>3, <1>5, OpenTcpSound
<1>. HIDE DEF v
<1>8. Changes(c, v, n, {"bad_descriptor"}) /\ v.sockets[n].listed /\ v.sockets[n].pending = "none"
  BY <1>5, <1>7, ChangesMore DEF SameUse
<1>9. m_pSerialSocket' # n
  BY <1>1, <1>4, WorldIs DEF IInv, Pointers, Valid, Made
<1>10. QED
  BY <1>1, <1>4, <1>5, <1>6, <1>7, <1>8, <1>9, MakeStep DEF c

(* B, E, and the server's 2 and 3 open a port.                             *)
LEMMA SerialStep ==
  ASSUME IInv, NEW choice \in {"B", "E", "2", "3"}, at = choice,
         choice \in {"2", "3"} => mode = "server", choice \in {"B", "E"} => mode = "client",
         NEW kind \in {"hdlc", "wrapper"}, NEW outcome \in {"fails", "half", "succeeds"},
         Again(OpenSerial(Create(World, kind), Made, outcome)),
         mode = "server" => UNCHANGED <<m_pSocket, m_pSerialSocket, m_pHDLC>>,
         m_pSocket' \in {m_pSocket, Made}, m_pSerialSocket' \in {m_pSerialSocket, Made},
         m_pHDLC' \in {m_pHDLC, Made},
         mode = "client" /\ outcome = "succeeds" => m_pSocket' = Made,
         mode' = mode, input' = input, parted' = parted
  PROVE  IInv' /\ RequestStep
<1>1. PICK n : n = Made
  OBVIOUS
<1>. DEFINE c == Create(World, kind)
            v == OpenSerial(c, n, outcome)
<1>2. /\ WInv(World, mode) /\ World.sockets = sockets /\ World.queue = queue
      /\ NoMenu(World) /\ input # "reading" /\ n <= MaxSockets
      /\ WInv(c, mode) /\ n \in 1..Len(c.sockets)
      /\ c.sockets[n].listed /\ Idle(c, n) /\ Kept(c, n) /\ c.sockets[n].kind = kind
      /\ c.sockets[n].layer = "down" /\ c.sockets[n].pending = "none"
  BY <1>1, MadeIs
<1>3. Again(v) /\ kind # "tcp"
  BY <1>1
<1>. HIDE DEF c
<1>4. /\ WInv(v, mode) /\ SameButLayer(c, v, n) /\ v.sockets[n].op \in {"none", "reading"}
      /\ Changes(c, v, n, {"bad_descriptor"})
      /\ outcome # "succeeds" => v.sockets[n].layer = "down" /\ Idle(v, n)
  BY <1>2, <1>3, OpenSerialSound
<1>. HIDE DEF v
<1>5. v.sockets[n].listed /\ v.sockets[n].pending = "none" /\ v.sockets[n].op # "connecting"
  BY <1>2, <1>4 DEF SameButLayer
<1>6. m_pSocket' = n \/ mode = "server" \/ (v.sockets[n].layer = "down" /\ Idle(v, n))
  BY <1>1, <1>4 DEF IInv
<1>7. QED
  BY <1>1, <1>2, <1>3, <1>4, <1>5, <1>6, MakeStep DEF c

LEMMA PortStep ==
  ASSUME IInv, HdlcConnect \/ WrapperConnect \/ SerialServer
  PROVE  IInv' /\ RequestStep
<1>1. CASE HdlcConnect
  <2>1. /\ at = "B" /\ mode = "client" /\ m_pSerialSocket' = Made /\ m_pHDLC' = Made
        /\ mode' = mode /\ input' = input /\ parted' = parted
    BY <1>1 DEF HdlcConnect, Answers, menu
  <2>2. PICK outcome \in {"fails", "half", "succeeds"} :
          /\ Again(OpenSerial(Create(World, "hdlc"), Made, outcome))
          /\ m_pSocket' = IF outcome = "succeeds" THEN Made ELSE m_pSocket
    BY <1>1 DEF HdlcConnect
  <2>3. QED
    BY <2>1, <2>2, SerialStep
<1>2. CASE WrapperConnect
  <2>1. /\ at = "E" /\ mode = "client" /\ m_pSerialSocket' = Made /\ m_pSocket' = Made
        /\ m_pHDLC' = m_pHDLC /\ mode' = mode /\ input' = input /\ parted' = parted
    BY <1>2 DEF WrapperConnect, Answers, menu
  <2>2. PICK outcome \in {"fails", "half", "succeeds"} :
          Again(OpenSerial(Create(World, "wrapper"), Made, outcome))
    BY <1>2 DEF WrapperConnect
  <2>3. QED
    BY <2>1, <2>2, SerialStep
<1>3. CASE SerialServer
  <2>1. /\ mode = "server" /\ Prompting /\ UNCHANGED <<m_pSocket, m_pSerialSocket, m_pHDLC>>
        /\ mode' = mode /\ input' = input /\ parted' = parted
    BY <1>3 DEF SerialServer, menu, pointers
  <2>2. at \in {"2", "3"}
    BY <2>1 DEF IInv, Prompt, Prompts
  <2>3. PICK outcome \in {"fails", "half", "succeeds"} :
          Again(OpenSerial(Create(World, IF at = "2" THEN "hdlc" ELSE "wrapper"), Made, outcome))
    BY <1>3 DEF SerialServer
  <2>4. PICK kind \in {"hdlc", "wrapper"} : Again(OpenSerial(Create(World, kind), Made, outcome))
    BY <2>3
  <2>5. QED
    BY <2>1, <2>2, <2>4, SerialStep
<1>4. QED
  BY <1>1, <1>2, <1>3

(* The server's 1 makes a socket without a prompt.                         *)
LEMMA TcpServerStep == ASSUME IInv, TcpServer PROVE IInv' /\ RequestStep
<1>1. /\ mode = "server" /\ Chosen("1") /\ Again(Listen(Create(Handled, "tcp"), Made))
      /\ UNCHANGED <<m_pSocket, m_pSerialSocket, m_pHDLC>>
      /\ mode' = mode /\ input' = input /\ parted' = parted
  BY DEF TcpServer, menu, pointers
<1>2. "1" \in Lines /\ Handles("1") /\ Makes("1")
  BY <1>1 DEF Chosen, Lines, Makes
<1>3. /\ WInv(Handled, mode) /\ Handled.sockets = sockets /\ NoMenu(Handled) /\ input # "reading"
      /\ Waits(queue, 0, "1")
      /\ \A k \in 1..Len(sockets) : \A a : Waits(Handled.queue, k, a) => Waits(queue, k, a)
  BY <1>2, ChosenIs
<1>4. PICK n : n = Made
  OBVIOUS
<1>5. n \in Nat /\ n <= MaxSockets /\ n = Len(Handled.sockets) + 1
  <2>1. Len(sockets) \in Nat /\ Len(sockets) < MaxSockets
    BY <1>2, <1>3, WorldIs DEF IInv, Menu
  <2>2. QED
    BY <1>3, <1>4, <2>1, MaxSocketsAssumption DEF Made
<1>. DEFINE c == Create(Handled, "tcp")
            v == Listen(c, n)
<1>6. WInv(c, mode)
  BY <1>3, <1>5, CreateSound
<1>7. /\ n \in 1..Len(c.sockets)
      /\ c.sockets[n].listed /\ Idle(c, n) /\ Kept(c, n) /\ c.sockets[n].kind = "tcp"
      /\ c.sockets[n].layer = "down" /\ c.sockets[n].pending = "none"
  BY <1>3, <1>5, <1>6, CreateSound
<1>8. Again(v)
  BY <1>1, <1>4
<1>. HIDE DEF c
<1>9. WInv(v, mode) /\ SameUse(c, v, n) /\ Changes(c, v, n, {}) /\ v.sockets[n].op # "connecting"
  <2>1. v = c \/ v = With(c, n, "op", "accepting")
    BY DEF Listen
  <2>2. v.sockets[n].op # "connecting"
    <3>1. CASE v = c
      BY <1>7, <3>1 DEF Idle
    <3>2. CASE v = With(c, n, "op", "accepting")
      <4>1. c \in Worlds /\ c.sockets \in Seq(Socket) /\ c.sockets[n] \in Socket /\ n \in DOMAIN c.sockets
        BY <1>6, <1>7, WorldParts DEF WInv
      <4>2. With(c, n, "op", "accepting").sockets[n].op = "accepting"
        BY <4>1 DEF With, Worlds, Socket
      <4>3. QED
        BY <3>2, <4>2
    <3>3. QED
      BY <2>1, <3>1, <3>2
  <2>. HIDE DEF v
  <2>3. QED
    BY <1>1, <1>6, <1>7, <2>2, ListenSound DEF v
<1>. HIDE DEF v
<1>10. Changes(c, v, n, {"bad_descriptor"}) /\ v.sockets[n].listed /\ v.sockets[n].pending = "none"
  BY <1>7, <1>9, ChangesMore DEF SameUse
<1>11. m_pSerialSocket' # n
  BY <1>1, <1>4, WorldIs DEF IInv, Pointers, Valid, Made
<1>12. QED
  BY <1>1, <1>3, <1>4, <1>5, <1>8, <1>9, <1>10, <1>11, MakeStep DEF c
-----------------------------------------------------------------------------
(* The theorems.                                                           *)

(* Nothing is connected at the start, and the menu is about to run.        *)
LEMMA IInvInit == Init => IInv
<1>. SUFFICES ASSUME Init PROVE IInv
  OBVIOUS
<1>. DEFINE h == Handler("menu", 0)
<1>1. /\ sockets = <<>> /\ queue = <<h>> /\ mode \in {"client", "server"} /\ at = "queue"
      /\ input = "idle" /\ m_pSocket = 0 /\ m_pSerialSocket = 0 /\ m_pHDLC = 0 /\ parted = FALSE
  BY DEF Init
<1>2. h \in Handlers /\ h.of = 0 /\ h.kind = "menu"
  BY DEF Handler, Handlers
<1>. HIDE DEF h
<1>3. Len(sockets) = 0 /\ sockets \in Seq(Socket)
  BY <1>1, EmptySeq
<1>4. queue \in Seq(Handlers) /\ Len(queue) = 1 /\ queue[1] = h
  BY <1>1, <1>2
<1>5. \A k \in 1..Len(sockets) : FALSE
  BY <1>3
<1>6. \A i \in 1..Len(queue) : i = 1
  BY <1>4
<1>7. WInv(World, mode)
  <2>1. World \in Worlds /\ World.sockets = sockets /\ World.queue = queue
    BY <1>3, <1>4 DEF World, Worlds
  <2>2. \A i \in 1..Len(World.queue) : World.queue[i].of <= Len(World.sockets)
    <3>1. \A i \in 1..Len(queue) : queue[i].of = 0
      BY <1>2, <1>4, <1>6
    <3>2. QED
      BY <1>3, <2>1, <3>1
  <2>3. QED
    BY <1>5, <2>1, <2>2 DEF WInv
<1>8. Pointers /\ Engine
  BY <1>1, <1>3 DEF Pointers, Valid, Engine
<1>9. ~Prompting
  BY <1>1 DEF Prompting, MenuChoices
<1>10. Prompt /\ Untouched
  BY <1>1, <1>5, <1>9 DEF Prompt, Untouched
<1>11. Menu
  <2>1. \A a, b : ~Before(queue, 0, a, b)
    <3>1. \A i, j \in 1..Len(queue) : ~(i < j)
      BY <1>4
    <3>2. QED
      BY <3>1 DEF Before
  <2>2. \A c \in Lines : ~Waits(queue, 0, c) /\ at # c
    BY <1>1, <1>2, <1>4, <1>6 DEF Waits, Lines
  <2>3. QED
    BY <1>1, <1>3, <1>9, <2>1, <2>2, MaxSocketsAssumption DEF Menu
<1>12. QED
  BY <1>1, <1>7, <1>8, <1>10, <1>11 DEF IInv

LEMMA IInvNext == IInv /\ Next => IInv' /\ RequestStep
<1>. SUFFICES ASSUME IInv, Next PROVE IInv' /\ RequestStep
  OBVIOUS
<1>1. CASE Run
  BY <1>1, AttemptStep, ConnectedStep, AcceptedStep, BrokenStep, ClosedStep, DataStep,
     MistypedStep, DisconnectConfirmStep, RemoveStep, StaleStep, MenuStep, PromptStep, NothingRunStep, OverStep,
     IdentifyStep, ReleaseStep, TcpDisconnectStep, HdlcDisconnectStep, TcpServerStep DEF Run
<1>2. CASE User
  BY <1>2, TypesStep, EndsInputStep, TcpConnectStep, PortStep, DatalinkStep, MenuRequestStep,
     OverStep DEF User
<1>3. CASE Network \/ Peers
  BY <1>3, NetworkStep
<1>4. QED
  BY <1>1, <1>2, <1>3 DEF Next

LEMMA IInvStays == IInv /\ UNCHANGED vars => IInv'
<1>. SUFFICES ASSUME IInv, UNCHANGED vars PROVE IInv'
  OBVIOUS
<1>1. /\ mode' = mode /\ at' = at /\ input' = input /\ queue' = queue /\ sockets' = sockets
      /\ m_pSocket' = m_pSocket /\ m_pSerialSocket' = m_pSerialSocket /\ m_pHDLC' = m_pHDLC
      /\ parted' = parted
  BY DEF vars, menu, pointers
<1>2. WInv(World, mode)'
  BY <1>1 DEF IInv, WInv, World, Sound
<1>3. Prompt'
  BY <1>1 DEF IInv, Prompt, Prompting, MenuChoices, Prompts
<1>4. Menu'
  BY <1>1 DEF IInv, Menu, Prompting, MenuChoices, Makes
<1>5. QED
  BY <1>1, <1>2, <1>3, <1>4, StillStep DEF IInv

LEMMA IInvHolds == Spec => []IInv
<1>1. IInv /\ [Next]_vars => IInv'
  BY IInvNext, IInvStays
<1>2. QED
  BY <1>1, IInvInit, PTL DEF Spec

(* The menu's pointers are null or point to sockets that exist, in         *)
(* whatever order connections are made, fail and are dropped: a socket is  *)
(* destroyed only after the pointer to it was cleared.                     *)
THEOREM TypeCorrect == Spec => []TypeOK
<1>1. IInv => TypeOK
  <2>. SUFFICES ASSUME IInv PROVE TypeOK
    OBVIOUS
  <2>1. /\ DOMAIN sockets = 1..Len(sockets)
        /\ \A k \in 1..Len(sockets) : sockets[k] \in Socket
    BY WorldIs DEF IInv
  <2>2. \A k \in DOMAIN sockets :
          /\ sockets[k].kind \in {"tcp", "hdlc", "wrapper"}
          /\ sockets[k].op \in {"none", "resolving", "connecting", "accepting", "reading"}
          /\ sockets[k].layer \in {"down", "physical", "connected", "open"}
    BY <2>1, SocketParts
  <2>3. \A p \in {m_pSocket, m_pSerialSocket} : p = 0 \/ Listed(p)
    BY <2>1 DEF IInv, Pointers, Valid, Listed
  <2>4. m_pHDLC \in 0..Len(sockets) /\ Len(sockets) <= MaxSockets
    BY DEF IInv, Pointers, Menu
  <2>5. at \in {"queue", "exited", "thrown", "undefined"} \cup MenuChoices
    BY DEF IInv, Prompt
  <2>6. QED
    BY <2>2, <2>3, <2>4, <2>5 DEF IInv, TypeOK
<1>2. QED
  BY <1>1, IInvHolds, PTL

(* Closing a socket and posting its removal behind what was aborted is     *)
(* enough for one that was connected (LinuxIP::ReleaseSocket): when it is  *)
(* destroyed, nothing of it is left in the queue but a read of the closed  *)
(* socket, or an attempt to connect.                                       *)
THEOREM RemovedSocketsAreQuiet == Spec => []QuietAfterRemoval
<1>1. IInv => QuietAfterRemoval
  <2>. SUFFICES ASSUME IInv, NEW i \in DOMAIN queue, queue[i].of # 0, ~Listed(queue[i].of)
                PROVE  \/ queue[i].kind = "bad_descriptor"
                       \/ /\ queue[i].kind \in {"resolved", "connected", "reset", "refused", "connect_aborted"}
                          /\ sockets[queue[i].of].kind = "tcp" /\ sockets[queue[i].of].layer = "down"
    BY DEF QuietAfterRemoval
  <2>. DEFINE h == queue[i]
  <2>1. /\ queue \in Seq(Handlers) /\ DOMAIN sockets = 1..Len(sockets) /\ Len(sockets) \in Nat
        /\ DOMAIN queue = 1..Len(queue) /\ World.queue = queue /\ World.sockets = sockets
    BY WorldIs, LenProperties DEF IInv
  <2>2. h \in Handlers /\ h.of <= Len(sockets) /\ Waits(queue, h.of, h.kind)
    BY <2>1, ElementOfSeq DEF IInv, WInv, Waits
  <2>. DEFINE k == h.of
  <2>3. k \in 1..Len(sockets) /\ h.kind \in Completions \cup Removals
    <3>1. h.of \in Nat \ {0} /\ h.kind \in Completions \cup Removals
      BY <2>2 DEF Handlers
    <3>2. QED
      BY <2>1, <2>2, <3>1
  <2>4. Sound(sockets[k], queue, k, mode) /\ ~sockets[k].listed
    BY <2>1, <2>3, WorldIs DEF IInv, Listed
  <2>5. h.kind \notin Removals \cup Deliveries
    BY <2>2, <2>4 DEF Sound, Gone
  <2>6. h.kind \in Attempts => sockets[k].kind = "tcp" /\ sockets[k].layer = "down"
    BY <2>2, <2>4 DEF Sound, AttemptsAreTcp
  <2>7. QED
    BY <2>3, <2>5, <2>6 DEF Completions, Attempts
<1>2. QED
  BY <1>1, IInvHolds, PTL

(* However connections are made, fail and are used: a client follows a     *)
(* stray pointer only after the user has disconnected or released, and     *)
(* dies of an exception only after that, at the end of the input, or when  *)
(* the peer reset a connection before it was looked at (remote_endpoint)   *)
(* or answered with a value of another type (OnGetConfirmation).           *)
THEOREM ConnectingIsHarmless == Spec => []ConnectingIsSafe
<1>1. IInv => ConnectingIsSafe
  BY DEF IInv, Untouched, ConnectingIsSafe
<1>2. QED
  BY <1>1, IInvHolds, PTL

(* The menu asks the pointer m_pSocket whether it may send a request, and  *)
(* sends it through the engine, which is another pointer; the request      *)
(* still goes through the open socket that was asked for, which exists.    *)
THEOREM RequestsGoThroughOwnSocket == Spec => RequestsUseOwnSocket
<1>1. IInv /\ [Next]_vars => [RequestStep]_vars
  BY IInvNext
<1>2. QED
  BY <1>1, IInvHolds, PTL DEF Spec, RequestsUseOwnSocket, RequestStep
=============================================================================
