------------------------- MODULE SerialSocketProofs -------------------------
(***************************************************************************)
(* Theorems about SerialSocket, for any sizes and numbers of reads and any *)
(* number of bytes: no byte is lost or made up, a late expiry reaches at   *)
(* most the next read, and a socket is removed when its last read has      *)
(* ended or has only the closed port to run into.                          *)
(* All of it follows from the order in which handlers can be queued.       *)
(***************************************************************************)
EXTENDS SerialSocket, SequenceTheorems, FiniteSetTheorems, TLAPS

Types ==
  /\ at \in {"queue", "moved", "user", "terminated"}
  /\ queue \in Seq(Item)
  /\ isOpen \in BOOLEAN /\ removed \in BOOLEAN
  /\ read \in {"none", "waiting", "queued"}
  /\ want \in Wants \cup {0} /\ got \in Nat /\ timed \in BOOLEAN
  /\ timer \in {"off", "armed", "due"} /\ armedFor \in 0..MaxReads
  /\ arrived \in 0..MaxBytes /\ line \in Nat /\ gone \in BOOLEAN
  /\ buffered \in Nat /\ taken \in Nat
  /\ reads \in 0..MaxReads /\ answered \in 0..reads

(* Bytes: those of the read under way are still in the buffer.             *)
Bytes ==
  /\ arrived = line + buffered + taken
  /\ read # "none" => got <= want /\ got <= buffered

(* The read under way is the last one started, and the only one that was   *)
(* not answered; the timer, if it runs, is its.                            *)
Reads ==
  /\ read # "none" => answered = reads - 1
  /\ isOpen /\ read = "none" => answered = reads
  /\ at = "moved" => read # "none"
  /\ read = "waiting" => isOpen
  /\ removed => ~isOpen
  /\ timer # "off" => armedFor = reads

(* Handlers that end a read, or carry it on.                               *)
Completions == {"moved", "eof", "bad_descriptor", "aborted"}

(* What a handler in the queue says of the state.                          *)
Fits(a) ==
  /\ a.kind \in Completions => read = "queued" /\ at # "moved"
  /\ a.kind = "ready" /\ isOpen => read = "waiting" /\ at # "moved"
  /\ a.kind = "expiry" => \/ a.of = reads
                          \/ a.of = reads - 1 /\ (isOpen => read # "none" /\ at # "moved")
  /\ a.kind = "aborted" => a.by \in {0, a.of - 1, a.of}
  /\ a.kind \in {"remove", "bad_descriptor"} => ~isOpen
  /\ removed => a.kind \notin {"moved", "eof", "aborted"}

(* What may be queued behind what.                                         *)
Before(a, b) ==
  /\ ~(a.kind \in Completions /\ b.kind \in Completions)
  /\ a.kind = "reactor" => b.kind \notin {"reactor", "ready", "expiry"}
  /\ a.kind = "ready" => b.kind # "ready"
  /\ a.kind = "expiry" => b.kind \notin {"ready", "expiry"}
  /\ a.kind = "remove" => b.kind \notin {"moved", "eof", "aborted"}
  /\ b.kind = "expiry" /\ a.kind \in Completions \cup {"ready"} /\ isOpen => b.of = reads

Has(q, a) == \E i \in 1..Len(q) : q[i] = a
Precedes(q, a, b) == \E i, j \in 1..Len(q) : i < j /\ q[i] = a /\ q[j] = b

Order ==
  /\ \A a \in Item : Has(queue, a) => Fits(a)
  /\ \A a, b \in Item : Precedes(queue, a, b) => Before(a, b)
  /\ Has(queue, Reactor)

IInv == Types /\ Bytes /\ Reads /\ Order
-----------------------------------------------------------------------------
(* Queues.                                                                 *)

(* Taking the first handler.                                               *)
LEMMA TailHas ==
  ASSUME NEW q \in Seq(Item), q # <<>>
  PROVE  /\ Head(q) \in Item /\ Tail(q) \in Seq(Item)
         /\ Has(q, Head(q))
         /\ \A a \in Item : Has(Tail(q), a) => Has(q, a) /\ Precedes(q, Head(q), a)
         /\ \A a \in Item : Has(q, a) => a = Head(q) \/ Has(Tail(q), a)
         /\ \A a, b \in Item : Precedes(Tail(q), a, b) => Precedes(q, a, b)
<1>1. /\ Head(q) \in Item /\ Tail(q) \in Seq(Item) /\ Head(q) = q[1]
      /\ Len(q) \in Nat /\ Len(q) > 0 /\ Len(Tail(q)) = Len(q) - 1
      /\ \A i \in 1..Len(Tail(q)) : Tail(q)[i] = q[i + 1]
  BY HeadTailProperties, EmptySeq, LenProperties
<1>2. \A i \in 1..Len(Tail(q)) : i \in Int /\ i + 1 \in 1..Len(q) /\ 1 < i + 1
  BY <1>1
<1>3. 1 \in 1..Len(q)
  BY <1>1
<1>4. Has(q, Head(q))
  BY <1>1, <1>3 DEF Has
<1>5. ASSUME NEW a \in Item, Has(Tail(q), a)
      PROVE  Has(q, a) /\ Precedes(q, Head(q), a)
  BY <1>1, <1>2, <1>3, <1>5 DEF Has, Precedes
<1>6. ASSUME NEW a \in Item, Has(q, a), a # Head(q)
      PROVE  Has(Tail(q), a)
  <2>1. PICK i \in 1..Len(q) : q[i] = a
    BY <1>6 DEF Has
  <2>2. i # 1
    BY <1>1, <1>6, <2>1
  <2>3. i - 1 \in 1..Len(Tail(q)) /\ (i - 1) + 1 = i
    BY <1>1, <2>1, <2>2
  <2>4. Tail(q)[i - 1] = a
    BY <1>1, <2>1, <2>3
  <2>5. QED
    BY <2>3, <2>4 DEF Has
<1>7. ASSUME NEW a \in Item, NEW b \in Item, Precedes(Tail(q), a, b)
      PROVE  Precedes(q, a, b)
  <2>1. PICK i, j \in 1..Len(Tail(q)) : i < j /\ Tail(q)[i] = a /\ Tail(q)[j] = b
    BY <1>7 DEF Precedes
  <2>2. i + 1 < j + 1
    BY <1>2, <2>1
  <2>3. QED
    BY <1>1, <1>2, <2>1, <2>2 DEF Precedes
<1>8. QED
  BY <1>1, <1>4, <1>5, <1>6, <1>7

(* Queueing a handler.                                                     *)
LEMMA AppendHas ==
  ASSUME NEW q \in Seq(Item), NEW x \in Item
  PROVE  /\ Append(q, x) \in Seq(Item)
         /\ Has(Append(q, x), x)
         /\ \A a \in Item : Has(q, a) => Has(Append(q, x), a)
         /\ \A a \in Item : Has(Append(q, x), a) => a = x \/ Has(q, a)
         /\ \A a, b \in Item :
              Precedes(Append(q, x), a, b) => Precedes(q, a, b) \/ (Has(q, a) /\ b = x)
<1> DEFINE r == Append(q, x)
<1>1. /\ r \in Seq(Item) /\ Len(r) = Len(q) + 1 /\ Len(q) \in Nat
      /\ \A i \in 1..Len(q) : r[i] = q[i]
      /\ r[Len(q) + 1] = x
  BY AppendProperties, LenProperties
<1>2. \A i \in 1..Len(r) : i \in 1..Len(q) \/ i = Len(q) + 1
  BY <1>1
<1>3. Len(q) + 1 \in 1..Len(r) /\ \A i \in 1..Len(q) : i \in 1..Len(r)
  BY <1>1
<1> HIDE DEF r
<1>4. Has(r, x) /\ \A a \in Item : Has(q, a) => Has(r, a)
  BY <1>1, <1>3 DEF Has
<1>5. \A a \in Item : Has(r, a) => a = x \/ Has(q, a)
  BY <1>1, <1>2 DEF Has
<1>6. ASSUME NEW a \in Item, NEW b \in Item, Precedes(r, a, b)
      PROVE  Precedes(q, a, b) \/ (Has(q, a) /\ b = x)
  <2>1. PICK i, j \in 1..Len(r) : i < j /\ r[i] = a /\ r[j] = b
    BY <1>6 DEF Precedes
  <2>2. i \in 1..Len(q)
    BY <1>1, <1>2, <2>1
  <2>3. CASE j \in 1..Len(q)
    BY <1>1, <2>1, <2>2, <2>3 DEF Precedes
  <2>4. CASE j = Len(q) + 1
    BY <1>1, <2>1, <2>2, <2>4 DEF Has
  <2>5. QED
    BY <1>2, <2>3, <2>4
<1>7. QED
  BY <1>1, <1>4, <1>5, <1>6 DEF r
-----------------------------------------------------------------------------
(* Steps that the actions share.                                           *)

LEMMA HandlerTypes ==
  /\ Reactor \in Item /\ Reactor.kind = "reactor"
  /\ \A kind \in {"other", "ready", "moved", "eof", "bad_descriptor", "aborted", "expiry", "remove"},
        of \in 0..MaxReads, by \in 0..MaxReads :
        /\ Handler(kind, of, by) \in Item
        /\ Handler(kind, of, by).kind = kind
        /\ Handler(kind, of, by).of = of /\ Handler(kind, of, by).by = by
BY BoundsAssumption DEF Handler, Item, Reactor

(* The first handler, and the ones behind it.                              *)
LEMMA FirstHandler ==
  ASSUME IInv, at = "queue"
  PROVE  /\ queue \in Seq(Item) /\ queue # <<>>
         /\ Head(queue) \in Item /\ Fits(Head(queue))
         /\ Tail(queue) \in Seq(Item)
         /\ \A a \in Item : Has(Tail(queue), a) => Fits(a) /\ Before(Head(queue), a)
         /\ \A a, b \in Item : Precedes(Tail(queue), a, b) => Before(a, b)
         /\ Head(queue).kind # "reactor" => Has(Tail(queue), Reactor)
<1>1. queue \in Seq(Item) /\ Has(queue, Reactor)
  BY DEF IInv, Types, Order
<1>2. queue # <<>>
  BY <1>1 DEF Has
<1>3. QED
  BY <1>1, <1>2, TailHas, HandlerTypes DEF IInv, Order

(* Nothing that the queue tells of has changed.                            *)
LEMMA SameOrder ==
  ASSUME Order, UNCHANGED <<queue, read, isOpen, reads, removed>>, at # "moved", at' # "moved"
  PROVE  Order'
<1>1. ASSUME NEW a \in Item, Fits(a) PROVE Fits(a)'
  BY <1>1 DEF Fits
<1>2. ASSUME NEW a \in Item, NEW b \in Item, Before(a, b) PROVE Before(a, b)'
  BY <1>2 DEF Before
<1>3. QED
  BY <1>1, <1>2 DEF Order

LEMMA WantsAreCounts == Wants \cup {0} \subseteq Nat
BY WantsAssumption

(* A system call moves what it finds, and no more than is wanted.          *)
LEMMA BytesMove ==
  ASSUME Types, arrived = line + buffered + taken,
         NEW n \in Nat, NEW h \in Nat, h <= n, h <= buffered, MoveBytes(n, h)
  PROVE  /\ arrived' = line' + buffered' + taken'
         /\ line' \in Nat /\ buffered' \in Nat /\ got' \in Nat
         /\ got' <= n /\ got' <= buffered'
         /\ UNCHANGED <<arrived, gone, taken>>
<1> DEFINE moved == IF line < n - h THEN line ELSE n - h
<1>1. line \in Nat /\ buffered \in Nat /\ taken \in Nat
  BY DEF Types
<1>2. moved \in Nat /\ moved <= line /\ moved <= n - h
  BY <1>1
<1>3. /\ line' = line - moved /\ got' = h + moved /\ buffered' = buffered + moved
      /\ UNCHANGED <<arrived, gone, taken>>
  BY DEF MoveBytes
<1> HIDE DEF moved
<1>4. QED
  BY <1>1, <1>2, <1>3

(* async_read_some(): nothing was queued to complete before.               *)
LEMMA SomeTried ==
  ASSUME Types, arrived = line + buffered + taken,
         NEW id \in 0..MaxReads, NEW n \in Nat, NEW h \in Nat, h <= n, h <= buffered,
         TrySome(id, n, h)
  PROVE  /\ arrived' = line' + buffered' + taken'
         /\ line' \in Nat /\ buffered' \in Nat /\ got' \in Nat
         /\ got' <= n /\ got' <= buffered'
         /\ UNCHANGED <<arrived, gone, taken>>
         /\ \/ read' = "waiting" /\ isOpen /\ queue' = queue
            \/ /\ read' = "queued"
               /\ \E kind \in {"moved", "eof", "bad_descriptor"} :
                    /\ queue' = Append(queue, Handler(kind, id, 0))
                    /\ kind = "bad_descriptor" <=> ~isOpen
<1>1. CASE isOpen /\ line > 0
  <2>1. /\ MoveBytes(n, h)
        /\ read' = "queued" /\ queue' = Append(queue, Handler("moved", id, 0))
    BY <1>1 DEF TrySome
  <2>2. QED
    BY <1>1, <2>1, BytesMove
<1>2. CASE ~(isOpen /\ line > 0)
  <2>1. got' = h /\ UNCHANGED <<arrived, line, gone, buffered, taken>>
    BY <1>2 DEF TrySome, input, buffers
  <2>2. \/ read' = "waiting" /\ isOpen /\ queue' = queue
        \/ read' = "queued" /\ ~isOpen /\ queue' = Append(queue, Handler("bad_descriptor", id, 0))
        \/ read' = "queued" /\ isOpen /\ queue' = Append(queue, Handler("eof", id, 0))
    BY <1>2 DEF TrySome
  <2>3. line \in Nat /\ buffered \in Nat
    BY DEF Types
  <2>4. QED
    BY <2>1, <2>2, <2>3
<1>3. QED
  BY <1>1, <1>2
-----------------------------------------------------------------------------
(* Handlers that take themselves out of the queue and queue nothing.       *)

LEMMA PopOrder ==
  ASSUME IInv, at = "queue", queue' = Tail(queue), Head(queue).kind # "reactor",
         \A a \in Item : Fits(a) /\ Before(Head(queue), a) => Fits(a)',
         isOpen' = isOpen, reads' = reads
  PROVE  Order' /\ queue' \in Seq(Item)
<1>1. ASSUME NEW a \in Item, NEW b \in Item, Before(a, b) PROVE Before(a, b)'
  BY <1>1 DEF Before
<1>2. QED
  BY <1>1, FirstHandler, HandlerTypes DEF Order

LEMMA OtherStep == ASSUME IInv, RunOther PROVE IInv'
<1>1. /\ at = "queue" /\ Head(queue).kind = "other" /\ queue' = Tail(queue) /\ at' = "user"
      /\ UNCHANGED <<isOpen, removed, read, want, timed, reads, got, timer, armedFor,
                     arrived, line, gone, buffered, taken, answered>>
  BY DEF RunOther, Handles, port, request, clock, input, buffers
<1>2. \A a \in Item : Fits(a) => Fits(a)'
  BY <1>1 DEF Fits
<1>3. Order' /\ queue' \in Seq(Item)
  BY <1>1, <1>2, PopOrder
<1>4. Types'
  BY <1>1, <1>3 DEF IInv, Types
<1>5. Bytes' /\ Reads'
  BY <1>1 DEF IInv, Bytes, Reads
<1>6. QED
  BY <1>3, <1>4, <1>5 DEF IInv

LEMMA ReadyStep == ASSUME IInv, RunReady PROVE IInv'
<1>1. /\ at = "queue" /\ Head(queue).kind = "ready" /\ queue' = Tail(queue)
      /\ UNCHANGED <<isOpen, removed, want, timed, reads, armedFor>>
  BY DEF RunReady, Handles, port, request, Answer, CancelTimer, clock
<1>2. CASE read = "waiting" /\ line > 0
  <2>1. /\ MoveBytes(want, got) /\ at' = "moved"
        /\ UNCHANGED <<read, timer, answered>>
    BY <1>2 DEF RunReady, clock
  <2>2. got <= want /\ got <= buffered /\ want \in Nat /\ got \in Nat
    BY <1>2, WantsAreCounts DEF IInv, Bytes, Types
  <2>3. /\ arrived' = line' + buffered' + taken'
        /\ line' \in Nat /\ buffered' \in Nat /\ got' \in Nat
        /\ got' <= want /\ got' <= buffered'
        /\ UNCHANGED <<arrived, gone, taken>>
    BY <2>1, <2>2, BytesMove DEF IInv, Bytes
  <2>4. isOpen
    BY <1>2 DEF IInv, Reads
  <2>5. \A a \in Item : Fits(a) /\ Before(Head(queue), a) => Fits(a)'
    BY <1>1, <1>2, <2>1, <2>4 DEF Fits, Before
  <2>6. Order' /\ queue' \in Seq(Item)
    BY <1>1, <2>5, PopOrder
  <2>7. Types'
    BY <1>1, <2>1, <2>3, <2>6 DEF IInv, Types
  <2>8. Bytes' /\ Reads'
    BY <1>1, <1>2, <2>1, <2>3, <2>4 DEF IInv, Bytes, Reads
  <2>9. QED
    BY <2>6, <2>7, <2>8 DEF IInv
<1>3. CASE ~(read = "waiting" /\ line > 0)
  <2>1. /\ UNCHANGED <<got, arrived, line, gone, buffered, taken>>
        /\ \/ /\ read = "waiting" /\ read' = "none" /\ timer' = "off"
              /\ answered' = answered + 1 /\ at' = "user"
           \/ /\ ~(read = "waiting" /\ gone)
              /\ UNCHANGED <<at, read, timer, answered>>
    BY <1>3 DEF RunReady, Answer, CancelTimer, clock, input, buffers
  <2>2. \A a \in Item : Fits(a) /\ Before(Head(queue), a) => Fits(a)'
    BY <1>1, <2>1 DEF Fits, Before
  <2>3. Order' /\ queue' \in Seq(Item)
    BY <1>1, <2>2, PopOrder
  <2>4. answered' \in 0..reads
    BY <2>1 DEF IInv, Types, Reads
  <2>5. Types'
    BY <1>1, <2>1, <2>3, <2>4 DEF IInv, Types
  <2>6. Bytes'
    BY <1>1, <2>1 DEF IInv, Bytes
  <2>7. Reads'
    BY <1>1, <2>1 DEF IInv, Reads, Types
  <2>8. QED
    BY <2>3, <2>5, <2>6, <2>7 DEF IInv
<1>4. QED
  BY <1>2, <1>3

LEMMA MovedStep == ASSUME IInv, RunMoved PROVE IInv'
<1>1. /\ at = "queue" /\ Head(queue).kind = "moved" /\ queue' = Tail(queue) /\ at' = "moved"
      /\ UNCHANGED <<isOpen, removed, read, want, timed, reads, got, timer, armedFor,
                     arrived, line, gone, buffered, taken, answered>>
  BY DEF RunMoved, Handles, port, request, clock, input, buffers
<1>2. read = "queued"
  BY <1>1, FirstHandler DEF Fits, Completions
<1>3. \A a \in Item : Fits(a) /\ Before(Head(queue), a) => Fits(a)'
  BY <1>1, <1>2 DEF Fits, Before, Completions
<1>4. Order' /\ queue' \in Seq(Item)
  BY <1>1, <1>3, PopOrder
<1>5. Types'
  BY <1>1, <1>4 DEF IInv, Types
<1>6. Bytes' /\ Reads'
  BY <1>1, <1>2 DEF IInv, Bytes, Reads
<1>7. QED
  BY <1>4, <1>5, <1>6 DEF IInv

LEMMA FailedStep == ASSUME IInv, RunFailed PROVE IInv'
<1>1. /\ at = "queue" /\ Head(queue).kind \in {"eof", "aborted"} /\ queue' = Tail(queue)
      /\ at' = "user" /\ read' = "none" /\ timer' = "off" /\ answered' = answered + 1
      /\ UNCHANGED <<isOpen, removed, want, timed, reads, got, armedFor,
                     arrived, line, gone, buffered, taken>>
  BY DEF RunFailed, Handles, Answer, CancelTimer, port, request, input, buffers
<1>2. read = "queued"
  BY <1>1, FirstHandler DEF Fits, Completions
<1>3. \A a \in Item : Fits(a) /\ Before(Head(queue), a) => Fits(a)'
  BY <1>1, <1>2 DEF Fits, Before, Completions
<1>4. Order' /\ queue' \in Seq(Item)
  BY <1>1, <1>3, PopOrder
<1>5. answered' = reads /\ reads \in Nat
  BY <1>1, <1>2 DEF IInv, Types, Reads
<1>6. Types'
  BY <1>1, <1>4, <1>5 DEF IInv, Types
<1>7. Bytes' /\ Reads'
  BY <1>1, <1>5 DEF IInv, Bytes, Reads
<1>8. QED
  BY <1>4, <1>6, <1>7 DEF IInv

LEMMA BadDescriptorStep == ASSUME IInv, RunBadDescriptor PROVE IInv'
<1>1. /\ at = "queue" /\ Head(queue).kind = "bad_descriptor" /\ queue' = Tail(queue)
      /\ read' = "none"
      /\ UNCHANGED <<at, isOpen, removed, want, timed, reads, got, timer, armedFor,
                     arrived, line, gone, buffered, taken, answered>>
  BY DEF RunBadDescriptor, Handles, port, request, clock, input, buffers
<1>2. read = "queued"
  BY <1>1, FirstHandler DEF Fits, Completions
<1>3. \A a \in Item : Fits(a) /\ Before(Head(queue), a) => Fits(a)'
  BY <1>1, <1>2 DEF Fits, Before, Completions
<1>4. Order' /\ queue' \in Seq(Item)
  BY <1>1, <1>3, PopOrder
<1>5. ~isOpen
  BY <1>1, FirstHandler DEF Fits
<1>6. Types'
  BY <1>1, <1>4 DEF IInv, Types
<1>7. Bytes' /\ Reads'
  BY <1>1, <1>5 DEF IInv, Bytes, Reads
<1>8. QED
  BY <1>4, <1>6, <1>7 DEF IInv

LEMMA RemoveStep == ASSUME IInv, RunRemove PROVE IInv'
<1>1. /\ at = "queue" /\ Head(queue).kind = "remove" /\ queue' = Tail(queue)
      /\ removed' = TRUE /\ timer' = "off"
      /\ UNCHANGED <<at, isOpen, read, want, timed, reads, got, armedFor,
                     arrived, line, gone, buffered, taken, answered>>
  BY DEF RunRemove, Handles, request, input, buffers
<1>2. ~isOpen
  BY <1>1, FirstHandler DEF Fits
<1>3. \A a \in Item : Fits(a) /\ Before(Head(queue), a) => Fits(a)'
  BY <1>1, <1>2 DEF Fits, Before
<1>4. Order' /\ queue' \in Seq(Item)
  BY <1>1, <1>3, PopOrder
<1>5. Types'
  BY <1>1, <1>4 DEF IInv, Types
<1>6. Bytes' /\ Reads'
  BY <1>1, <1>2 DEF IInv, Bytes, Reads
<1>7. QED
  BY <1>4, <1>5, <1>6 DEF IInv
-----------------------------------------------------------------------------
(* The reactor's turn: what it queues comes in order.                      *)

InOrder(q) ==
  /\ \A a \in Item : Has(q, a) => Fits(a)
  /\ \A a, b \in Item : Precedes(q, a, b) => Before(a, b)
Lacks(q, kind) == \A a \in Item : Has(q, a) => a.kind # kind

LEMMA Pushed ==
  ASSUME NEW q \in Seq(Item), InOrder(q), NEW x \in Item, Fits(x),
         \A a \in Item : Has(q, a) => Before(a, x)
  PROVE  /\ q \o <<x>> \in Seq(Item) /\ InOrder(q \o <<x>>) /\ Has(q \o <<x>>, x)
         /\ \A a \in Item : Has(q \o <<x>>, a) => a = x \/ Has(q, a)
<1>1. q \o <<x>> = Append(q, x)
  BY AppendIsConcat
<1>2. /\ \A a \in Item : Has(Append(q, x), a) => Fits(a)
      /\ \A a, b \in Item : Precedes(Append(q, x), a, b) => Before(a, b)
  BY AppendHas DEF InOrder
<1>3. InOrder(Append(q, x))
  BY <1>2 DEF InOrder
<1>4. /\ Append(q, x) \in Seq(Item) /\ Has(Append(q, x), x)
      /\ \A a \in Item : Has(Append(q, x), a) => a = x \/ Has(q, a)
  BY AppendHas
<1>5. QED
  BY <1>1, <1>3, <1>4, Zenon

LEMMA OtherPushed ==
  ASSUME NEW q \in Seq(Item), InOrder(q), Lacks(q, "reactor"), Lacks(q, "expiry")
  PROVE  /\ Other \in Seq(Item) /\ q \o Other \in Seq(Item) /\ InOrder(q \o Other)
         /\ Lacks(q \o Other, "reactor") /\ Lacks(q \o Other, "expiry")
         /\ Lacks(q, "ready") => Lacks(q \o Other, "ready")
<1> DEFINE x == Handler("other", 0, 0)
<1>1. x \in Item /\ x.kind = "other"
  BY HandlerTypes, BoundsAssumption
<1>2. Fits(x) /\ \A a \in Item : Has(q, a) => Before(a, x)
  BY <1>1 DEF Fits, Before, Completions, Lacks
<1>3. Other = <<x>> /\ <<x>> \in Seq(Item)
  BY <1>1 DEF Other
<1> HIDE DEF x
<1>4. QED
  BY <1>1, <1>2, <1>3, Pushed DEF Lacks

LEMMA ReadyPushed ==
  ASSUME IInv, at = "queue", NEW q \in Seq(Item), InOrder(q),
         Lacks(q, "reactor"), Lacks(q, "expiry"), Lacks(q, "ready")
  PROVE  /\ Ready \in Seq(Item) /\ q \o Ready \in Seq(Item) /\ InOrder(q \o Ready)
         /\ Lacks(q \o Ready, "reactor") /\ Lacks(q \o Ready, "expiry")
<1>1. CASE isOpen /\ read = "waiting" /\ (line > 0 \/ gone)
  <2> DEFINE x == Handler("ready", reads, 0)
  <2>1. x \in Item /\ x.kind = "ready"
    BY HandlerTypes, BoundsAssumption DEF IInv, Types
  <2>2. Fits(x) /\ \A a \in Item : Has(q, a) => Before(a, x)
    BY <1>1, <2>1 DEF Fits, Before, Completions, Lacks
  <2>3. Ready = <<x>> /\ <<x>> \in Seq(Item)
    BY <1>1, <2>1 DEF Ready
  <2> HIDE DEF x
  <2>4. QED
    BY <2>1, <2>2, <2>3, Pushed DEF Lacks
<1>2. CASE ~(isOpen /\ read = "waiting" /\ (line > 0 \/ gone))
  <2>1. Ready = <<>> /\ q \o <<>> = q /\ <<>> \in Seq(Item)
    BY <1>2, ConcatEmptySeq DEF Ready
  <2>2. QED
    BY <2>1
<1>3. QED
  BY <1>1, <1>2

LEMMA ExpiryPushed ==
  ASSUME IInv, NEW q \in Seq(Item), InOrder(q), Lacks(q, "reactor"), Lacks(q, "expiry")
  PROVE  /\ q \o Expiry \in Seq(Item) /\ InOrder(q \o Expiry) /\ Lacks(q \o Expiry, "reactor")
<1>1. CASE timer = "due"
  <2> DEFINE x == Handler("expiry", armedFor, 0)
  <2>1. x \in Item /\ x.kind = "expiry" /\ x.of = reads
    BY <1>1, HandlerTypes, BoundsAssumption DEF IInv, Types, Reads
  <2>2. Fits(x) /\ \A a \in Item : Has(q, a) => Before(a, x)
    BY <1>1, <2>1 DEF Fits, Before, Completions, Lacks
  <2>3. Expiry = <<x>>
    BY <1>1 DEF Expiry
  <2> HIDE DEF x
  <2>4. QED
    BY <2>1, <2>2, <2>3, Pushed DEF Lacks
<1>2. CASE timer # "due"
  <2>1. Expiry = <<>> /\ q \o <<>> = q
    BY <1>2, ConcatEmptySeq DEF Expiry
  <2>2. QED
    BY <2>1
<1>3. QED
  BY <1>1, <1>2

LEMMA ReactorStep == ASSUME IInv, RunReactor PROVE IInv'
<1> DEFINE t == Tail(queue)
<1>1. /\ at = "queue" /\ Head(queue).kind = "reactor"
      /\ timer' \in {timer, "off"}
      /\ UNCHANGED <<at, isOpen, removed, read, want, timed, reads, got, armedFor,
                     arrived, line, gone, buffered, taken, answered>>
  BY DEF RunReactor, Handles, port, request, input, buffers
<1>2. PICK d \in {Ready, Other \o Ready, Ready \o Other} : queue' = t \o d \o Expiry \o <<Reactor>>
  BY DEF RunReactor
<1>3. /\ t \in Seq(Item) /\ InOrder(t)
      /\ Lacks(t, "reactor") /\ Lacks(t, "expiry") /\ Lacks(t, "ready")
  BY <1>1, FirstHandler DEF InOrder, Lacks, Before
<1> HIDE DEF t
<1>4. /\ t \o d \in Seq(Item) /\ InOrder(t \o d)
      /\ Lacks(t \o d, "reactor") /\ Lacks(t \o d, "expiry")
  <2>1. Other \in Seq(Item) /\ Ready \in Seq(Item)
    BY <1>1, <1>3, OtherPushed, ReadyPushed
  <2>2. CASE d = Ready
    BY <1>1, <1>3, <2>2, ReadyPushed
  <2>3. CASE d = Other \o Ready
    <3>1. t \o d = (t \o Other) \o Ready
      BY <1>3, <2>1, <2>3, ConcatAssociative
    <3>2. /\ t \o Other \in Seq(Item) /\ InOrder(t \o Other)
          /\ Lacks(t \o Other, "reactor") /\ Lacks(t \o Other, "expiry") /\ Lacks(t \o Other, "ready")
      BY <1>3, OtherPushed
    <3>3. QED
      BY <1>1, <3>1, <3>2, ReadyPushed
  <2>4. CASE d = Ready \o Other
    <3>1. t \o d = (t \o Ready) \o Other
      BY <1>3, <2>1, <2>4, ConcatAssociative
    <3>2. /\ t \o Ready \in Seq(Item) /\ InOrder(t \o Ready)
          /\ Lacks(t \o Ready, "reactor") /\ Lacks(t \o Ready, "expiry")
      BY <1>1, <1>3, ReadyPushed
    <3>3. QED
      BY <3>1, <3>2, OtherPushed
  <2>5. QED
    BY <2>2, <2>3, <2>4
<1>5. /\ t \o d \o Expiry \in Seq(Item) /\ InOrder(t \o d \o Expiry)
      /\ Lacks(t \o d \o Expiry, "reactor")
  BY <1>4, ExpiryPushed
<1>6. queue' \in Seq(Item) /\ InOrder(queue') /\ Has(queue', Reactor)
  <2>1. Fits(Reactor)
    BY <1>1, HandlerTypes DEF Fits, Completions
  <2>2. \A a \in Item : Has(t \o d \o Expiry, a) => Before(a, Reactor)
    BY <1>5, HandlerTypes DEF Before, Lacks, Completions
  <2>3. QED
    BY <1>2, <1>5, <2>1, <2>2, HandlerTypes, Pushed
<1>7. Order'
  <2>1. ASSUME NEW a \in Item, Fits(a) PROVE Fits(a)'
    BY <1>1, <2>1 DEF Fits
  <2>2. ASSUME NEW a \in Item, NEW b \in Item, Before(a, b) PROVE Before(a, b)'
    BY <1>1, <2>2 DEF Before
  <2>3. QED
    BY <1>6, <2>1, <2>2 DEF Order, InOrder
<1>8. Types'
  BY <1>1, <1>6 DEF IInv, Types
<1>9. Bytes' /\ Reads'
  BY <1>1 DEF IInv, Bytes, Reads
<1>10. QED
  BY <1>7, <1>8, <1>9 DEF IInv
-----------------------------------------------------------------------------
(* Steps that queue one handler behind the others, or none.                *)

LEMMA StayOrder ==
  ASSUME IInv, queue' = queue,
         \A a \in Item : Has(queue, a) => Fits(a)',
         \A a, b \in Item : Has(queue, a) /\ Before(a, b) => Before(a, b)'
  PROVE  Order' /\ queue' \in Seq(Item)
<1>1. \A a, b \in Item : Precedes(queue, a, b) => Has(queue, a)
  BY DEF Precedes, Has
<1>2. QED
  BY <1>1 DEF IInv, Types, Order

LEMMA PushOrder ==
  ASSUME NEW q \in Seq(Item), NEW x \in Item, queue' = Append(q, x),
         Has(q, Reactor), Fits(x)',
         \A a \in Item : Has(q, a) => Fits(a)' /\ Before(a, x)',
         \A a, b \in Item : Precedes(q, a, b) => Before(a, b)'
  PROVE  Order' /\ queue' \in Seq(Item)
BY AppendHas, HandlerTypes DEF Order

LEMMA QueueFacts ==
  ASSUME IInv
  PROVE  /\ queue \in Seq(Item) /\ Has(queue, Reactor)
         /\ \A a \in Item : Has(queue, a) => Fits(a)
         /\ \A a, b \in Item : Precedes(queue, a, b) => Before(a, b)
BY DEF IInv, Types, Order

LEMMA CompleteStep == ASSUME IInv, Complete PROVE IInv'
<1>1. at = "moved" /\ UNCHANGED <<isOpen, removed, want, timed, reads, armedFor>>
  BY DEF Complete, Answer, CancelTimer, port, request, clock
<1>2. /\ read # "none" /\ got <= want /\ got <= buffered /\ answered = reads - 1
      /\ want \in Nat /\ got \in Nat /\ reads \in 0..MaxReads
  BY <1>1, WantsAreCounts DEF IInv, Types, Bytes, Reads
<1>3. CASE got = want
  <2>1. /\ read' = "none" /\ timer' = "off" /\ at' = "user" /\ answered' = answered + 1
        /\ buffered' = buffered - want /\ taken' = taken + want
        /\ UNCHANGED <<queue, got, arrived, line, gone>>
    BY <1>3 DEF Complete, Answer, CancelTimer, input
  <2>2. \A a \in Item : Fits(a) => Fits(a)'
    BY <1>1, <2>1 DEF Fits
  <2>3. \A a, b \in Item : Before(a, b) => Before(a, b)'
    BY <1>1, <2>1 DEF Before
  <2>4. Order' /\ queue' \in Seq(Item)
    BY <2>1, <2>2, <2>3, QueueFacts, StayOrder
  <2>5. /\ buffered \in Nat /\ taken \in Nat /\ line \in Nat
        /\ arrived = line + buffered + taken
    BY DEF IInv, Types, Bytes
  <2>6. buffered' \in Nat /\ taken' \in Nat /\ arrived' = line' + buffered' + taken'
    BY <1>2, <1>3, <2>1, <2>5
  <2>7. answered' = reads /\ reads \in Nat
    BY <1>2, <2>1
  <2>8. Types'
    BY <1>1, <2>1, <2>4, <2>6, <2>7 DEF IInv, Types
  <2>9. Bytes' /\ Reads'
    BY <1>1, <2>1, <2>6, <2>7 DEF IInv, Bytes, Reads
  <2>10. QED
    BY <2>4, <2>8, <2>9 DEF IInv
<1>4. CASE got # want
  <2>1. TrySome(reads, want, got) /\ at' = "queue" /\ UNCHANGED <<timer, answered>>
    BY <1>4 DEF Complete, clock
  <2>2. /\ arrived' = line' + buffered' + taken'
        /\ line' \in Nat /\ buffered' \in Nat /\ got' \in Nat
        /\ got' <= want /\ got' <= buffered'
        /\ UNCHANGED <<arrived, gone, taken>>
        /\ \/ read' = "waiting" /\ isOpen /\ queue' = queue
           \/ /\ read' = "queued"
              /\ \E kind \in {"moved", "eof", "bad_descriptor"} :
                   /\ queue' = Append(queue, Handler(kind, reads, 0))
                   /\ kind = "bad_descriptor" <=> ~isOpen
    BY <1>2, <2>1, SomeTried DEF IInv, Bytes
  <2>3. \A a, b \in Item : Before(a, b) => Before(a, b)'
    BY <1>1 DEF Before
  <2>4. \A a \in Item : Fits(a) => Fits(a)' /\ a.kind \notin Completions
    BY <1>1, <2>1 DEF Fits
  <2>5. Order' /\ queue' \in Seq(Item)
    <3>1. CASE queue' = queue
      BY <2>3, <2>4, <3>1, QueueFacts, StayOrder
    <3>2. CASE queue' # queue
      <4>1. PICK kind \in {"moved", "eof", "bad_descriptor"} :
              /\ queue' = Append(queue, Handler(kind, reads, 0))
              /\ kind = "bad_descriptor" <=> ~isOpen
        BY <2>2, <3>2
      <4>2. PICK x \in Item : x = Handler(kind, reads, 0) /\ x.kind = kind
        BY <1>2, HandlerTypes, BoundsAssumption
      <4>3. read' = "queued" /\ (removed => ~isOpen)
        BY <2>2, <3>2 DEF IInv, Reads
      <4>4. Fits(x)'
        BY <1>1, <2>1, <4>1, <4>2, <4>3 DEF Fits, Completions
      <4>5. \A a \in Item : Fits(a) => Before(a, x)'
        BY <2>4, <4>1, <4>2 DEF Before, Fits, Completions
      <4>6. QED
        BY <2>3, <2>4, <4>1, <4>2, <4>4, <4>5, QueueFacts, PushOrder
    <3>3. QED
      BY <3>1, <3>2
  <2>6. line' \in Nat /\ taken' = taken /\ arrived' = arrived
    BY <2>2
  <2>7. Types'
    BY <1>1, <2>1, <2>2, <2>5 DEF IInv, Types
  <2>8. Bytes' /\ Reads'
    BY <1>1, <1>2, <2>1, <2>2 DEF IInv, Bytes, Reads
  <2>9. QED
    BY <2>5, <2>7, <2>8 DEF IInv
<1>5. QED
  BY <1>3, <1>4

(* m_Port.cancel(): a read that waits is aborted.                          *)
LEMMA CancelOrder ==
  ASSUME IInv, NEW q \in Seq(Item), NEW by \in 0..MaxReads, by \in {0, reads - 1, reads},
         isOpen,
         \A a \in Item : Has(q, a) => Fits(a) /\ (read = "waiting" /\ isOpen' => a.kind # "ready"),
         \A a, b \in Item : Precedes(q, a, b) => Before(a, b),
         Has(q, Reactor),
         NEW c, c = Cancelled(q, by), StopsWaiting,
         UNCHANGED <<removed, reads>>, isOpen' \in {isOpen, FALSE}, at # "moved", at' = at
  PROVE  /\ c \in Seq(Item) /\ Has(c, Reactor)
         /\ \A a \in Item : Has(c, a) => Fits(a)'
         /\ \A a, b \in Item : Precedes(c, a, b) => Before(a, b)'
<1>1. \A a, b \in Item : Before(a, b) => Before(a, b)'
  BY DEF Before
<1>2. ~removed
  BY DEF IInv, Reads
<1>3. CASE read = "waiting"
  <2>1. PICK x \in Item :
          x = Handler("aborted", reads, by) /\ x.kind = "aborted" /\ x.of = reads /\ x.by = by
    BY HandlerTypes DEF IInv, Types
  <2>2. c = Append(q, x) /\ read' = "queued"
    BY <1>3, <2>1 DEF Cancelled, StopsWaiting
  <2>3. Fits(x)'
    BY <1>2, <2>1, <2>2 DEF Fits, Completions
  <2>4. \A a \in Item : Has(q, a) => Fits(a)'
    BY <1>2, <1>3, <2>2 DEF Fits
  <2>5. \A a \in Item : Fits(a) => Before(a, x)'
    BY <1>2, <1>3, <2>1 DEF Fits, Before, Completions
  <2>6. QED
    BY <1>1, <2>1, <2>2, <2>3, <2>4, <2>5, AppendHas, HandlerTypes
<1>4. CASE read # "waiting"
  <2>1. c = q /\ read' = read
    BY <1>4 DEF Cancelled, StopsWaiting
  <2>2. \A a \in Item : Fits(a) => Fits(a)'
    BY <1>2, <1>4, <2>1 DEF Fits
  <2>3. QED
    BY <1>1, <2>1, <2>2
<1>5. QED
  BY <1>3, <1>4

LEMMA ExpiryStep == ASSUME IInv, RunExpiry PROVE IInv'
<1>1. /\ at = "queue" /\ Head(queue).kind = "expiry"
      /\ UNCHANGED <<isOpen, removed, want, timed, reads, got, timer, armedFor,
                     arrived, line, gone, buffered, taken, answered>>
  BY DEF RunExpiry, Handles, port, request, clock, input, buffers
<1>2. CASE isOpen
  <2>1. queue' = Cancelled(Tail(queue), Head(queue).of) /\ StopsWaiting /\ at' = at
    BY <1>2 DEF RunExpiry
  <2>2. Head(queue).of \in 0..MaxReads
    BY <1>1, FirstHandler DEF Item
  <2>3. Head(queue).of \in {0, reads - 1, reads}
    BY <1>1, FirstHandler DEF Fits
  <2>4. \A a \in Item : Has(Tail(queue), a) => a.kind # "ready"
    BY <1>1, FirstHandler DEF Before
  <2>5. Has(Tail(queue), Reactor)
    BY <1>1, FirstHandler
  <2>6. PICK of \in 0..MaxReads : of = Head(queue).of
    BY <2>2
  <2>7. PICK q \in Seq(Item) : q = Tail(queue)
    BY <1>1, FirstHandler
  <2>8. Order' /\ queue' \in Seq(Item)
    <3>1. /\ \A a \in Item : Has(q, a) => Fits(a) /\ a.kind # "ready"
          /\ \A a, b \in Item : Precedes(q, a, b) => Before(a, b)
          /\ Has(q, Reactor) /\ queue' = Cancelled(q, of) /\ of \in {0, reads - 1, reads}
      BY <1>1, <2>1, <2>3, <2>4, <2>5, <2>6, <2>7, FirstHandler
    <3>2. QED
      BY <1>1, <1>2, <2>1, <3>1, CancelOrder DEF Order
  <2>9. read' \in {"none", "waiting", "queued"} /\ (read' = "none" <=> read = "none")
        /\ (read' = "waiting" => read = "waiting")
    BY <2>1 DEF StopsWaiting, IInv, Types
  <2>10. Types'
    BY <1>1, <2>1, <2>8, <2>9 DEF IInv, Types
  <2>11. Bytes' /\ Reads'
    BY <1>1, <2>1, <2>9 DEF IInv, Bytes, Reads
  <2>12. QED
    BY <2>8, <2>10, <2>11 DEF IInv
<1>3. CASE ~isOpen
  <2>1. at' = "terminated" /\ queue' = Tail(queue) /\ read' = read
    BY <1>3 DEF RunExpiry
  <2>2. \A a \in Item : Fits(a) => Fits(a)'
    BY <1>1, <1>3, <2>1 DEF Fits
  <2>3. Order' /\ queue' \in Seq(Item)
    BY <1>1, <2>1, <2>2, PopOrder
  <2>4. Types'
    BY <1>1, <2>1, <2>3 DEF IInv, Types
  <2>5. Bytes' /\ Reads'
    BY <1>1, <2>1 DEF IInv, Bytes, Reads
  <2>6. QED
    BY <2>3, <2>4, <2>5 DEF IInv
<1>4. QED
  BY <1>2, <1>3

LEMMA ReadStep == ASSUME IInv, NEW n \in Wants, NEW t \in BOOLEAN, Read(n, t) PROVE IInv'
<1>1. /\ at = "user" /\ isOpen /\ read = "none" /\ reads < MaxReads
      /\ reads' = reads + 1 /\ want' = n /\ timed' = t
      /\ TrySome(reads', n, 0)
      /\ UNCHANGED <<at, isOpen, removed, answered>>
  BY DEF Read, port
<1>2. reads \in Nat /\ reads' \in 0..MaxReads /\ reads' - 1 = reads /\ MaxReads \in Nat
  BY <1>1, BoundsAssumption DEF IInv, Types
<1>3. /\ timer' \in {"off", "armed"} /\ armedFor' \in 0..MaxReads
      /\ timer' # "off" => armedFor' = reads'
  BY <1>2 DEF Read, CancelTimer, IInv, Types
<1>4. n \in Nat /\ 0 <= n /\ 0 <= buffered
  BY WantsAssumption DEF IInv, Types
<1>5. /\ arrived' = line' + buffered' + taken'
      /\ line' \in Nat /\ buffered' \in Nat /\ got' \in Nat
      /\ got' <= n /\ got' <= buffered'
      /\ UNCHANGED <<arrived, gone, taken>>
      /\ \/ read' = "waiting" /\ isOpen /\ queue' = queue
         \/ /\ read' = "queued"
            /\ \E kind \in {"moved", "eof", "bad_descriptor"} :
                 /\ queue' = Append(queue, Handler(kind, reads', 0))
                 /\ kind = "bad_descriptor" <=> ~isOpen
  BY <1>1, <1>2, <1>4, SomeTried DEF IInv, Bytes
<1>6. ~removed
  BY <1>1 DEF IInv, Reads
<1>7. \A a \in Item : Fits(a) => a.kind \notin Completions \cup {"ready"}
  BY <1>1 DEF Fits
<1>8. \A a \in Item : Fits(a) => Fits(a)'
  BY <1>1, <1>2, <1>5, <1>6, <1>7 DEF Fits
<1>9. \A a, b \in Item : Fits(a) /\ Before(a, b) => Before(a, b)'
  BY <1>1, <1>7 DEF Before
<1>10. Order' /\ queue' \in Seq(Item)
  <2>1. CASE queue' = queue
    BY <1>8, <1>9, <2>1, QueueFacts, StayOrder
  <2>2. CASE queue' # queue
    <3>1. PICK kind \in {"moved", "eof"} : queue' = Append(queue, Handler(kind, reads', 0))
      BY <1>1, <1>5, <2>2
    <3>2. PICK x \in Item : x = Handler(kind, reads', 0) /\ x.kind = kind
      BY <1>2, HandlerTypes, BoundsAssumption
    <3>3. Fits(x)'
      BY <1>1, <1>5, <1>6, <2>2, <3>1, <3>2 DEF Fits, Completions
    <3>4. \A a \in Item : Fits(a) => Before(a, x)'
      BY <1>1, <1>7, <3>1, <3>2 DEF Before, Fits, Completions
    <3>5. \A a, b \in Item : Precedes(queue, a, b) => Has(queue, a)
      BY DEF Precedes, Has
    <3>6. QED
      BY <1>8, <1>9, <3>1, <3>2, <3>3, <3>4, <3>5, QueueFacts, PushOrder
  <2>3. QED
    BY <2>1, <2>2
<1>11. answered = reads /\ answered' \in 0..reads' /\ answered' = reads' - 1
  BY <1>1, <1>2 DEF IInv, Reads
<1>12. Types'
  BY <1>1, <1>2, <1>3, <1>5, <1>10, <1>11 DEF IInv, Types
<1>13. Bytes' /\ Reads'
  BY <1>1, <1>3, <1>5, <1>6, <1>11 DEF IInv, Bytes, Reads
<1>14. QED
  BY <1>10, <1>12, <1>13 DEF IInv

LEMMA CloseStep == ASSUME IInv, Close \/ Release PROVE IInv'
<1>1. /\ at = "user" /\ isOpen /\ isOpen' = FALSE /\ StopsWaiting
      /\ UNCHANGED <<at, removed, want, timed, reads, got, timer, armedFor,
                     arrived, line, gone, buffered, taken, answered>>
  BY DEF Close, Release, request, clock, input, buffers
<1>2. PICK c : c = Cancelled(queue, 0)
  OBVIOUS
<1>3. 0 \in 0..MaxReads
  BY BoundsAssumption
<1>4. /\ c \in Seq(Item) /\ Has(c, Reactor)
      /\ \A a \in Item : Has(c, a) => Fits(a)'
      /\ \A a, b \in Item : Precedes(c, a, b) => Before(a, b)'
  BY <1>1, <1>2, <1>3, QueueFacts, CancelOrder
<1>5. Order' /\ queue' \in Seq(Item)
  <2>1. CASE Close
    BY <1>2, <1>4, <2>1 DEF Close, Order
  <2>2. CASE Release
    <3>1. PICK x \in Item : x = Handler("remove", 0, 0) /\ x.kind = "remove"
      BY <1>3, HandlerTypes
    <3>2. queue' = Append(c, x)
      BY <1>2, <2>2, <3>1 DEF Release
    <3>3. Fits(x)' /\ \A a \in Item : Before(a, x)'
      BY <1>1, <3>1 DEF Fits, Before, Completions
    <3>4. QED
      BY <1>4, <3>1, <3>2, <3>3, PushOrder
  <2>3. QED
    BY <2>1, <2>2
<1>6. read' \in {"none", "queued"} /\ (read' = "none" <=> read = "none")
  BY <1>1 DEF StopsWaiting, IInv, Types
<1>7. Types'
  BY <1>1, <1>5, <1>6 DEF IInv, Types
<1>8. Bytes' /\ Reads'
  BY <1>1, <1>6 DEF IInv, Bytes, Reads
<1>9. QED
  BY <1>5, <1>7, <1>8 DEF IInv
-----------------------------------------------------------------------------

(* The line, the clock, and the end of the user's code.                    *)
LEMMA QuietStep ==
  ASSUME IInv, Environment \/ TimeIsUp \/ Return \/ UNCHANGED vars
  PROVE  IInv'
<1>1. /\ UNCHANGED <<queue, isOpen, removed, read, want, timed, reads, got, armedFor,
                     buffered, taken, answered>>
      /\ at' = at \/ (at = "user" /\ at' = "queue")
  BY DEF Environment, ByteArrives, HangUp, TimeIsUp, Return, vars, port, request, clock, buffers, input
<1>2. timer' = timer \/ (timer = "armed" /\ timer' = "due")
  BY DEF Environment, ByteArrives, HangUp, TimeIsUp, Return, vars, clock
<1>3. /\ arrived' \in 0..MaxBytes /\ line' \in Nat /\ gone' \in BOOLEAN
      /\ arrived' = line' + buffered' + taken'
  <2>1. /\ arrived \in 0..MaxBytes /\ line \in Nat /\ gone \in BOOLEAN
        /\ arrived = line + buffered + taken /\ MaxBytes \in Nat
        /\ buffered \in Nat /\ taken \in Nat
    BY BoundsAssumption DEF IInv, Types, Bytes
  <2>2. CASE ByteArrives
    BY <1>1, <2>1, <2>2 DEF ByteArrives
  <2>3. CASE ~ByteArrives
    <3>1. UNCHANGED <<arrived, line>> /\ gone' \in {gone, TRUE}
      BY <2>3 DEF Environment, HangUp, TimeIsUp, Return, vars, input
    <3>2. QED
      BY <1>1, <2>1, <3>1
  <2>4. QED
    BY <2>2, <2>3
<1>4. \A a \in Item : Fits(a) => Fits(a)'
  BY <1>1 DEF Fits
<1>5. \A a, b \in Item : Before(a, b) => Before(a, b)'
  BY <1>1 DEF Before
<1>6. Order' /\ queue' \in Seq(Item)
  BY <1>1, <1>4, <1>5, QueueFacts, StayOrder
<1>7. Types'
  BY <1>1, <1>2, <1>3, <1>6 DEF IInv, Types
<1>8. Bytes' /\ Reads'
  BY <1>1, <1>2, <1>3 DEF IInv, Bytes, Reads
<1>9. QED
  BY <1>6, <1>7, <1>8 DEF IInv

LEMMA IInvInit == Init => IInv
<1> SUFFICES ASSUME Init PROVE IInv
  OBVIOUS
<1>1. queue = <<Reactor>> /\ queue \in Seq(Item) /\ Len(queue) = 1 /\ queue[1] = Reactor
  BY HandlerTypes DEF Init
<1>2. Types
  <2>1. 0 \in 0..MaxReads /\ 0 \in 0..MaxBytes /\ 0 \in 0..0 /\ 0 \in Nat
    BY BoundsAssumption
  <2>2. QED
    BY <1>1, <2>1 DEF Init, Types
<1>3. Bytes /\ Reads
  BY DEF Init, Bytes, Reads
<1>4. Has(queue, Reactor) /\ \A a \in Item : Has(queue, a) => a = Reactor
  BY <1>1 DEF Has
<1>5. \A a, b \in Item : ~Precedes(queue, a, b)
  BY <1>1 DEF Precedes
<1>6. Fits(Reactor)
  BY HandlerTypes DEF Fits, Completions, Init
<1>7. Order
  BY <1>4, <1>5, <1>6 DEF Order
<1>8. QED
  BY <1>2, <1>3, <1>7 DEF IInv

LEMMA IInvNext == IInv /\ [Next]_vars => IInv'
BY QuietStep, OtherStep, ReadyStep, MovedStep, FailedStep, BadDescriptorStep, RemoveStep,
   ReactorStep, CompleteStep, ExpiryStep, ReadStep, CloseStep DEF Next, Run, User

LEMMA IInvHolds == Spec => []IInv
BY IInvInit, IInvNext, PTL DEF Spec

(* What becomes of a read that is queued: its completion is in the queue,  *)
(* or runs; none runs on a socket that was removed.                        *)
Comes(q) == \E a \in Item : a.kind \in Completions /\ Has(q, a)
Outstanding ==
  /\ at = "moved" => ~removed
  /\ read = "queued" /\ at # "moved" => Comes(queue)

LEMMA ConcatComes ==
  ASSUME NEW q \in Seq(Item), NEW s \in Seq(Item), Comes(q)
  PROVE  q \o s \in Seq(Item) /\ Comes(q \o s)
<1>1. /\ q \o s \in Seq(Item) /\ Len(q \o s) = Len(q) + Len(s)
      /\ \A i \in 1..Len(q) : (q \o s)[i] = q[i]
      /\ Len(q) \in Nat /\ Len(s) \in Nat
  BY ConcatProperties, LenProperties
<1>2. \A i \in 1..Len(q) : i \in 1..Len(q \o s)
  BY <1>1
<1> DEFINE qs == q \o s
<1> HIDE DEF qs
<1>3. \A a \in Item : Has(q, a) => Has(qs, a)
  BY <1>1, <1>2 DEF Has, qs
<1>4. QED
  BY <1>1, <1>3 DEF Comes, qs

LEMMA AppendComes ==
  ASSUME NEW q \in Seq(Item), NEW x \in Item, Comes(q) \/ x.kind \in Completions
  PROVE  Comes(Append(q, x))
BY AppendHas DEF Comes

(* A handler that is no completion leaves the completion behind.           *)
LEMMA TailComes ==
  ASSUME IInv, at = "queue", Head(queue).kind \notin Completions, Comes(queue)
  PROVE  Comes(Tail(queue))
BY FirstHandler, TailHas DEF Comes

LEMMA CancelledComes ==
  ASSUME NEW q \in Seq(Item), NEW by \in 0..MaxReads, reads \in 0..MaxReads,
         read = "waiting" \/ Comes(q)
  PROVE  Cancelled(q, by) \in Seq(Item) /\ Comes(Cancelled(q, by))
<1>1. CASE read = "waiting"
  <2>1. PICK x \in Item : x = Handler("aborted", reads, by) /\ x.kind \in Completions
    BY HandlerTypes DEF Completions
  <2>2. Cancelled(q, by) = Append(q, x)
    BY <1>1, <2>1 DEF Cancelled
  <2>3. QED
    BY <2>1, <2>2, AppendComes, AppendHas
<1>2. CASE read # "waiting"
  BY <1>2 DEF Cancelled
<1>3. QED
  BY <1>1, <1>2

LEMMA OutstandingRun == ASSUME IInv, Outstanding, Run PROVE Outstanding'
<1>1. CASE RunReactor
  <2>1. /\ at = "queue" /\ at' = at /\ read' = read /\ Head(queue).kind \notin Completions
        /\ 0 \in 0..MaxReads /\ reads \in 0..MaxReads /\ armedFor \in 0..MaxReads
    BY <1>1, BoundsAssumption DEF RunReactor, Handles, Completions, IInv, Types
  <2>2. PICK d \in {Ready, Other \o Ready, Ready \o Other} :
          queue' = Tail(queue) \o d \o Expiry \o <<Reactor>>
    BY <1>1 DEF RunReactor
  <2>3. Ready \in Seq(Item) /\ Other \in Seq(Item) /\ Expiry \in Seq(Item) /\ <<Reactor>> \in Seq(Item)
    <3>1. /\ Handler("ready", reads, 0) \in Item /\ Handler("other", 0, 0) \in Item
          /\ Handler("expiry", armedFor, 0) \in Item /\ Reactor \in Item
      BY <2>1, HandlerTypes
    <3>2. QED
      BY <3>1 DEF Ready, Other, Expiry
  <2>4. d \in Seq(Item)
    BY <2>3, ConcatProperties
  <2>5. Comes(queue) => Comes(queue')
    <3>1. Tail(queue) \in Seq(Item)
      BY <2>1, FirstHandler
    <3>2. SUFFICES ASSUME Comes(queue) PROVE Comes(queue')
      OBVIOUS
    <3>3. Comes(Tail(queue))
      BY <2>1, <3>2, TailComes
    <3>4. Tail(queue) \o d \in Seq(Item) /\ Comes(Tail(queue) \o d)
      BY <2>4, <3>1, <3>3, ConcatComes
    <3>5. Tail(queue) \o d \o Expiry \in Seq(Item) /\ Comes(Tail(queue) \o d \o Expiry)
      BY <2>3, <3>4, ConcatComes
    <3>6. QED
      BY <2>2, <2>3, <3>5, ConcatComes
  <2>6. QED
    BY <2>1, <2>5 DEF Outstanding
<1>2. CASE RunOther \/ RunReady \/ RunRemove
  <2>1. /\ at = "queue" /\ queue' = Tail(queue) /\ Head(queue).kind \notin Completions
        /\ read' = "queued" => read = "queued"
    BY <1>2 DEF RunOther, RunReady, RunRemove, Handles, Completions, Answer
  <2>2. at' = "moved" => ~removed'
    <3>1. at' = "moved" => RunReady /\ read = "waiting" /\ removed' = removed
      BY <1>2, <2>1 DEF RunOther, RunReady, RunRemove, Answer, port
    <3>2. QED
      BY <3>1 DEF IInv, Reads
  <2>3. QED
    BY <2>1, <2>2, TailComes DEF Outstanding
<1>3. CASE RunMoved
  <2>1. at = "queue" /\ Head(queue).kind = "moved" /\ at' = "moved" /\ removed' = removed
    BY <1>3 DEF RunMoved, Handles, port
  <2>2. ~removed
    BY <2>1, FirstHandler DEF Fits
  <2>3. QED
    BY <2>1, <2>2 DEF Outstanding
<1>4. CASE RunFailed \/ RunBadDescriptor
  BY <1>4 DEF RunFailed, RunBadDescriptor, Handles, Answer, Outstanding
<1>5. CASE Complete
  <2>1. at = "moved" /\ ~removed /\ removed' = removed /\ at' # "moved"
    BY <1>5 DEF Complete, Answer, port, Outstanding
  <2>2. CASE got = want
    BY <1>5, <2>1, <2>2 DEF Complete, Answer, Outstanding
  <2>3. CASE got # want
    <3>1. TrySome(reads, want, got)
      BY <1>5, <2>3 DEF Complete
    <3>2. read' = "queued" => Comes(queue')
      <4>1. \A kind \in {"moved", "eof", "bad_descriptor"} :
              Handler(kind, reads, 0) \in Item /\ Handler(kind, reads, 0).kind \in Completions
        BY HandlerTypes, BoundsAssumption DEF IInv, Types, Completions
      <4>2. read' = "queued" => \E kind \in {"moved", "eof", "bad_descriptor"} :
                                  queue' = Append(queue, Handler(kind, reads, 0))
        BY <3>1 DEF TrySome
      <4>3. QED
        BY <4>1, <4>2, AppendComes, QueueFacts
    <3>3. QED
      BY <2>1, <3>2 DEF Outstanding
  <2>4. QED
    BY <2>2, <2>3
<1>6. CASE RunExpiry
  <2>1. at = "queue" /\ Head(queue).kind \notin Completions /\ at' # "moved"
    BY <1>6 DEF RunExpiry, Handles, Completions
  <2>2. /\ Tail(queue) \in Seq(Item) /\ Head(queue).of \in 0..MaxReads /\ reads \in 0..MaxReads
    BY <2>1, FirstHandler DEF Item, IInv, Types
  <2>3. CASE isOpen
    <3>1. queue' = Cancelled(Tail(queue), Head(queue).of) /\ StopsWaiting
      BY <1>6, <2>3 DEF RunExpiry
    <3>2. read' = "queued" => read = "waiting" \/ Comes(Tail(queue))
      BY <2>1, <3>1, TailComes DEF StopsWaiting, Outstanding
    <3>3. QED
      BY <2>1, <2>2, <3>1, <3>2, CancelledComes DEF Outstanding
  <2>4. CASE ~isOpen
    BY <1>6, <2>1, <2>4, TailComes DEF RunExpiry, Outstanding
  <2>5. QED
    BY <2>3, <2>4
<1>7. QED
  BY <1>1, <1>2, <1>3, <1>4, <1>5, <1>6 DEF Run

LEMMA OutstandingUser == ASSUME IInv, Outstanding, User PROVE Outstanding'
<1>1. at = "user" /\ at' = at /\ queue \in Seq(Item) /\ 0 \in 0..MaxReads /\ reads \in 0..MaxReads
  BY BoundsAssumption DEF User, Read, Close, Release, IInv, Types
<1>2. CASE \E n \in Wants, t \in BOOLEAN : Read(n, t)
  <2>1. PICK n \in Wants : TrySome(reads', n, 0) /\ reads' = reads + 1 /\ reads < MaxReads
    BY <1>2 DEF Read
  <2>2. \A kind \in {"moved", "eof", "bad_descriptor"} :
          Handler(kind, reads', 0) \in Item /\ Handler(kind, reads', 0).kind \in Completions
    BY <1>1, <2>1, HandlerTypes, BoundsAssumption DEF Completions
  <2>3. read' = "queued" => \E kind \in {"moved", "eof", "bad_descriptor"} :
                              queue' = Append(queue, Handler(kind, reads', 0))
    BY <2>1 DEF TrySome
  <2>4. QED
    BY <1>1, <2>2, <2>3, AppendComes DEF Outstanding
<1>3. CASE Close \/ Release
  <2>1. StopsWaiting /\ (queue' = Cancelled(queue, 0)
                         \/ queue' = Append(Cancelled(queue, 0), Handler("remove", 0, 0)))
    BY <1>3 DEF Close, Release
  <2>2. SUFFICES ASSUME read' = "queued" PROVE Comes(queue')
    BY <1>1 DEF Outstanding
  <2>3. Cancelled(queue, 0) \in Seq(Item) /\ Comes(Cancelled(queue, 0))
    BY <1>1, <2>1, <2>2, CancelledComes DEF StopsWaiting, Outstanding
  <2>4. Handler("remove", 0, 0) \in Item
    BY <1>1, HandlerTypes
  <2>5. Comes(Append(Cancelled(queue, 0), Handler("remove", 0, 0)))
    BY <2>3, <2>4, AppendComes
  <2>6. QED
    BY <2>1, <2>3, <2>5
<1>4. QED
  BY <1>2, <1>3 DEF User

LEMMA OutstandingHolds == Spec => []Outstanding
<1>1. Init => Outstanding
  BY DEF Init, Outstanding
<1>2. IInv /\ Outstanding /\ [Next]_vars => Outstanding'
  <2> SUFFICES ASSUME IInv, Outstanding, [Next]_vars PROVE Outstanding'
    OBVIOUS
  <2>1. CASE Environment \/ TimeIsUp \/ Return \/ UNCHANGED vars
    <3>1. UNCHANGED <<queue, read, removed>> /\ (at' = at \/ (at = "user" /\ at' = "queue"))
      BY <2>1 DEF Environment, ByteArrives, HangUp, TimeIsUp, Return, vars, port
    <3>2. QED
      BY <3>1 DEF Outstanding
  <2>2. QED
    BY <2>1, OutstandingRun, OutstandingUser DEF Next
<1>3. QED
  BY <1>1, <1>2, IInvHolds, PTL DEF Spec

LEMMA OneReactor == ASSUME IInv PROVE Cardinality(Queued("reactor")) = 1
<1>1. queue \in Seq(Item) /\ DOMAIN queue = 1..Len(queue) /\ Len(queue) \in Nat
  BY LenProperties DEF IInv, Types
<1>2. PICK i \in 1..Len(queue) : queue[i] = Reactor
  BY DEF IInv, Order, Has
<1>3. ASSUME NEW j \in 1..Len(queue), queue[j].kind = "reactor" PROVE j = i
  <2>1. queue[i] \in Item /\ queue[j] \in Item /\ queue[i].kind = "reactor"
    BY <1>1, <1>2, ElementOfSeq, HandlerTypes
  <2>2. ~(i < j) /\ ~(j < i)
    <3>1. ~Before(queue[i], queue[j]) /\ ~Before(queue[j], queue[i])
      BY <1>3, <2>1 DEF Before
    <3>2. ~Precedes(queue, queue[i], queue[j]) /\ ~Precedes(queue, queue[j], queue[i])
      BY <2>1, <3>1, QueueFacts
    <3>3. QED
      BY <3>2 DEF Precedes
  <2>3. QED
    BY <2>2
<1>4. Queued("reactor") = {i}
  BY <1>1, <1>2, <1>3, HandlerTypes DEF Queued
<1>5. QED
  BY <1>4, FS_Singleton

(* Types, and that the reactor waits its turn exactly once: every handler  *)
(* of LinuxSerialSocket is run in its place.                               *)
THEOREM TypeCorrect == Spec => []TypeOK
<1>1. ASSUME IInv PROVE TypeOK
  <2>1. line \in 0..MaxBytes
    BY <1>1, BoundsAssumption DEF IInv, Types, Bytes
  <2>2. isOpen => (read = "none" <=> answered = reads)
    BY <1>1 DEF IInv, Types, Reads
  <2>3. QED
    BY <1>1, <2>1, <2>2, OneReactor DEF IInv, Types, TypeOK
<1>2. QED
  BY <1>1, IInvHolds, PTL

(* Composed reads that are resumed, aborted or cut short by Close() lose   *)
(* no byte and make none up (ASIO_Read_Handler, AppendAsyncReadResult).    *)
THEOREM NoByteIsLost == Spec => []EveryByteOnce
<1>1. ASSUME IInv PROVE EveryByteOnce
  BY <1>1 DEF IInv, Types, Bytes, EveryByteOnce
<1>2. QED
  BY <1>1, IInvHolds, PTL

(* ASIO_Read_Timeout aborts the read it was set up for or the one after    *)
(* it, no other, whatever was queued in between.                           *)
THEOREM LateExpiryIsNear == Spec => []LateExpiryHitsNext
<1>1. ASSUME IInv PROVE LateExpiryHitsNext
  <2>1. ASSUME NEW i \in Queued("aborted")
        PROVE  queue[i].by \in {0, queue[i].of - 1, queue[i].of}
    <3>1. queue[i] \in Item /\ queue[i].kind = "aborted" /\ Has(queue, queue[i])
      BY <1>1, QueueFacts, LenProperties, ElementOfSeq DEF Queued, Has
    <3>2. QED
      BY <1>1, <3>1, QueueFacts DEF Fits
  <2>2. QED
    BY <2>1 DEF LateExpiryHitsNext
<1>2. QED
  BY <1>1, IInvHolds, PTL

(* ReleaseSocket() posts the removal behind what it aborts.  When          *)
(* RemoveSocket destroys the socket no completion with data, an abort or   *)
(* the end of file is left to tell, nor does one run; a read that is still *)
(* outstanding was resumed on the closed port, and its bad_descriptor is   *)
(* in the queue.  Nothing is said of an expiry, which may be there too,    *)
(* because Close() does not cancel the timer.                              *)
THEOREM RemovalComesLast == Spec => []ReadsEndBeforeRemoval
<1>1. ASSUME IInv, Outstanding PROVE ReadsEndBeforeRemoval
  <2>. SUFFICES ASSUME removed
                PROVE  /\ at # "moved" /\ Queued("moved") \cup Queued("aborted") \cup Queued("eof") = {}
                       /\ read = "none" \/ Queued("bad_descriptor") # {}
    BY DEF ReadsEndBeforeRemoval
  <2>1. \A i \in DOMAIN queue : queue[i].kind \notin {"moved", "aborted", "eof"}
    <3>. SUFFICES ASSUME NEW i \in DOMAIN queue PROVE queue[i].kind \notin {"moved", "aborted", "eof"}
      OBVIOUS
    <3>1. queue[i] \in Item /\ Has(queue, queue[i])
      BY <1>1, QueueFacts, LenProperties, ElementOfSeq DEF Has
    <3>2. QED
      BY <1>1, <3>1, QueueFacts DEF Fits
  <2>2. ASSUME read # "none" PROVE Queued("bad_descriptor") # {}
    <3>1. PICK a \in Item : a.kind \in Completions /\ Has(queue, a)
      BY <1>1, <2>2 DEF IInv, Types, Reads, Outstanding, Comes
    <3>2. PICK i \in DOMAIN queue : queue[i] = a
      BY <1>1, <3>1, QueueFacts, LenProperties DEF Has
    <3>3. queue[i].kind = "bad_descriptor"
      BY <2>1, <3>1, <3>2 DEF Completions
    <3>4. QED
      BY <3>3 DEF Queued
  <2>3. QED
    BY <1>1, <2>1, <2>2 DEF Queued, Outstanding
<1>2. QED
  BY <1>1, IInvHolds, OutstandingHolds, PTL
=============================================================================
