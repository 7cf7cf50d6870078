------------------------ MODULE ClientSessionProofs ------------------------
(***************************************************************************)
(* Proofs about ClientSession: for every set of meters and scripts and any *)
(* number of sessions and tries, a reading is its own meter's, sockets do  *)
(* not pile up while the io_service runs, and meters that answer in time   *)
(* are read.                                                               *)
(***************************************************************************)
EXTENDS ClientSession, SequenceTheorems, TLAPS

Reading == [meter : Meters, data : Meters \cup {NoData}]

(* What the engine holds is of the session's meter, before and after the   *)
(* reading is saved.                                                       *)
OwnInv ==
  /\ meter \in Meters
  /\ recent \in {NoData, meter}
  /\ readings \in Seq(Reading)
  /\ ReadingsAreOwn

(* An end of the process leaves everything but the call as it was.         *)
LEMMA DyingKeeps ==
  ASSUME NEW how \in {"thrown", "undefined"}, Dies(how)
  PROVE  /\ poll = "in" /\ ~ stopped /\ pc' = how /\ poll' = "left"
         /\ UNCHANGED <<begun, meter, readings, script, tries, op, outcome, isOpen, sockets,
                        stopped, posted, transport, engine, recent, asked, inbox, peer>>
BY DEF Dies, InHandler, session, socket, client, wire

Died == Dies("thrown") \/ Dies("undefined")

LEMMA DiedKeeps ==
  ASSUME Died
  PROVE  /\ poll = "in" /\ ~ stopped /\ pc' \in {"thrown", "undefined"} /\ poll' = "left"
         /\ UNCHANGED <<begun, meter, readings, script, tries, op, outcome, isOpen, sockets,
                        stopped, posted, transport, engine, recent, asked, inbox, peer>>
BY DyingKeeps DEF Died

LEMMA OwnInit == Init => OwnInv
  BY EmptySeq DEF Init, OwnInv, ReadingsAreOwn

(* close() saves what the engine of this session holds.                    *)
LEMMA OwnClose ==
  ASSUME OwnInv, Close
  PROVE  OwnInv'
<1>. DEFINE r == [meter |-> meter, data |-> recent]
<1>1. /\ readings' = Append(readings, r)
      /\ meter' = meter /\ recent' = recent
  BY DEF Close, client
<1>2. readings \in Seq(Reading) /\ r \in Reading
  BY DEF OwnInv, Reading
<1>3. /\ readings' \in Seq(Reading)
      /\ Len(readings') = Len(readings) + 1
      /\ readings'[Len(readings) + 1] = r
      /\ \A i \in 1..Len(readings) : readings'[i] = readings[i]
  BY <1>1, <1>2, AppendProperties
<1>4. ReadingsAreOwn'
  <2>. SUFFICES ASSUME NEW i \in 1..Len(readings')
                PROVE  readings'[i].data \in {NoData, readings'[i].meter}
    BY <1>1 DEF ReadingsAreOwn
  <2>0. Len(readings) \in Nat
    BY <1>2, LenProperties
  <2>1. CASE i \in 1..Len(readings)
    BY <2>1, <1>3 DEF OwnInv, ReadingsAreOwn
  <2>2. CASE i = Len(readings) + 1
    BY <2>2, <1>3 DEF OwnInv
  <2>. QED
    BY <2>0, <2>1, <2>2, <1>3
<1>. QED
  BY <1>1, <1>3, <1>4 DEF OwnInv

LEMMA OwnNext ==
  ASSUME OwnInv, [Next]_vars
  PROVE  OwnInv'
<1>1. CASE \E m \in Meters, s \in Scripts : BeginSession(m, s)
  BY <1>1 DEF BeginSession, OwnInv, ReadingsAreOwn
<1>4. CASE UNCHANGED <<meter, recent, readings>>
  BY <1>4 DEF OwnInv, ReadingsAreOwn
<1>10. CASE Died
  BY <1>4, <1>10, DiedKeeps
<1>2. CASE RunRead
  BY <1>2, <1>10 DEF RunRead, Died, Handling, OwnInv, ReadingsAreOwn, session
<1>3. CASE Close
  BY <1>3, OwnClose
<1>5. CASE BeginPoll \/ EndPoll
  BY <1>4, <1>5 DEF BeginPoll, EndPoll, session, client
<1>6. CASE RunPosted \/ RunResolver \/ RunConnect \/ RunReadEof
  BY <1>4, <1>6, <1>10 DEF RunPosted, RunResolver, RunConnect, RunReadEof, Handling,
     Died, session, client
<1>7. CASE Open \/ Request \/ Destroy
  BY <1>4, <1>7 DEF Open, Request, Destroy, session, client
<1>8. CASE Network
  BY <1>4, <1>8 DEF Network, ConnectionAttempt, Answer, MeterCloses, session, client
<1>9. CASE UNCHANGED vars
  BY <1>4, <1>9 DEF vars
<1>. QED
  BY <1>1, <1>2, <1>3, <1>5, <1>6, <1>7, <1>8, <1>9 DEF Next, Poll, Thread

(* Readings are never mixed up between meters, however late answers come   *)
(* (APsim::recent_data, which runScript saves after close()).              *)
THEOREM ReadingsAreNeverMixed == Spec => []ReadingsAreOwn
<1>1. OwnInv => ReadingsAreOwn
  BY DEF OwnInv
<1>. QED
  BY OwnInit, OwnNext, <1>1, PTL DEF Spec
-----------------------------------------------------------------------------
(* The list of sockets holds the current session's and those whose posted  *)
(* removal is yet to run.  While the service runs, one complete poll lies  *)
(* between two sessions' ends, and it runs everything that was posted, so  *)
(* at most one removal is ever pending.                                    *)
Postings == {"aborted", "read aborted", "remove"}
Pending == {<<>>, <<"remove">>, <<"aborted", "remove">>, <<"read aborted", "remove">>}

(* The two handlers that a release with an operation in flight leaves.     *)
LEMMA AbortThenRemove ==
  ASSUME NEW S, NEW a \in S, NEW b \in S
  PROVE  /\ <<a>> \o <<b>> = <<a, b>> /\ <<>> \o <<a>> = <<a>>
         /\ Head(<<a, b>>) = a /\ Tail(<<a, b>>) = <<b>>
<1>. DEFINE t == <<a>> \o <<b>>
            u == <<a, b>>
<1>1. <<a>> \in Seq(S) /\ <<b>> \in Seq(S) /\ u \in Seq(S)
  OBVIOUS
<1>2. t \in Seq(S) /\ Len(t) = 2 /\ t[1] = a /\ t[2] = b
  BY <1>1, ConcatProperties
<1>3. Len(u) = 2 /\ u[1] = a /\ u[2] = b
  OBVIOUS
<1>4. <<>> \o <<a>> = <<a>>
  BY <1>1, ConcatEmptySeq
<1>5. Head(u) = a
  OBVIOUS
<1>8. Tail(u) = <<b>>
  OBVIOUS
<1>. HIDE DEF t, u
<1>6. \A i \in 1..Len(t) : t[i] = u[i]
  BY <1>2, <1>3
<1>7. t = u
  BY <1>1, <1>2, <1>3, <1>6, SeqEqual
<1>. QED
  BY <1>4, <1>5, <1>7, <1>8 DEF t, u

SocketInv ==
  /\ stopped \in BOOLEAN
  /\ pc = "idle" => poll = "after"
  /\ ~stopped =>
       /\ posted \in Pending
       /\ sockets = (IF posted = <<>> THEN 0 ELSE 1) + (IF pc = "idle" THEN 0 ELSE 1)
       /\ pc # "idle" /\ poll = "after" => posted = <<>>

LEMMA SocketInit == Init => SocketInv
<1>1. <<>> \in Pending
  BY DEF Pending
<1>. SUFFICES ASSUME Init PROVE SocketInv
  OBVIOUS
<1>2. pc = "idle" /\ poll = "after" /\ posted = <<>> /\ sockets = 0 /\ stopped = FALSE
  BY DEF Init
<1>3. sockets = (IF posted = <<>> THEN 0 ELSE 1) + (IF pc = "idle" THEN 0 ELSE 1)
  BY <1>2
<1>. QED
  BY <1>1, <1>2, <1>3 DEF SocketInv

LEMMA SocketPosted ==
  ASSUME SocketInv, RunPosted, ~ Died
  PROVE  SocketInv'
<1>. USE DEF SocketInv, Pending
<1>1. /\ poll = "in" /\ ~stopped /\ poll' = poll /\ pc' = pc /\ stopped' \in BOOLEAN
      /\ posted # <<>> /\ posted' = Tail(posted)
      /\ sockets' = IF Head(posted) = "remove" THEN sockets - 1 ELSE sockets
  BY DEF RunPosted, Handling, InHandler, Died, thread, session
<1>2. CASE posted = <<"remove">>
  <2>1. posted' = <<>> /\ Head(posted) = "remove"
    BY <1>1, <1>2
  <2>. QED
    BY <1>1, <1>2, <2>1
<1>3. ASSUME NEW a \in {"aborted", "read aborted"}, posted = <<a, "remove">> PROVE SocketInv'
  <2>0. a \in Postings /\ "remove" \in Postings
    BY DEF Postings
  <2>2. Head(<<a, "remove">>) = a /\ Tail(<<a, "remove">>) = <<"remove">>
    BY <2>0, AbortThenRemove
  <2>3. <<"remove">> # <<>>
    OBVIOUS
  <2>1. posted' = <<"remove">> /\ Head(posted) = a /\ posted' # <<>>
    BY <1>1, <1>3, <2>2, <2>3
  <2>. QED
    BY <1>1, <1>3, <2>1
<1>. QED
  BY <1>1, <1>2, <1>3

LEMMA SocketDestroy ==
  ASSUME SocketInv, Destroy
  PROVE  SocketInv'
<1>. USE DEF SocketInv, Pending
<1>1. /\ pc = "destroy" /\ poll = "after" /\ pc' = "idle"
      /\ stopped' = stopped /\ sockets' = sockets /\ poll' = poll
      /\ posted' = posted \o Aborted \o <<"remove">>
  BY DEF Destroy
<1>2. CASE ~stopped
  <2>1. posted = <<>>
    BY <1>1, <1>2
  <2>2. posted' \in Pending /\ posted' # <<>>
    <3>1. CASE op = "none"
      <4>1. posted' = <<"remove">>
        BY <1>1, <2>1, <3>1 DEF Aborted
      <4>. QED
        BY <4>1
    <3>2. CASE op # "none"
      <4>1. PICK a \in {"aborted", "read aborted"} : Aborted = <<a>>
        BY <3>2 DEF Aborted
      <4>2. posted' = <<a, "remove">>
        <5>0. a \in Postings /\ "remove" \in Postings
          BY DEF Postings
        <5>1. <<>> \o <<a>> = <<a>>
          BY <5>0, AbortThenRemove
        <5>2. <<a>> \o <<"remove">> = <<a, "remove">>
          BY <5>0, AbortThenRemove
        <5>. QED
          BY <1>1, <2>1, <4>1, <5>1, <5>2
      <4>. QED
        BY <4>2
    <3>. QED
      BY <3>1, <3>2
  <2>3. sockets = 1
    BY <1>1, <1>2, <2>1
  <2>. HIDE DEF Pending, SocketInv
  <2>4. sockets' = (IF posted' = <<>> THEN 0 ELSE 1) + (IF pc' = "idle" THEN 0 ELSE 1)
    BY <1>1, <2>2, <2>3
  <2>. QED
    BY <1>1, <1>2, <2>2, <2>4 DEF SocketInv
<1>. QED
  BY <1>1, <1>2

LEMMA SocketNext ==
  ASSUME SocketInv, [Next]_vars
  PROVE  SocketInv'
<1>. USE DEF SocketInv
<1>1. CASE BeginPoll
  BY <1>1 DEF BeginPoll, session, thread, socket
<1>2. CASE EndPoll
  BY <1>2 DEF EndPoll, Ready, session, thread, socket
<1>11. CASE Died
  BY <1>11, DiedKeeps
<1>3. CASE RunPosted /\ ~ Died
  BY <1>3, SocketPosted
<1>4. CASE (RunResolver \/ RunConnect) /\ ~ Died
  BY <1>4 DEF RunResolver, RunConnect, Handling, InHandler, Died, thread, session
<1>5. CASE (RunRead \/ RunReadEof) /\ ~ Died
  BY <1>5 DEF RunRead, RunReadEof, Handling, InHandler, Died, thread, session, socket
<1>6. CASE \E m \in Meters, s \in Scripts : BeginSession(m, s)
  BY <1>6 DEF BeginSession
<1>7. CASE Open \/ Request \/ Close
  BY <1>7 DEF Open, Request, Close, socket, session
<1>8. CASE Destroy
  BY <1>8, SocketDestroy
<1>9. CASE Network
  BY <1>9 DEF Network, ConnectionAttempt, Answer, MeterCloses, session, thread, socket
<1>10. CASE UNCHANGED vars
  BY <1>10 DEF vars
<1>. QED
  BY <1>1, <1>2, <1>3, <1>4, <1>5, <1>6, <1>7, <1>8, <1>9, <1>10, <1>11 DEF Next, Poll, Thread

(* LinuxIP's list never holds more than two sockets while the io_service   *)
(* runs, however many sessions there are.                                  *)
THEOREM SocketsStayFew == Spec => []SocketsAreReclaimed
<1>1. SocketInv => SocketsAreReclaimed
  BY DEF SocketInv, SocketsAreReclaimed
<1>. QED
  BY SocketInit, SocketNext, <1>1, PTL DEF Spec
-----------------------------------------------------------------------------
(* Types.                                                                  *)

Answers == {"associated", "data", "error", "mistyped", "done", "released"}

Types ==
  /\ pc \in {"idle", "open", "request", "close", "destroy", "thrown", "undefined"}
  /\ poll \in {"before", "in", "after", "left"}
  /\ begun \in 0..MaxSessions /\ meter \in Meters
  /\ script \in Seq({"Get", "Action"}) /\ tries \in 0..MaxTries
  /\ op \in {"none", "resolve", "connect", "read"}
  /\ outcome \in {"none", "ok", "refused"}
  /\ isOpen \in BOOLEAN /\ sockets \in 0..begun
  /\ stopped \in BOOLEAN /\ posted \in Seq(Postings)
  /\ transport \in BOOLEAN /\ engine \in {"closed", "opening", "open"}
  /\ asked \in Seq(Requests) /\ inbox \in Seq(Answers)
  /\ peer \in {"up", "closed", "reset"}
  /\ pc # "idle" => (op = "read" <=> transport)
  /\ pc # "idle" /\ posted # <<>> => op = "resolve"
  /\ poll = "left" <=> pc \in {"thrown", "undefined"}
  /\ pc = "idle" => poll = "after" /\ op = "none" /\ ~ isOpen
  /\ pc = "open" => tries > 0
  /\ pc \in {"open", "request"} => script # <<>>

LEMMA TypesInit == Init => Types
<1> SUFFICES ASSUME Init PROVE Types
  OBVIOUS
<1>1. 0 \in 0..MaxSessions /\ 0 \in 0..MaxTries /\ 0 \in 0..0
  BY CountsAssumption
<1>2. /\ <<>> \in Seq({"Get", "Action"}) /\ <<>> \in Seq(Postings)
      /\ <<>> \in Seq(Requests) /\ <<>> \in Seq(Answers)
  BY EmptySeq
<1>3. QED
  BY <1>1, <1>2 DEF Init, Types

LEMMA TypesPoll == ASSUME Types, SocketInv, Poll PROVE Types'
<1>1. CASE BeginPoll \/ EndPoll
  <2>1. stopped' \in BOOLEAN /\ poll' \in {"in", "after"}
    BY <1>1 DEF BeginPoll, EndPoll, Types
  <2>2. pc \notin {"idle", "thrown", "undefined"}
    BY <1>1 DEF BeginPoll, EndPoll, Types
  <2>3. UNCHANGED <<begun, meter, pc, script, tries, op, outcome, isOpen, sockets, posted,
                    transport, engine, asked, inbox, peer>>
    BY <1>1 DEF BeginPoll, EndPoll, session, thread, socket, client, wire
  <2>4. QED
    BY <2>1, <2>2, <2>3 DEF Types
<1>9. CASE Died
  <2>1. pc # "idle"
    BY <1>9, DiedKeeps DEF Types
  <2>2. pc' # "idle" => (op' = "read" <=> transport')
    BY <1>9, <2>1, DiedKeeps DEF Types
  <2>3. poll' = "left" <=> pc' \in {"thrown", "undefined"}
    BY <1>9, DiedKeeps
  <2>4. pc' # "idle" /\ posted' # <<>> => op' = "resolve"
    BY <1>9, <2>1, DiedKeeps DEF Types
  <2>5. pc' \notin {"idle", "open", "request"}
    BY <1>9, DiedKeeps
  <2>6. /\ pc' \in {"thrown", "undefined"} /\ poll' = "left"
        /\ UNCHANGED <<begun, meter, script, tries, op, outcome, isOpen, sockets,
                       stopped, posted, transport, engine, asked, inbox, peer>>
    BY <1>9, DiedKeeps
  <2>7. QED
    BY <2>2, <2>3, <2>4, <2>5, <2>6 DEF Types
<1>2. ASSUME Handling, posted' = posted, sockets' = sockets, outcome' = outcome,
             isOpen' \in BOOLEAN, transport' \in BOOLEAN, op' \in {"none", "connect", "read"},
             engine' \in {"closed", "opening", "open"}, asked' = asked, peer' = peer,
             inbox' \in Seq(Answers), op' = "read" <=> transport', posted = <<>>
      PROVE  Types'
  <2>1. /\ poll = "in" /\ stopped' \in BOOLEAN
        /\ UNCHANGED <<poll, begun, meter, pc, script, tries>>
    BY <1>2 DEF Handling, InHandler, session, thread
  <2>2. pc # "idle"
    BY <2>1 DEF Types
  <2>3. QED
    BY <1>2, <2>1, <2>2 DEF Types
<1>3. CASE RunPosted /\ ~ Died
  <2>1. /\ poll = "in" /\ ~ stopped /\ stopped' \in BOOLEAN /\ posted # <<>> /\ posted' = Tail(posted)
        /\ sockets' = IF Head(posted) = "remove" THEN sockets - 1 ELSE sockets
        /\ transport' \in {transport, FALSE} /\ engine' \in {engine, "closed"}
        /\ UNCHANGED <<poll, begun, meter, pc, script, tries, op, outcome, isOpen,
                       asked, inbox, peer>>
    BY <1>3 DEF RunPosted, Handling, InHandler, Died, session, thread, wire
  <2>6. pc # "idle" /\ op = "resolve" /\ ~ transport
    BY <2>1 DEF Types
  <2>2. posted' \in Seq(Postings)
    BY <2>1, HeadTailProperties DEF Types
  <2>3. sockets >= 1
    <3>1. sockets = (IF posted = <<>> THEN 0 ELSE 1) + (IF pc = "idle" THEN 0 ELSE 1)
      BY <2>1 DEF SocketInv
    <3>2. QED
      BY <2>1, <3>1
  <2>4. sockets' \in 0..begun
    BY <2>1, <2>3 DEF Types
  <2>5. transport' = FALSE /\ engine' \in {"closed", "opening", "open"}
    BY <2>1, <2>6 DEF Types
  <2>7. op' = "read" <=> transport'
    BY <2>1, <2>5, <2>6
  <2>8. QED
    BY <2>1, <2>2, <2>4, <2>5, <2>6, <2>7 DEF Types
<1>10. ASSUME Handling PROVE pc # "idle"
  BY <1>10 DEF Handling, InHandler, Types
<1>4. CASE RunResolver
  <2>1. ~ transport
    BY <1>4, <1>10 DEF RunResolver, Types
  <2>2. QED
    BY <1>2, <1>4, <2>1 DEF RunResolver, Types, client, wire
<1>5. CASE RunConnect /\ ~ Died
  <2>1. Handling
    BY <1>5 DEF RunConnect, Died
  <2>2. ~ transport
    BY <1>5, <2>1, <1>10 DEF RunConnect, Types
  <2>3. (op' = "read" <=> transport') /\ op' \in {"none", "read"} /\ transport' \in BOOLEAN
    <3>1. CASE op' = "read" /\ transport' = TRUE
      BY <3>1
    <3>2. CASE op' = "none" /\ transport' = transport
      BY <2>2, <3>2 DEF Types
    <3>3. QED
      BY <1>5, <3>1, <3>2 DEF RunConnect, Died, client
  <2>4. /\ posted = <<>> /\ posted' = posted
        /\ UNCHANGED <<sockets, outcome, isOpen, engine, asked, inbox, peer>>
    BY <1>5 DEF RunConnect, Died, client, wire
  <2>5. QED
    BY <1>2, <2>1, <2>3, <2>4 DEF Types
<1>6. CASE RunRead /\ ~ Died
  <2>1. /\ op = "read" /\ inbox # <<>> /\ inbox' = Tail(inbox)
        /\ UNCHANGED <<op, outcome, isOpen, sockets, posted, transport, asked, peer>> /\ Handling
        /\ posted = <<>>
    BY <1>6 DEF RunRead, Died, socket
  <2>5. transport
    BY <2>1, <1>10 DEF Types
  <2>2. Tail(inbox) \in Seq(Answers)
    BY <2>1, HeadTailProperties DEF Types
  <2>3. engine' \in {"closed", "opening", "open"}
    BY <1>6 DEF RunRead, Died, Types
  <2>4. QED
    BY <1>2, <2>1, <2>2, <2>3, <2>5 DEF Types
<1>7. CASE RunReadEof
  BY <1>2, <1>7 DEF RunReadEof, Types, wire
<1>8. QED
  BY <1>1, <1>3, <1>4, <1>5, <1>6, <1>7, <1>9 DEF Poll

LEMMA TypesThread == ASSUME Types, SocketInv, Thread PROVE Types'
<1>1. ASSUME NEW m \in Meters, NEW s \in Scripts, BeginSession(m, s) PROVE Types'
  <2>1. begun' \in 0..MaxSessions /\ sockets' \in 0..begun'
    BY <1>1, CountsAssumption DEF BeginSession, Types
  <2>2. s \in Seq({"Get", "Action"}) /\ MaxTries \in 0..MaxTries /\ MaxTries > 0
    BY ScriptsAssumption, CountsAssumption
  <2>3. <<>> \in Seq(Requests) /\ <<>> \in Seq(Answers)
    BY EmptySeq
  <2>4. s # <<>>
    BY ScriptsAssumption
  <2>5. QED
    BY <1>1, <2>1, <2>2, <2>3, <2>4 DEF BeginSession, Types
<1>2. ASSUME NEW r \in Requests PROVE Append(asked, r) \in Seq(Requests)
  BY AppendProperties DEF Types
<1>3. CASE Open
  <2>1. /\ pc = "open" /\ poll' = "before"
        /\ UNCHANGED <<begun, meter, script, op, outcome, isOpen, sockets, stopped, posted,
                       transport, inbox, peer>>
    BY <1>3 DEF Open, session, socket
  <2>2. \/ /\ asked' = Append(asked, "associate") /\ engine' = "opening"
           /\ pc' = "request" /\ tries' = tries
        \/ /\ asked' = asked /\ engine' = engine /\ tries' = tries - 1
           /\ pc' = IF tries' = 0 THEN "request" ELSE "open"
    BY <1>3 DEF Open
  <2>3. tries' \in 0..MaxTries /\ pc' \in {"open", "request"} /\ (pc' = "open" => tries' > 0)
    BY <2>1, <2>2, CountsAssumption DEF Types
  <2>4. asked' \in Seq(Requests) /\ engine' \in {"closed", "opening", "open"}
    <3>1. Append(asked, "associate") \in Seq(Requests)
      BY <1>2 DEF Requests
    <3>2. asked \in Seq(Requests) /\ engine \in {"closed", "opening", "open"}
      BY DEF Types
    <3>3. QED
      BY <2>2, <3>1, <3>2
  <2>5. script # <<>>
    BY <2>1 DEF Types
  <2>6. QED
    BY <2>1, <2>3, <2>4, <2>5 DEF Types
<1>4. CASE Request
  <2>1. /\ pc = "request" /\ poll' = "before" /\ script' = Tail(script)
        /\ pc' = IF script' = <<>> THEN "close" ELSE "request"
        /\ asked' \in {asked, Append(asked, Head(script))}
        /\ UNCHANGED <<begun, meter, tries, op, outcome, isOpen, sockets, stopped, posted,
                       transport, engine, inbox, peer>>
    BY <1>4 DEF Request, session, socket, client
  <2>2. Head(script) \in {"Get", "Action"} /\ Tail(script) \in Seq({"Get", "Action"})
    BY <2>1, HeadTailProperties DEF Types
  <2>3. asked' \in Seq(Requests)
    <3>1. Append(asked, Head(script)) \in Seq(Requests)
      BY <1>2, <2>2 DEF Requests
    <3>2. asked \in Seq(Requests)
      BY DEF Types
    <3>3. QED
      BY <2>1, <3>1, <3>2
  <2>4. QED
    BY <2>1, <2>2, <2>3 DEF Types
<1>5. CASE Close
  <2>1. /\ pc = "close" /\ pc' = "destroy" /\ poll' = "before" /\ asked' \in {asked, Append(asked, "release")}
        /\ UNCHANGED <<begun, meter, script, tries, op, outcome, isOpen, sockets, stopped, posted,
                       transport, engine, inbox, peer>>
    BY <1>5 DEF Close, socket, client
  <2>2. asked' \in Seq(Requests)
    <3>1. Append(asked, "release") \in Seq(Requests)
      BY <1>2 DEF Requests
    <3>2. asked \in Seq(Requests)
      BY DEF Types
    <3>3. QED
      BY <2>1, <3>1, <3>2
  <2>3. QED
    BY <2>1, <2>2 DEF Types
<1>6. CASE Destroy
  <2>1. /\ poll = "after" /\ pc' = "idle" /\ op' = "none" /\ isOpen' = FALSE
        /\ posted' = posted \o Aborted \o <<"remove">>
        /\ UNCHANGED <<begun, meter, script, tries, poll, outcome, sockets, stopped,
                       transport, engine, asked, inbox, peer>>
    BY <1>6 DEF Destroy, session, client, wire
  <2>2. Aborted \in Seq(Postings) /\ <<"remove">> \in Seq(Postings)
    <3>1. \A a \in Postings : <<a>> \in Seq(Postings)
      OBVIOUS
    <3>2. <<>> \in Seq(Postings)
      BY EmptySeq
    <3>3. QED
      BY <3>1, <3>2 DEF Aborted, Postings
  <2>3. posted' \in Seq(Postings)
    BY <2>1, <2>2, ConcatProperties DEF Types
  <2>4. poll' = "left" <=> pc' \in {"thrown", "undefined"}
    BY <2>1
  <2>5. QED
    BY <2>1, <2>3, <2>4 DEF Types
<1>7. QED
  BY <1>1, <1>3, <1>4, <1>5, <1>6 DEF Thread

LEMMA TypesNetwork == ASSUME Types, Network PROVE Types'
<1>1. CASE ConnectionAttempt
  <2>1. outcome' \in {"ok", "refused"}
    BY <1>1 DEF ConnectionAttempt
  <2>2. QED
    BY <1>1, <2>1 DEF ConnectionAttempt, Types, session, thread, client, wire
<1>2. CASE Answer
  <2>1. /\ isOpen /\ asked # <<>> /\ asked' = Tail(asked)
        /\ UNCHANGED <<session, thread, poll, socket, stopped, posted, client, peer>>
    BY <1>2 DEF Answer
  <2>2. Head(asked) \in Requests /\ Tail(asked) \in Seq(Requests)
    BY <2>1, HeadTailProperties DEF Types
  <2>3. Replies(Head(asked)) \subseteq Answers
    BY <2>2 DEF Replies, Requests, Answers
  <2>4. PICK r \in Answers : inbox' = Append(inbox, r)
    BY <1>2, <2>3 DEF Answer
  <2>5. inbox' \in Seq(Answers)
    BY <2>4, AppendProperties DEF Types
  <2>6. QED
    BY <2>1, <2>2, <2>5 DEF Types, session, thread, socket, client
<1>3. CASE MeterCloses
  BY <1>3 DEF MeterCloses, Types, session, thread, socket, client
<1>4. QED
  BY <1>1, <1>2, <1>3 DEF Network

LEMMA TypesNext == ASSUME Types, SocketInv, [Next]_vars PROVE Types'
<1>1. CASE UNCHANGED vars
  BY <1>1 DEF vars, Types
<1>2. QED
  BY <1>1, TypesPoll, TypesThread, TypesNetwork DEF Next
-----------------------------------------------------------------------------
(* Sessions with reliable meters.                                          *)

HasGet(s) == \E i \in 1..Len(s) : s[i] = "Get"

(* No meter so far, nor that of the session under way, has failed.         *)
Clean == \A i \in 1..Len(readings) : readings[i].meter \in Reliable
Sound == Clean /\ (meter \in Reliable \/ pc = "idle")
Going == pc \notin {"idle", "thrown", "undefined"}

(* The first poll of open() runs the resolver's handler, and the second,   *)
(* if not the first, that of the connection.                               *)
Opening ==
  /\ engine = "closed" /\ asked = <<>> /\ inbox = <<>> /\ HasGet(script)
  /\ isOpen = (op # "resolve") /\ transport = (op = "read")
  /\ \/ op = "resolve" /\ outcome = "none" /\ poll # "after" /\ tries = MaxTries
     \/ op = "connect" /\ poll # "before" /\ tries = MaxTries
     \/ op = "connect" /\ poll = "before" /\ tries = MaxTries - 1
     \/ op = "connect" /\ poll = "in" /\ outcome = "ok"
     \/ op = "read"

(* One request is under way: it is answered in the sleep before a poll,    *)
(* and the answer read by the poll.                                        *)
Expects(request, reply) ==
  \/ asked = <<request>> /\ inbox = <<>> /\ poll = "before"
  \/ asked = <<>> /\ inbox = <<reply>> /\ poll # "after"

(* Data has come, is on its way, or will be asked for.                     *)
Exchange ==
  LET coming == recent # NoData \/ HasGet(script) IN
    \/ engine = "opening" /\ Expects("associate", "associated") /\ coming
    \/ engine = "open" /\ asked = <<>> /\ inbox = <<>> /\ coming
    \/ engine = "open" /\ Expects("Action", "done") /\ coming
    \/ engine = "open" /\ Expects("Get", "data")

OnTrack ==
  /\ peer = "up" /\ outcome # "refused"
  /\ pc = "open" => Opening
  /\ pc # "open" => op = "read" /\ isOpen
  /\ pc \in {"request", "close"} => Exchange

Progress ==
  /\ pc = "destroy" => readings # <<>> /\ readings[Len(readings)].meter = meter
  /\ pc = "close" => script = <<>>
  /\ Sound => ~ stopped
  /\ Sound /\ Going => OnTrack
  /\ ReliableReadUntilFailure

IInv == OwnInv /\ SocketInv /\ Types /\ Progress

LEMMA ProgressInit == Init => Progress
<1>1. Len(<<>>) = 0 /\ 1..0 = {}
  OBVIOUS
<1>2. QED
  BY <1>1 DEF Init, Progress, Going, ReliableReadUntilFailure

(* Most steps leave the session and the call as they are.                  *)
LEMMA SameCall ==
  ASSUME IInv, UNCHANGED <<readings, meter, pc, script>>,
         Sound => ~ stopped', Sound /\ Going => OnTrack'
  PROVE  Progress'
<1>1. Sound' <=> Sound
  BY DEF Sound, Clean
<1>2. ReliableReadUntilFailure'
  BY DEF IInv, Progress, ReliableReadUntilFailure
<1>3. QED
  BY <1>1, <1>2 DEF IInv, Progress, Going

(* So do handlers, and while an operation remains the service goes on.     *)
LEMMA HandlerGoesOn ==
  ASSUME IInv, Handling, Sound => OnTrack' /\ op' # "none"
  PROVE  Progress'
<1>1. UNCHANGED <<readings, meter, pc, script>>
  BY DEF Handling, session, thread
<1>2. Sound => ~ stopped'
  BY DEF Handling, Outstanding
<1>3. QED
  BY <1>1, <1>2, SameCall

LEMMA SoundIsOnTrack ==
  ASSUME IInv, Sound, Going
  PROVE  OnTrack /\ IsReliable /\ ~ stopped /\ op # "none"
BY DEF IInv, Progress, Sound, Going, OnTrack, Opening, IsReliable

LEMMA BeginPollStep == ASSUME IInv, BeginPoll PROVE Progress'
<1>1. /\ pc # "idle" /\ poll = "before" /\ SleepIsOver
      /\ stopped' = (stopped \/ ~ Outstanding)
      /\ poll' = IF stopped' THEN "after" ELSE "in"
      /\ UNCHANGED <<readings, meter, pc, script, tries, op, outcome, isOpen,
                     transport, engine, recent, asked, inbox, peer>>
  BY DEF BeginPoll, session, thread, socket, client, wire
<1>2. ASSUME Sound PROVE ~ stopped' /\ OnTrack'
  <2>0. Going
    BY <1>1 DEF IInv, Types, Going
  <2>1. OnTrack /\ IsReliable /\ ~ stopped /\ op # "none"
    BY <2>0, <1>2, SoundIsOnTrack
  <2>2. ~ stopped' /\ poll' = "in"
    BY <1>1, <2>1 DEF Outstanding
  <2>3. asked = <<>> /\ (op = "connect" => outcome # "none")
    BY <1>1, <2>1 DEF SleepIsOver
  <2>4. op = "connect" => outcome = "ok"
    BY <2>1, <2>3 DEF OnTrack, IInv, Types
  <2>5. pc = "open" => Opening'
    BY <1>1, <2>1, <2>2, <2>4 DEF OnTrack, Opening, HasGet
  <2>6. pc \in {"request", "close"} => Exchange'
    BY <1>1, <2>1, <2>2, <2>3 DEF OnTrack, Exchange, Expects, HasGet
  <2>7. QED
    BY <1>1, <2>1, <2>2, <2>5, <2>6 DEF OnTrack
<1>3. QED
  BY <1>1, <1>2, SameCall

LEMMA EndPollStep == ASSUME IInv, EndPoll PROVE Progress'
<1>1. /\ poll = "in" /\ poll' = "after" /\ (stopped \/ ~ Ready)
      /\ UNCHANGED <<readings, meter, pc, script, tries, op, outcome, isOpen, stopped,
                     transport, engine, recent, asked, inbox, peer>>
  BY DEF EndPoll, session, thread, socket, client, wire
<1>2. Going
  BY <1>1 DEF IInv, Types, Going
<1>3. ASSUME Sound PROVE ~ stopped' /\ OnTrack'
  <2>1. OnTrack /\ ~ stopped
    BY <1>2, <1>3, SoundIsOnTrack
  <2>2. /\ op # "resolve" /\ (op = "connect" => outcome = "none")
        /\ (op = "read" => inbox = <<>>)
    BY <1>1, <2>1 DEF Ready
  <2>3. pc = "open" => Opening'
    BY <1>1, <2>1, <2>2 DEF OnTrack, Opening, HasGet
  <2>4. pc \in {"request", "close"} => Exchange'
    BY <1>1, <2>1, <2>2 DEF OnTrack, Exchange, Expects, HasGet
  <2>5. QED
    BY <1>1, <2>1, <2>3, <2>4 DEF OnTrack
<1>4. QED
  BY <1>1, <1>3, SameCall

LEMMA HandlerStep ==
  ASSUME IInv, ~ Died, RunPosted \/ RunResolver \/ RunConnect \/ RunRead \/ RunReadEof
  PROVE  Progress'
<1>1. /\ Handling /\ poll = "in" /\ UNCHANGED <<readings, meter, pc, script, tries, poll>>
  BY DEF RunPosted, RunResolver, RunConnect, RunRead, RunReadEof, Handling, InHandler, Died,
     session, thread
<1>2. Going
  BY <1>1 DEF IInv, Types, Going
<1>3. SUFFICES ASSUME Sound PROVE OnTrack' /\ op' # "none"
  BY <1>1, HandlerGoesOn
<1>4. OnTrack /\ IsReliable /\ op # "none"
  BY <1>2, <1>3, SoundIsOnTrack
<1>5. CASE RunPosted
  <2>1. /\ UNCHANGED <<op, outcome, isOpen, recent, asked, inbox, peer>> /\ posted # <<>>
        /\ transport' \in {transport, FALSE} /\ engine' \in {engine, "closed"}
    BY <1>5 DEF RunPosted, Died, wire
  <2>2. op = "resolve"
    BY <1>2, <2>1 DEF IInv, Types, Going
  <2>3. pc = "open" /\ Opening
    BY <1>4, <2>2 DEF OnTrack
  <2>4. Opening'
    BY <1>1, <2>1, <2>2, <2>3 DEF Opening, HasGet
  <2>5. QED
    BY <1>1, <1>4, <2>1, <2>2, <2>3, <2>4 DEF OnTrack
<1>6. CASE RunResolver
  <2>1. /\ op = "resolve" /\ op' = "connect" /\ isOpen' = TRUE
        /\ UNCHANGED <<outcome, transport, engine, recent, asked, inbox, peer>>
    BY <1>4, <1>6 DEF RunResolver, client, wire
  <2>2. pc = "open" /\ Opening
    BY <1>4, <2>1 DEF OnTrack
  <2>3. Opening'
    BY <1>1, <2>1, <2>2 DEF Opening, HasGet
  <2>4. QED
    BY <1>1, <1>4, <2>1, <2>2, <2>3 DEF OnTrack
<1>7. CASE RunConnect
  <2>1. /\ op = "connect" /\ outcome # "none"
        /\ UNCHANGED <<outcome, isOpen, engine, recent, asked, inbox, peer>>
    BY <1>7 DEF RunConnect, Died, client, wire
  <2>2. op' = "read" /\ transport' = TRUE
    BY <1>4, <1>7, <2>1 DEF RunConnect, Died, OnTrack, IInv, Types
  <2>3. pc = "open" /\ Opening
    BY <1>4, <2>1 DEF OnTrack
  <2>4. Opening'
    BY <1>1, <2>1, <2>2, <2>3 DEF Opening, HasGet
  <2>5. QED
    BY <1>1, <1>4, <2>1, <2>2, <2>3, <2>4 DEF OnTrack
<1>8. CASE RunRead
  <2>1. /\ op = "read" /\ inbox # <<>> /\ inbox' = Tail(inbox)
        /\ engine' = CASE Head(inbox) = "associated" -> "open"
                       [] Head(inbox) = "released" -> "closed"
                       [] OTHER -> engine
        /\ recent' = IF Head(inbox) = "data" THEN meter ELSE recent
        /\ UNCHANGED <<op, outcome, isOpen, transport, asked, peer>>
    BY <1>8 DEF RunRead, Died, socket
  <2>2. pc # "open"
    BY <1>4, <2>1 DEF OnTrack, Opening
  <2>3. ASSUME Exchange PROVE Exchange'
    <3>1. meter # NoData
      BY NoDataAssumption DEF IInv, Types
    <3>2. ASSUME NEW a, inbox = <<a>> PROVE Head(inbox) = a /\ inbox' = <<>>
      BY <2>1, <3>2
    <3>3. CASE engine = "opening" /\ Expects("associate", "associated")
      <4>1. asked = <<>> /\ inbox = <<"associated">> /\ (recent # NoData \/ HasGet(script))
        BY <1>1, <2>1, <2>3, <3>3 DEF Exchange, Expects
      <4>2. engine' = "open" /\ inbox' = <<>> /\ recent' = recent
        BY <2>1, <3>2, <4>1
      <4>3. QED
        BY <1>1, <2>1, <4>1, <4>2 DEF Exchange, HasGet
    <3>4. CASE engine = "open" /\ Expects("Action", "done")
      <4>1. asked = <<>> /\ inbox = <<"done">> /\ (recent # NoData \/ HasGet(script))
        BY <1>1, <2>1, <2>3, <3>4 DEF Exchange, Expects
      <4>2. engine' = "open" /\ inbox' = <<>> /\ recent' = recent
        BY <2>1, <3>2, <3>4, <4>1
      <4>3. QED
        BY <1>1, <2>1, <4>1, <4>2 DEF Exchange, HasGet
    <3>5. CASE engine = "open" /\ Expects("Get", "data")
      <4>1. asked = <<>> /\ inbox = <<"data">>
        BY <1>1, <2>1, <3>5 DEF Expects
      <4>2. engine' = "open" /\ inbox' = <<>> /\ recent' = meter
        BY <2>1, <3>2, <3>5, <4>1
      <4>3. QED
        BY <1>1, <2>1, <3>1, <4>1, <4>2 DEF Exchange
    <3>6. QED
      BY <2>1, <2>3, <3>3, <3>4, <3>5 DEF Exchange
  <2>4. QED
    BY <1>1, <1>4, <2>1, <2>2, <2>3 DEF OnTrack
<1>9. CASE RunReadEof
  BY <1>4, <1>9 DEF RunReadEof, OnTrack
<1>10. QED
  BY <1>5, <1>6, <1>7, <1>8, <1>9

LEMMA BeginSessionStep ==
  ASSUME IInv, NEW m \in Meters, NEW s \in Scripts, BeginSession(m, s)
  PROVE  Progress'
<1>1. /\ pc = "idle" /\ pc' = "open" /\ poll' = "before" /\ meter' = m /\ script' = s
      /\ tries' = MaxTries /\ op' = "resolve" /\ outcome' = "none" /\ isOpen' = FALSE
      /\ transport' = FALSE /\ engine' = "closed"
      /\ asked' = <<>> /\ inbox' = <<>> /\ peer' = "up"
      /\ UNCHANGED <<readings, stopped>>
  BY DEF BeginSession
<1>2. HasGet(s)
  <2>1. s \in Seq({"Get", "Action"}) /\ \E i \in DOMAIN s : s[i] = "Get"
    BY ScriptsAssumption
  <2>2. QED
    BY <2>1, LenProperties DEF HasGet
<1>3. Opening'
  BY <1>1, <1>2 DEF Opening, HasGet
<1>4. OnTrack'
  BY <1>1, <1>3 DEF OnTrack
<1>5. Sound' => ~ stopped'
  BY <1>1 DEF Sound, Clean, IInv, Progress
<1>6. ReliableReadUntilFailure'
  BY <1>1 DEF IInv, Progress, ReliableReadUntilFailure
<1>7. QED
  BY <1>1, <1>4, <1>5, <1>6 DEF Progress

LEMMA OpenStep == ASSUME IInv, Open PROVE Progress'
<1>1. /\ pc = "open" /\ poll = "after" /\ poll' = "before" /\ pc' \in {"open", "request"}
      /\ UNCHANGED <<readings, meter, script, op, outcome, isOpen, stopped,
                     transport, recent, inbox, peer>>
  BY DEF Open, session, socket
<1>2. (Sound' => Sound) /\ Going
  BY <1>1 DEF Sound, Clean, Going
<1>3. ASSUME Sound PROVE ~ stopped' /\ OnTrack'
  <2>1. OnTrack /\ ~ stopped /\ Opening
    BY <1>1, <1>2, <1>3, SoundIsOnTrack DEF OnTrack
  <2>2. CASE op = "read"
    <3>1. Connected
      BY <2>1, <2>2 DEF Connected, Opening
    <3>2. asked' = Append(<<>>, "associate") /\ engine' = "opening" /\ pc' = "request"
      BY <2>1, <3>1 DEF Open, Opening
    <3>3. asked' = <<"associate">>
      BY <3>2
    <3>4. Exchange'
      BY <1>1, <2>1, <3>2, <3>3 DEF Opening, Exchange, Expects, HasGet
    <3>5. QED
      BY <1>1, <2>1, <2>2, <3>2, <3>4 DEF OnTrack, Opening
  <2>3. CASE op # "read"
    <3>1. op = "connect" /\ tries = MaxTries /\ ~ Connected
      BY <1>1, <2>1, <2>3 DEF Opening, Connected, OnTrack
    <3>2. /\ asked' = asked /\ engine' = engine /\ tries' = tries - 1
          /\ pc' = IF tries' = 0 THEN "request" ELSE "open"
      BY <3>1 DEF Open
    <3>3. tries' = MaxTries - 1 /\ tries' # 0
      BY <3>1, <3>2, CountsAssumption
    <3>4. pc' = "open"
      BY <3>2, <3>3
    <3>5. Opening'
      BY <1>1, <2>1, <3>1, <3>2, <3>3 DEF Opening, HasGet
    <3>6. QED
      BY <1>1, <2>1, <3>4, <3>5 DEF OnTrack
  <2>4. QED
    BY <2>2, <2>3
<1>4. ReliableReadUntilFailure'
  BY <1>1 DEF IInv, Progress, ReliableReadUntilFailure
<1>5. QED
  BY <1>1, <1>2, <1>3, <1>4 DEF Progress

(* What is left of a script after a request that is no Get has the Get.    *)
LEMMA GetIsLeft ==
  ASSUME NEW s \in Seq({"Get", "Action"}), s # <<>>, HasGet(s)
  PROVE  Head(s) = "Get" \/ HasGet(Tail(s))
<1>1. PICK i \in 1..Len(s) : s[i] = "Get"
  BY DEF HasGet
<1>2. CASE i = 1
  BY <1>1, <1>2
<1>3. CASE i # 1
  <2>1. /\ Len(Tail(s)) = Len(s) - 1 /\ Len(s) \in Nat
        /\ \A k \in 1..Len(Tail(s)) : Tail(s)[k] = s[k + 1]
    BY HeadTailProperties, LenProperties
  <2>2. i - 1 \in 1..Len(Tail(s)) /\ (i - 1) + 1 = i
    BY <1>1, <1>3, <2>1
  <2>3. Tail(s)[i - 1] = "Get"
    BY <1>1, <2>1, <2>2
  <2>4. QED
    BY <2>2, <2>3 DEF HasGet
<1>4. QED
  BY <1>2, <1>3

LEMMA RequestStep == ASSUME IInv, Request PROVE Progress'
<1>1. /\ pc = "request" /\ poll = "after" /\ poll' = "before" /\ script' = Tail(script)
      /\ pc' = IF script' = <<>> THEN "close" ELSE "request"
      /\ asked' = IF Connected /\ engine = "open" THEN Append(asked, Head(script)) ELSE asked
      /\ UNCHANGED <<readings, meter, op, outcome, isOpen, stopped,
                     transport, engine, recent, inbox, peer>>
  BY DEF Request, session, socket, client
<1>2. (Sound' => Sound) /\ Going
  BY <1>1 DEF Sound, Clean, Going
<1>3. ASSUME Sound PROVE ~ stopped' /\ OnTrack'
  <2>1. OnTrack /\ ~ stopped /\ Exchange
    BY <1>1, <1>2, <1>3, SoundIsOnTrack DEF OnTrack
  <2>2. /\ engine = "open" /\ asked = <<>> /\ inbox = <<>>
        /\ recent # NoData \/ HasGet(script)
    BY <1>1, <2>1 DEF Exchange, Expects
  <2>3. Connected
    BY <1>1, <2>1 DEF Connected, OnTrack, IInv, Types
  <2>4. asked' = <<Head(script)>>
    BY <1>1, <2>2, <2>3
  <2>5. script \in Seq({"Get", "Action"}) /\ script # <<>>
    BY <1>1 DEF IInv, Types
  <2>6. Head(script) \in {"Get", "Action"}
    BY <2>5, HeadTailProperties
  <2>7. CASE Head(script) = "Get"
    <3>1. Exchange'
      BY <1>1, <2>2, <2>4, <2>7 DEF Exchange, Expects
    <3>2. QED
      BY <1>1, <2>1, <3>1 DEF OnTrack
  <2>8. CASE Head(script) = "Action"
    <3>1. recent # NoData \/ HasGet(Tail(script))
      BY <2>2, <2>5, <2>8, GetIsLeft
    <3>2. recent' # NoData \/ HasGet(script')
      BY <1>1, <3>1 DEF HasGet
    <3>3. Exchange'
      BY <1>1, <2>2, <2>4, <2>8, <3>2 DEF Exchange, Expects, HasGet
    <3>4. QED
      BY <1>1, <2>1, <3>3 DEF OnTrack
  <2>9. QED
    BY <2>6, <2>7, <2>8
<1>4. ReliableReadUntilFailure'
  BY <1>1 DEF IInv, Progress, ReliableReadUntilFailure
<1>5. QED
  BY <1>1, <1>2, <1>3, <1>4 DEF Progress

(* The reading is saved one poll after the last answer came.              *)
LEMMA CloseStep == ASSUME IInv, Close PROVE Progress'
<1>. DEFINE r == [meter |-> meter, data |-> recent]
            n == Len(readings)
<1>1. /\ pc = "close" /\ poll = "after" /\ pc' = "destroy" /\ readings' = Append(readings, r)
      /\ UNCHANGED <<meter, op, outcome, isOpen, stopped, peer>>
  BY DEF Close, socket
<1>2. readings \in Seq(Reading) /\ r \in Reading
  BY DEF IInv, OwnInv, Reading
<1>3. /\ n \in Nat /\ Len(readings') = n + 1 /\ readings'[n + 1] = r
      /\ \A i \in 1..n : readings'[i] = readings[i]
  BY <1>1, <1>2, AppendProperties, LenProperties
<1>4. readings' # <<>> /\ readings'[Len(readings')].meter = meter'
  <2>1. readings' # <<>>
    BY <1>3
  <2>2. QED
    BY <1>1, <1>3, <2>1
<1>5. ASSUME Clean' PROVE Sound
  <2>1. \A i \in 1..(n + 1) : readings'[i].meter \in Reliable
    BY <1>3, <1>5 DEF Clean
  <2>2. readings'[n + 1].meter \in Reliable
    BY <1>3, <2>1
  <2>3. \A i \in 1..n : readings[i].meter \in Reliable
    BY <1>3, <2>1
  <2>4. QED
    BY <1>3, <2>2, <2>3 DEF Sound, Clean
<1>6. ASSUME Sound PROVE ~ stopped' /\ OnTrack' /\ recent # NoData
  <2>1. OnTrack /\ ~ stopped /\ Exchange
    BY <1>1, <1>6, SoundIsOnTrack DEF OnTrack, Going
  <2>2. recent # NoData \/ HasGet(script)
    BY <1>1, <2>1 DEF Exchange, Expects
  <2>3. ~ HasGet(script)
    <3>1. script = <<>>
      BY <1>1 DEF IInv, Progress
    <3>2. QED
      BY <3>1 DEF HasGet
  <2>4. QED
    BY <1>1, <2>1, <2>2, <2>3 DEF OnTrack
<1>7. ReliableReadUntilFailure'
  <2>1. SUFFICES ASSUME NEW i \in 1..Len(readings'),
                        \A k \in 1..i : readings'[k].meter \in Reliable
                 PROVE  readings'[i].data # NoData
    BY DEF ReliableReadUntilFailure
  <2>2. CASE i \in 1..n
    <3>1. \A k \in 1..i : k \in 1..n
      BY <1>3, <2>2
    <3>2. \A k \in 1..i : readings[k].meter \in Reliable
      BY <1>3, <2>1, <3>1
    <3>3. readings[i].data # NoData
      BY <2>2, <3>2 DEF IInv, Progress, ReliableReadUntilFailure
    <3>4. QED
      BY <1>3, <2>2, <3>3
  <2>3. CASE i = n + 1
    <3>1. Clean'
      BY <1>3, <2>1, <2>3 DEF Clean
    <3>2. recent # NoData
      BY <1>5, <1>6, <3>1
    <3>3. QED
      BY <1>3, <2>3, <3>2
  <2>4. QED
    BY <1>3, <2>2, <2>3
<1>8. Sound' => Sound
  BY <1>5 DEF Sound
<1>9. QED
  BY <1>1, <1>4, <1>6, <1>7, <1>8 DEF Progress

LEMMA DestroyStep == ASSUME IInv, Destroy PROVE Progress'
<1>1. pc = "destroy" /\ pc' = "idle" /\ UNCHANGED <<readings, meter, stopped>>
  BY DEF Destroy, session
<1>2. readings # <<>> /\ readings[Len(readings)].meter = meter
  BY <1>1 DEF IInv, Progress
<1>3. Len(readings) \in 1..Len(readings)
  BY <1>2, EmptySeq, LenProperties DEF IInv, OwnInv
<1>4. Sound' => Sound
  BY <1>1, <1>2, <1>3 DEF Sound, Clean
<1>5. ReliableReadUntilFailure'
  BY <1>1 DEF IInv, Progress, ReliableReadUntilFailure
<1>6. QED
  BY <1>1, <1>4, <1>5 DEF IInv, Progress, Going

LEMMA NetworkStep == ASSUME IInv, Network PROVE Progress'
<1>1. UNCHANGED <<readings, meter, pc, script, tries, poll, op, isOpen, stopped,
                  transport, engine, recent>>
  BY DEF Network, ConnectionAttempt, Answer, MeterCloses, session, thread, socket, client
<1>2. Sound => ~ stopped'
  BY <1>1 DEF IInv, Progress
<1>3. SUFFICES ASSUME Sound, Going PROVE OnTrack'
  BY <1>1, <1>2, SameCall
<1>4. OnTrack /\ IsReliable
  BY <1>3, SoundIsOnTrack
<1>5. CASE ConnectionAttempt
  <2>1. op = "connect" /\ outcome' = "ok" /\ UNCHANGED <<asked, inbox, peer>>
    BY <1>4, <1>5 DEF ConnectionAttempt, wire
  <2>2. pc = "open" /\ Opening
    BY <1>4, <2>1 DEF OnTrack
  <2>3. Opening'
    BY <1>1, <2>1, <2>2 DEF Opening, HasGet
  <2>4. QED
    BY <1>1, <1>4, <2>1, <2>2, <2>3 DEF OnTrack
<1>6. CASE Answer
  <2>1. asked # <<>> /\ asked' = Tail(asked) /\ UNCHANGED <<outcome, peer>>
    BY <1>6 DEF Answer, socket
  <2>2. pc # "open"
    BY <1>4, <2>1 DEF OnTrack, Opening
  <2>3. ASSUME NEW a \in Requests, NEW b, asked = <<a>>, inbox = <<>>, Replies(a) = {b}
        PROVE  asked' = <<>> /\ inbox' = <<b>>
    <3>1. Head(asked) = a /\ asked' = <<>>
      BY <2>1, <2>3
    <3>2. inbox' = Append(<<>>, b)
      BY <1>6, <2>3, <3>1 DEF Answer
    <3>3. QED
      BY <3>1, <3>2
  <2>4. /\ Replies("associate") = {"associated"} /\ Replies("Action") = {"done"}
        /\ Replies("Get") = {"data"}
    BY <1>4 DEF Replies
  <2>5. {"associate", "Action", "Get"} \subseteq Requests
    BY DEF Requests
  <2>6. ASSUME Exchange PROVE Exchange'
    <3>1. CASE engine = "opening" /\ Expects("associate", "associated")
      <4>1. /\ asked = <<"associate">> /\ inbox = <<>> /\ poll = "before"
            /\ recent # NoData \/ HasGet(script)
        BY <2>1, <2>6, <3>1 DEF Exchange, Expects
      <4>2. asked' = <<>> /\ inbox' = <<"associated">>
        BY <2>3, <2>4, <2>5, <4>1
      <4>3. QED
        BY <1>1, <3>1, <4>1, <4>2 DEF Exchange, Expects, HasGet
    <3>2. CASE engine = "open" /\ Expects("Action", "done")
      <4>1. /\ asked = <<"Action">> /\ inbox = <<>> /\ poll = "before"
            /\ recent # NoData \/ HasGet(script)
        BY <2>1, <2>6, <3>2 DEF Exchange, Expects
      <4>2. asked' = <<>> /\ inbox' = <<"done">>
        BY <2>3, <2>4, <2>5, <4>1
      <4>3. QED
        BY <1>1, <3>2, <4>1, <4>2 DEF Exchange, Expects, HasGet
    <3>3. CASE engine = "open" /\ Expects("Get", "data")
      <4>1. asked = <<"Get">> /\ inbox = <<>> /\ poll = "before"
        BY <2>1, <3>3 DEF Expects
      <4>2. asked' = <<>> /\ inbox' = <<"data">>
        BY <2>3, <2>4, <2>5, <4>1
      <4>3. QED
        BY <1>1, <3>3, <4>1, <4>2 DEF Exchange, Expects
    <3>4. QED
      BY <2>1, <2>6, <3>1, <3>2, <3>3 DEF Exchange
  <2>7. QED
    BY <1>1, <1>4, <2>1, <2>2, <2>6 DEF OnTrack
<1>7. CASE MeterCloses
  BY <1>4, <1>7 DEF MeterCloses
<1>8. QED
  BY <1>5, <1>6, <1>7 DEF Network

LEMMA ProgressNext == ASSUME IInv, [Next]_vars PROVE Progress'
<1>1. CASE UNCHANGED vars
  BY <1>1 DEF vars, IInv, Progress, Sound, Going, Clean, OnTrack, Opening, Exchange, Expects,
     HasGet, ReliableReadUntilFailure
<1>5. CASE Died
  <2>1. pc # "idle" /\ pc' # "idle" /\ UNCHANGED <<readings, meter, stopped>>
    BY <1>5, DiedKeeps DEF IInv, Types
  <2>2. Sound' <=> Sound
    BY <2>1 DEF Sound, Clean
  <2>3. ~ Going' /\ pc' # "destroy" /\ pc' # "close"
    BY <1>5, DiedKeeps DEF Going
  <2>4. ReliableReadUntilFailure'
    BY <2>1 DEF IInv, Progress, ReliableReadUntilFailure
  <2>5. QED
    BY <2>1, <2>2, <2>3, <2>4 DEF IInv, Progress
<1>2. CASE Poll /\ ~ Died
  BY <1>2, BeginPollStep, EndPollStep, HandlerStep DEF Poll
<1>3. CASE Thread
  BY <1>3, BeginSessionStep, OpenStep, RequestStep, CloseStep, DestroyStep DEF Thread
<1>4. QED
  BY <1>1, <1>2, <1>3, <1>5, NetworkStep DEF Next

LEMMA IInvAlways == Spec => []IInv
<1>1. Init => IInv
  BY OwnInit, SocketInit, TypesInit, ProgressInit DEF IInv
<1>2. IInv /\ [Next]_vars => IInv'
  BY OwnNext, SocketNext, TypesNext, ProgressNext DEF IInv
<1>3. QED
  BY <1>1, <1>2, PTL DEF Spec

(* Types, and a socket reads as long as the wrapper takes it for connected *)
(* (ASIO_Connect_Handler, m_Connect and m_Close).                          *)
THEOREM TypeCorrect == Spec => []TypeOK
<1>1. IInv => TypeOK
  <2>. SUFFICES ASSUME IInv PROVE TypeOK
    OBVIOUS
  <2>1. sockets \in 0..MaxSessions
    BY CountsAssumption DEF IInv, Types
  <2>2. recent \in Meters \cup {NoData}
    BY DEF IInv, Types, OwnInv
  <2>3. QED
    BY <2>1, <2>2 DEF IInv, Types, OwnInv, Reading, TypeOK, Answers, Postings
<1>2. QED
  BY <1>1, IInvAlways, PTL

(* As long as no meter failed, every session's one poll per step brings    *)
(* its data (runScript, open() and max_tries).                             *)
THEOREM ReliableMetersAreRead == Spec => []ReliableReadUntilFailure
<1>1. IInv => ReliableReadUntilFailure
  BY DEF IInv, Progress
<1>2. QED
  BY <1>1, IInvAlways, PTL
=============================================================================
