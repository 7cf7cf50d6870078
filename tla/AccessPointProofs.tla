------------------------- MODULE AccessPointProofs -------------------------
(***************************************************************************)
(* Proofs about AccessPoint: its invariants hold for every set of meters   *)
(* and requests, any number of connections and any buffer size, and its    *)
(* steps implement the safety part of ReadingService.                      *)
(***************************************************************************)
EXTENDS AccessPoint, SequenceTheorems, TLAPS

(* What the buffer may hold is a request over the names.                   *)
LEMMA InBufferType ==
  ASSUME NEW r \in Requests, NEW b \in InBuffer(r)
  PROVE  b \in Request
<1>. USE RequestsAssumption, BoundsAssumption
<1>1. r \in [size : Payload, meters : Seq(Meters)]
  OBVIOUS
<1>2. r.meters \in Seq(Names) /\ r.size \in Payload
  BY <1>1, SeqMonotonic DEF Names
<1>3. CASE Len(r.meters) <= BufferNames
  BY <1>1, <1>2, <1>3 DEF InBuffer, Request
<1>4. CASE ~(Len(r.meters) <= BufferNames)
  <2>1. PICK last \in {<<>>, <<CutName>>} :
              b = [r EXCEPT !.meters = SubSeq(@, 1, BufferNames) \o last]
    BY <1>4 DEF InBuffer
  <2>2. last \in Seq(Names)
    <3>1. CutName \in Names
      BY DEF Names
    <3>. QED
      BY <3>1, <<>> \in Seq(Names), <<CutName>> \in Seq(Names)
  <2>3. SubSeq(r.meters, 1, BufferNames) \in Seq(Names)
    <3>1. Len(r.meters) \in Nat
      BY <1>2, LenProperties
    <3>. QED
      BY <1>2, <1>4, <3>1
  <2>4. SubSeq(r.meters, 1, BufferNames) \o last \in Seq(Names)
    BY <2>2, <2>3, ConcatProperties
  <2>. QED
    BY <1>1, <2>1, <2>4 DEF Request
<1>. QED
  BY <1>2, <1>3, <1>4

LEMMA ReceivedType ==
  ASSUME NEW c \in Connection, NEW d \in Received(c)
  PROVE  d \in Seq(Request) /\ Len(d) <= 1
<1>1. CASE d = <<>>
  BY <1>1
<1>2. CASE d # <<>>
  <2>1. PICK r \in InBuffer(c.request) : d = <<r>>
    BY <1>2 DEF Received
  <2>2. r \in Request
    BY InBufferType DEF Connection
  <2>. QED
    BY <2>1, <2>2
<1>. QED
  BY <1>1, <1>2
-----------------------------------------------------------------------------
(* Type correctness.                                                       *)

LEMMA TypeInit == Init => TypeOK
BY BoundsAssumption DEF Init, TypeOK, Payload

LEMMA TypeMain == TypeOK /\ Main => TypeOK'
<1>. SUFFICES ASSUME TypeOK, Main PROVE TypeOK'
  OBVIOUS
<1>. USE DEF TypeOK, config, server, script
<1>1. CASE CopyMeters
  BY <1>1 DEF CopyMeters
<1>2. CASE OpenSession
  BY <1>2 DEF OpenSession
<1>3. CASE ReadMeter
  <2>1. [meter |-> meters[next], size |-> payload_size_] \in Reading
    BY <1>3 DEF ReadMeter, Reading
  <2>2. result' \in Seq(Reading)
    BY <1>3, <2>1, AppendProperties DEF ReadMeter
  <2>. QED
    BY <1>3, <2>2 DEF ReadMeter
<1>4. CASE PrintReadings
  BY <1>4 DEF PrintReadings
<1>5. CASE Clear
  BY <1>5 DEF Clear
<1>6. CASE WakeUp
  BY <1>6 DEF WakeUp
<1>. QED
  BY <1>1, <1>2, <1>3, <1>4, <1>5, <1>6 DEF Main

LEMMA TypeRegs == TypeOK /\ Regs => TypeOK'
<1>. SUFFICES ASSUME TypeOK, Regs PROVE TypeOK'
  OBVIOUS
<1>1. CASE Accept
  <2>1. backlog # <<>> /\ backlog' = Tail(backlog) /\ backlog \in Seq(Connection)
    BY <1>1 DEF Accept, TypeOK
  <2>2. backlog[1] \in Connection /\ backlog' \in Seq(Connection)
    BY <2>1, HeadTailProperties
  <2>3. data' \in Seq(Request) /\ Len(data') <= 1
    BY <1>1, <2>2, ReceivedType DEF Accept, TypeOK
  <2>4. regs' \in {"accepting", "reading", "ended"}
    BY <1>1 DEF Accept
  <2>. QED
    BY <1>1, <2>2, <2>3, <2>4 DEF Accept, TypeOK, config, script
<1>2. CASE HandleRead
  <2>1. CASE data = <<>>
    BY <1>2, <2>1 DEF HandleRead, TypeOK, config, script
  <2>2. CASE data # <<>>
    <3>1. data[1] \in Request
      BY <2>2 DEF TypeOK
    <3>2. log' = Append(log, data[1]) /\ log \in Seq(Request)
      BY <1>2, <2>2 DEF HandleRead, TypeOK
    <3>3. log' \in Seq(Request) /\ Len(log') = Len(log) + 1
      BY <3>1, <3>2, AppendProperties
    <3>4. payload_size_' \in Payload /\ meters_' \in Seq(Names)
      BY <1>2, <2>2, <3>1 DEF HandleRead, Request
    <3>5. taken' \in 0..Len(log')
      BY <1>2, <3>2, <3>3 DEF HandleRead, TypeOK, script
    <3>. QED
      BY <1>2, <3>3, <3>4, <3>5 DEF HandleRead, TypeOK, script
  <2>. QED
    BY <2>1, <2>2
<1>. QED
  BY <1>1, <1>2 DEF Regs

LEMMA TypePeers == TypeOK /\ Peers => TypeOK'
<1>. SUFFICES ASSUME TypeOK, Peers PROVE TypeOK'
  OBVIOUS
<1>. USE DEF config, script
<1>1. ASSUME NEW r \in Requests, Connect(r) PROVE TypeOK'
  <2>1. [request |-> r, sent |-> FALSE, reset |-> FALSE] \in Connection
    BY DEF Connection
  <2>2. backlog' \in Seq(Connection)
    BY <1>1, <2>1, AppendProperties DEF Connect, TypeOK
  <2>. QED
    BY <1>1, <2>2, BoundsAssumption DEF Connect, TypeOK
<1>2. ASSUME NEW i \in 1..Len(backlog), Send(i) PROVE TypeOK'
  <2>1. backlog[i] \in Connection
    BY DEF TypeOK
  <2>2. backlog' = [backlog EXCEPT ![i] = [backlog[i] EXCEPT !.sent = TRUE]]
    BY <1>2 DEF Send
  <2>3. [backlog[i] EXCEPT !.sent = TRUE] \in Connection
    BY <2>1 DEF Connection
  <2>4. backlog' \in Seq(Connection)
    BY <2>2, <2>3, ExceptSeq DEF TypeOK
  <2>. QED
    BY <1>2, <2>4 DEF Send, TypeOK
<1>3. ASSUME NEW i \in 1..Len(backlog), Reset(i) PROVE TypeOK'
  <2>1. backlog[i] \in Connection
    BY DEF TypeOK
  <2>2. backlog' = [backlog EXCEPT ![i] = [backlog[i] EXCEPT !.reset = TRUE]]
    BY <1>3 DEF Reset
  <2>3. [backlog[i] EXCEPT !.reset = TRUE] \in Connection
    BY <2>1 DEF Connection
  <2>4. backlog' \in Seq(Connection)
    BY <2>2, <2>3, ExceptSeq DEF TypeOK
  <2>. QED
    BY <1>3, <2>4 DEF Reset, TypeOK
<1>. QED
  BY <1>1, <1>2, <1>3 DEF Peers

LEMMA TypeNext == TypeOK /\ [Next]_vars => TypeOK'
<1>1. TypeOK /\ UNCHANGED vars => TypeOK'
  BY DEF TypeOK, vars
<1>. QED
  BY <1>1, TypeMain, TypeRegs, TypePeers DEF Next

(* Every variable of the Access Point keeps its type, and the loop of      *)
(* runScript stays on its list, for every set of meters and requests.      *)
THEOREM TypeCorrect == Spec => []TypeOK
BY TypeInit, TypeNext, PTL DEF Spec
-----------------------------------------------------------------------------
(* The inductive invariant of the readings.  That Config is the latest     *)
(* request is what CopyMeters needs for the copied list to be that of one  *)
(* request, and what ReadMeter needs for the size to be a requested one.   *)
RInv ==
  /\ TypeOK
  /\ ConfigIsLatest
  /\ RoundReadsOneList
  /\ SizesWereRequested
  /\ QuietRoundKeepsList

LEMMA MetersOfType ==
  ASSUME NEW s \in Seq(Reading)
  PROVE  /\ MetersOf(s) \in Seq(Names)
         /\ Len(MetersOf(s)) = Len(s)
         /\ \A i \in 1..Len(s) : MetersOf(s)[i] = s[i].meter
<1>1. ASSUME NEW i \in 1..Len(s) PROVE s[i].meter \in Names
  <2>1. s[i] \in Reading
    OBVIOUS
  <2>. QED
    BY <2>1 DEF Reading
<1>2. Len(s) \in Nat
  BY LenProperties
<1>. QED
  BY <1>1, <1>2 DEF MetersOf

(* One more reading extends the list of meters read by one.                *)
LEMMA MetersOfAppend ==
  ASSUME NEW s \in Seq(Reading), NEW e \in Reading
  PROVE  MetersOf(Append(s, e)) = Append(MetersOf(s), e.meter)
<1>1. Append(s, e) \in Seq(Reading) /\ Len(Append(s, e)) = Len(s) + 1
  BY AppendProperties
<1>2. Len(s) \in Nat /\ e.meter \in Names
  BY LenProperties DEF Reading
<1>3. /\ Append(MetersOf(s), e.meter) \in Seq(Names)
      /\ Len(Append(MetersOf(s), e.meter)) = Len(s) + 1
  BY <1>2, MetersOfType, AppendProperties
<1>4. ASSUME NEW i \in 1..(Len(s) + 1)
      PROVE  MetersOf(Append(s, e))[i] = Append(MetersOf(s), e.meter)[i]
  <2>1. MetersOf(Append(s, e))[i] = Append(s, e)[i].meter
    BY <1>1, <1>2, MetersOfType
  <2>2. CASE i = Len(s) + 1
    BY <1>2, <2>1, <2>2, MetersOfType, AppendProperties
  <2>3. CASE i # Len(s) + 1
    <3>1. i \in 1..Len(s)
      BY <1>2, <2>3
    <3>2. Append(s, e)[i] = s[i]
      BY <3>1, AppendProperties
    <3>3. Append(MetersOf(s), e.meter)[i] = MetersOf(s)[i]
      BY <1>2, <3>1, MetersOfType, AppendProperties
    <3>. QED
      BY <2>1, <3>1, <3>2, <3>3, MetersOfType
  <2>. QED
    BY <2>2, <2>3
<1>5. MetersOf(Append(s, e)) \in Seq(Names) /\ Len(MetersOf(Append(s, e))) = Len(s) + 1
  BY <1>1, MetersOfType
<1>. QED
  BY <1>3, <1>4, <1>5, SeqEqual

LEMMA RInit == Init => RInv
<1>1. Init => ConfigIsLatest /\ SizesWereRequested /\ QuietRoundKeepsList
  BY DEF Init, ConfigIsLatest, SizesWereRequested, QuietRoundKeepsList, SizeAt,
         ListAt, InRound
<1>2. Init => RoundReadsOneList
  BY DEF Init, RoundReadsOneList, InRound
<1>. QED
  BY <1>1, <1>2, TypeInit DEF RInv

(* The first part of a round: a list is copied, a session is opened.       *)
LEMMA RCopyMeters == RInv /\ CopyMeters => RInv'
<1>. SUFFICES ASSUME RInv, CopyMeters PROVE RInv'
  OBVIOUS
<1>. USE DEF CopyMeters, config, server, SizeAt, ListAt, InRound
<1>1. TypeOK'
  BY TypeMain DEF RInv, Main
<1>2. Len(log) \in Nat /\ meters_ \in Seq(Names)
  BY LenProperties DEF RInv, TypeOK
<1>3. ConfigIsLatest'
  BY DEF RInv, ConfigIsLatest
<1>4. RoundReadsOneList'
  <2>1. MetersOf(result') = <<>> /\ SubSeq(meters', 1, next' - 1) = <<>>
    BY <1>2, SubSeqEmpty DEF MetersOf
  <2>. QED
    BY <2>1 DEF RInv, ConfigIsLatest, RoundReadsOneList
<1>5. SizesWereRequested' /\ QuietRoundKeepsList'
  BY DEF SizesWereRequested, QuietRoundKeepsList
<1>. QED
  BY <1>1, <1>3, <1>4, <1>5 DEF RInv

LEMMA ROpenSession == RInv /\ OpenSession => RInv'
<1>. SUFFICES ASSUME RInv, OpenSession PROVE RInv'
  OBVIOUS
<1>. USE DEF OpenSession, config, server, SizeAt, ListAt, InRound
<1>1. TypeOK'
  BY TypeMain DEF RInv, Main
<1>2. ConfigIsLatest'
  BY DEF RInv, ConfigIsLatest
<1>3. RoundReadsOneList'
  BY DEF RInv, RoundReadsOneList, MetersOf
<1>4. SizesWereRequested' /\ QuietRoundKeepsList'
  BY DEF RInv, SizesWereRequested, QuietRoundKeepsList
<1>. QED
  BY <1>1, <1>2, <1>3, <1>4 DEF RInv

(* One meter is read: the readings grow by the meter at the loop's         *)
(* position, with the size that Config holds now.                          *)
LEMMA RReadMeter == RInv /\ ReadMeter => RInv'
<1>. SUFFICES ASSUME RInv, ReadMeter PROVE RInv'
  OBVIOUS
<1>. DEFINE e == [meter |-> meters[next], size |-> payload_size_]
<1>1. TypeOK'
  BY TypeMain DEF RInv, Main
<1>2. ConfigIsLatest'
  BY DEF RInv, ConfigIsLatest, ReadMeter, config, SizeAt, ListAt
<1>3. /\ result \in Seq(Reading) /\ meters \in Seq(Names) /\ Len(meters) \in Nat
      /\ next \in 1..Len(meters) /\ meters[next] \in Names
      /\ result' = Append(result, e) /\ next' = next + 1 /\ meters' = meters
      /\ e \in Reading
  BY LenProperties DEF RInv, TypeOK, ReadMeter, Reading
<1>4. RoundReadsOneList'
  <2>1. MetersOf(result') = Append(SubSeq(meters, 1, next - 1), meters[next])
    BY <1>3, MetersOfAppend DEF RInv, RoundReadsOneList, InRound, ReadMeter
  <2>2. SubSeq(meters, 1, next) = SubSeq(meters, 1, next - 1) \o <<meters[next]>>
    BY <1>3, SubSeqRecursiveSecond
  <2>3. SubSeq(meters, 1, next - 1) \in Seq(Names)
    BY <1>3, SubSeqProperties
  <2>4. MetersOf(result') = SubSeq(meters', 1, next' - 1)
    <3>1. next' - 1 = next
      BY <1>3
    <3>2. Append(SubSeq(meters, 1, next - 1), meters[next])
            = SubSeq(meters, 1, next - 1) \o <<meters[next]>>
      BY <1>3, <2>3, AppendIsConcat
    <3>. QED
      BY <1>3, <2>1, <2>2, <3>1, <3>2
  <2>5. meters' \in {<<>>, ListAt(taken)'} /\ pc' = "loop"
    BY DEF RInv, RoundReadsOneList, ReadMeter, ListAt
  <2>. QED
    BY <2>4, <2>5 DEF RoundReadsOneList
<1>5. SizesWereRequested'
  <2>1. Len(log) \in taken..Len(log)
    BY LenProperties DEF RInv, TypeOK
  <2>. SUFFICES ASSUME NEW i \in 1..Len(result')
                PROVE  \E k \in taken..Len(log) : result'[i].size = SizeAt(k)
    BY DEF SizesWereRequested, ReadMeter, SizeAt
  <2>2. CASE i = Len(result) + 1
    <3>1. result'[i].size = payload_size_
      BY <1>3, <2>2, AppendProperties
    <3>. QED
      BY <2>1, <3>1 DEF RInv, ConfigIsLatest
  <2>3. CASE i # Len(result) + 1
    <3>1. i \in 1..Len(result) /\ result'[i] = result[i]
      BY <1>3, <2>3, AppendProperties
    <3>. QED
      BY <3>1 DEF RInv, SizesWereRequested
  <2>. QED
    BY <2>2, <2>3
<1>6. QuietRoundKeepsList'
  BY DEF RInv, QuietRoundKeepsList, ReadMeter, config, InRound
<1>. QED
  BY <1>1, <1>2, <1>4, <1>5, <1>6 DEF RInv

(* The loop ended: all meters of the list were read.                       *)
LEMMA RPrintReadings == RInv /\ PrintReadings => RInv'
<1>. SUFFICES ASSUME RInv, PrintReadings PROVE RInv'
  OBVIOUS
<1>. USE DEF PrintReadings, config, server, SizeAt, ListAt, InRound
<1>1. TypeOK'
  BY TypeMain DEF RInv, Main
<1>2. ConfigIsLatest'
  BY DEF RInv, ConfigIsLatest
<1>3. RoundReadsOneList'
  <2>1. meters \in Seq(Names) /\ next - 1 = Len(meters)
    <3>1. /\ meters \in Seq(Names) /\ next > Len(meters)
          /\ next \in 1..(Len(meters) + 1)
      BY DEF RInv, TypeOK
    <3>2. Len(meters) \in Nat
      BY <3>1, LenProperties
    <3>. QED
      BY <3>1, <3>2
  <2>2. MetersOf(meterdata') = meters'
    BY <2>1, SubSeqFull DEF RInv, RoundReadsOneList, MetersOf
  <2>. QED
    BY <2>2 DEF RInv, RoundReadsOneList
<1>4. SizesWereRequested' /\ QuietRoundKeepsList'
  BY DEF RInv, SizesWereRequested, QuietRoundKeepsList
<1>. QED
  BY <1>1, <1>2, <1>3, <1>4 DEF RInv

LEMMA RClearWakeUp == RInv /\ (Clear \/ WakeUp) => RInv'
<1>. SUFFICES ASSUME RInv, Clear \/ WakeUp PROVE RInv'
  OBVIOUS
<1>. USE DEF Clear, WakeUp, config, server, SizeAt, ListAt, InRound
<1>1. TypeOK'
  BY TypeMain DEF RInv, Main
<1>2. ConfigIsLatest'
  BY DEF RInv, ConfigIsLatest
<1>3. RoundReadsOneList'
  BY DEF RInv, RoundReadsOneList
<1>4. SizesWereRequested' /\ QuietRoundKeepsList'
  BY DEF RInv, SizesWereRequested, QuietRoundKeepsList
<1>. QED
  BY <1>1, <1>2, <1>3, <1>4 DEF RInv

(* A request is interpreted: what earlier requests said stays as it was,   *)
(* and a round under way is no longer quiet.                               *)
LEMMA RHandleRead == RInv /\ HandleRead => RInv'
<1>. SUFFICES ASSUME RInv, HandleRead PROVE RInv'
  OBVIOUS
<1>1. TypeOK'
  BY TypeRegs DEF RInv, Regs
<1>2. CASE data = <<>>
  <2>1. UNCHANGED <<payload_size_, meters_, log, pc, meters, next, result, meterdata, taken>>
    BY <1>2 DEF HandleRead, config, script
  <2>. QED
    BY <1>1, <2>1 DEF RInv, ConfigIsLatest, RoundReadsOneList, SizesWereRequested,
       QuietRoundKeepsList, SizeAt, ListAt, InRound, MetersOf
<1>3. CASE data # <<>>
  <2>1. /\ payload_size_' = data[1].size /\ meters_' = data[1].meters
        /\ log' = Append(log, data[1]) /\ data[1] \in Request /\ log \in Seq(Request)
        /\ UNCHANGED <<pc, meters, next, result, meterdata, taken>>
    BY <1>3 DEF HandleRead, script, RInv, TypeOK
  <2>2. /\ Len(log) \in Nat /\ Len(log') = Len(log) + 1
        /\ log'[Len(log) + 1] = data[1]
        /\ \A k \in 1..Len(log) : log'[k] = log[k]
    BY <2>1, AppendProperties, LenProperties
  <2>3. \A k \in 0..Len(log) : SizeAt(k)' = SizeAt(k) /\ ListAt(k)' = ListAt(k)
    BY <2>2 DEF SizeAt, ListAt
  <2>4. taken \in 0..Len(log)
    BY DEF RInv, TypeOK
  <2>5. ConfigIsLatest'
    BY <2>1, <2>2 DEF ConfigIsLatest, SizeAt, ListAt
  <2>6. RoundReadsOneList'
    <3>1. ListAt(taken)' = ListAt(taken)
      BY <2>1, <2>3, <2>4 DEF ListAt
    <3>. QED
      BY <2>1, <3>1 DEF RInv, RoundReadsOneList, InRound, MetersOf
  <2>7. SizesWereRequested'
    <3>. SUFFICES ASSUME NEW i \in 1..Len(result)
                  PROVE  \E k \in taken..Len(log') : result[i].size = SizeAt(k)'
      BY <2>1 DEF SizesWereRequested
    <3>1. PICK k \in taken..Len(log) : result[i].size = SizeAt(k)
      BY DEF RInv, SizesWereRequested
    <3>2. k \in taken..Len(log') /\ SizeAt(k)' = SizeAt(k)
      BY <2>2, <2>3, <2>4
    <3>. QED
      BY <3>1, <3>2
  <2>8. QuietRoundKeepsList'
    BY <2>1, <2>2, <2>4 DEF QuietRoundKeepsList
  <2>. QED
    BY <1>1, <2>5, <2>6, <2>7, <2>8 DEF RInv
<1>. QED
  BY <1>2, <1>3

(* Peers and accept do not touch what the invariant speaks of.             *)
LEMMA RAcceptPeers == RInv /\ (Accept \/ Peers) => RInv'
<1>. SUFFICES ASSUME RInv, Accept \/ Peers PROVE RInv'
  OBVIOUS
<1>1. TypeOK'
  BY TypeRegs, TypePeers DEF RInv, Regs
<1>2. UNCHANGED <<payload_size_, meters_, log, pc, meters, next, result, meterdata, taken>>
  BY DEF Accept, Peers, Connect, Send, Reset, config, script
<1>. QED
  BY <1>1, <1>2 DEF RInv, ConfigIsLatest, RoundReadsOneList, SizesWereRequested,
     QuietRoundKeepsList, SizeAt, ListAt, InRound, MetersOf

LEMMA RNext == RInv /\ [Next]_vars => RInv'
<1>1. RInv /\ UNCHANGED vars => RInv'
  BY DEF RInv, TypeOK, ConfigIsLatest, RoundReadsOneList, SizesWereRequested,
     QuietRoundKeepsList, SizeAt, ListAt, InRound, MetersOf, vars
<1>. QED
  BY <1>1, RCopyMeters, ROpenSession, RReadMeter, RPrintReadings, RClearWakeUp,
     RHandleRead, RAcceptPeers DEF Next, Main, Regs

LEMMA RInvariant == Spec => []RInv
BY RInit, RNext, PTL DEF Spec

(* Whatever arrives while a round runs, the round reads one request's      *)
(* list, each meter once and in order, and prints all of it.               *)
THEOREM RoundIsOneList == Spec => []RoundReadsOneList
BY RInvariant, PTL DEF RInv

(* A meter is only asked for a size that the answered request, or one that *)
(* came during the round, carried.                                         *)
THEOREM SizeIsRequested == Spec => []SizesWereRequested
BY RInvariant, PTL DEF RInv

(* clear() cannot lose anything unless a request came during the round.    *)
THEOREM QuietRoundLosesNothing == Spec => []QuietRoundKeepsList
BY RInvariant, PTL DEF RInv
-----------------------------------------------------------------------------
(* The steps of the Access Point are steps of the reading service.         *)

LEMMA ServiceInit == Init => Service!Init
BY DEF Init, Service!Init, InRound, MetersOf

LEMMA ServiceMain == RInv /\ Main => [Service!Next]_Service!vars
<1>. SUFFICES ASSUME RInv, Main PROVE [Service!Next]_Service!vars
  OBVIOUS
<1>. USE DEF config, server, InRound, MetersOf, Service!Next, Service!Round, Service!vars
<1>1. CASE CopyMeters
  BY <1>1 DEF CopyMeters, Service!Begin
<1>2. CASE OpenSession
  BY <1>2 DEF OpenSession
<1>3. CASE ReadMeter
  BY <1>3 DEF ReadMeter
<1>4. CASE PrintReadings
  <2>1. MetersOf(meterdata') = meters
    BY <1>4, RPrintReadings DEF PrintReadings, RInv, RoundReadsOneList
  <2>. QED
    BY <1>4, <2>1 DEF PrintReadings, Service!Report
<1>5. CASE Clear
  BY <1>5 DEF Clear, Service!Forget
<1>6. CASE WakeUp
  BY <1>6 DEF WakeUp
<1>. QED
  BY <1>1, <1>2, <1>3, <1>4, <1>5, <1>6 DEF Main

LEMMA ServiceOthers == RInv /\ (Regs \/ Peers) => [Service!Next]_Service!vars
<1>. SUFFICES ASSUME RInv, Regs \/ Peers PROVE [Service!Next]_Service!vars
  OBVIOUS
<1>1. UNCHANGED <<pc, meters, meterdata>>
  BY DEF Regs, Accept, HandleRead, Peers, Connect, Send, Reset, script
<1>2. meters_' \in Seq(Names)
  BY TypeRegs, TypePeers DEF RInv, TypeOK
<1>. QED
  BY <1>1, <1>2 DEF Service!Next, Service!Submit, Service!vars, InRound, MetersOf

(* Every report names exactly the meters of one list that was waiting when *)
(* its round began: the Access Point implements the reading service.       *)
THEOREM ServiceIsImplemented == Spec => Service!Safe
<1>1. RInv /\ [Next]_vars => [Service!Next]_Service!vars
  <2>1. UNCHANGED vars => UNCHANGED Service!vars
    BY DEF vars, Service!vars, InRound, MetersOf
  <2>. QED
    BY <2>1, ServiceMain, ServiceOthers DEF Next
<1>. QED
  BY <1>1, ServiceInit, RInvariant, PTL DEF Spec, Service!Safe
=============================================================================
