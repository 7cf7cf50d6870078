-------------------------- MODULE DirectReadProofs --------------------------
(* Theorems about DirectRead: a pass that reports success has asked every  *)
(* meter everything, and nothing can stop the io_service of a first pass   *)
(* that has the meters to itself.                                          *)
EXTENDS DirectRead, SequenceTheorems, TLAPS

Requests == {"associate", "remote_reconnect", "clock", "data", "release"}

Types ==
  /\ pc \in {"asleep", "between", "open", "serviceConnect", "clock", "data", "close", "destroy"}
  /\ session \in Nat
  /\ result \in BOOLEAN /\ complete \in BOOLEAN /\ stopped \in BOOLEAN
  /\ op \in {"resolve", "connect", "read", "none"} /\ outcome \in {"none", "ok", "refused"}
  /\ association \in {"closed", "opening", "open"}
  /\ asked \in Seq(Requests) /\ answered \in Nat
  /\ rivals \in Nat

(* What a session has sent when it has come so far without a failure.      *)
Sent1 == <<"associate">>
Sent2 == Append(Sent1, "remote_reconnect")
Sent3 == Append(Sent2, "clock")
Sent4 == Append(Sent3, "data")
AllSent == IsPrefix(<<"associate", "remote_reconnect", "clock", "data">>, asked)

(* How far the script has come, and what its result says of it.            *)
Script ==
  /\ pc = "open" => asked = <<>> /\ association = "closed"
  /\ pc = "serviceConnect" => association = "closed" \/ asked = Sent1
  /\ pc = "clock" => ~result \/ (asked = Sent2 /\ answered > 0)
  /\ pc = "data" => ~result \/ (asked = Sent3 /\ answered > 0)
  /\ pc = "close" => ~result \/ (asked = Sent4 /\ answered > 0)
  /\ pc = "destroy" => ~result \/ (AllSent /\ answered > 0)
  /\ association = "open" => answered > 0
  /\ complete \/ ~result
  /\ stopped => op \in {"resolve", "none"}

ScriptInv == Types /\ Script

LEMMA SentTypes ==
  /\ Sent1 \in Seq(Requests) /\ Sent2 \in Seq(Requests)
  /\ Sent3 \in Seq(Requests) /\ Sent4 \in Seq(Requests)
<1>1. Sent1 \in Seq(Requests)
  BY DEF Sent1, Requests
<1>2. Sent2 \in Seq(Requests)
  BY <1>1, AppendProperties DEF Sent2, Requests
<1>3. Sent3 \in Seq(Requests)
  BY <1>2, AppendProperties DEF Sent3, Requests
<1>4. QED
  BY <1>1, <1>2, <1>3, AppendProperties DEF Sent4, Requests

LEMMA Longer ==
  ASSUME NEW s \in Seq(Requests), NEW n \in Nat, Len(s) = n, NEW request \in Requests
  PROVE  /\ Len(Append(s, request)) = n + 1
         /\ Append(s, request)[n + 1] = request
         /\ \A i \in 1..n : Append(s, request)[i] = s[i]
BY AppendProperties

LEMMA SentInOrder ==
  LET script == <<"associate", "remote_reconnect", "clock", "data">> IN
  Sent4 = script /\ IsPrefix(script, script) /\ IsPrefix(script, Append(script, "release"))
<1> DEFINE script == <<"associate", "remote_reconnect", "clock", "data">>
<1>1. script \in Seq(Requests) /\ Len(script) = 4
  BY DEF Requests
<1>2. Len(Sent1) = 1 /\ Sent1[1] = "associate"
  BY DEF Sent1
<1>a. "remote_reconnect" \in Requests
  BY DEF Requests
<1>b. "clock" \in Requests
  BY DEF Requests
<1>c. "data" \in Requests
  BY DEF Requests
<1>3. Len(Sent2) = 2 /\ Sent2[1] = "associate" /\ Sent2[2] = "remote_reconnect"
  <2>1. Sent1 \in Seq(Requests) /\ Len(Sent1) = 1 /\ 1 \in Nat
    BY <1>2, SentTypes
  <2>2. LET s == Append(Sent1, "remote_reconnect") IN
        Len(s) = 1 + 1 /\ s[1 + 1] = "remote_reconnect" /\ \A i \in 1..1 : s[i] = Sent1[i]
    BY <1>a, <2>1, Longer
  <2>3. Len(Sent2) = 1 + 1 /\ Sent2[1 + 1] = "remote_reconnect" /\ \A i \in 1..1 : Sent2[i] = Sent1[i]
    BY <2>2, Zenon DEF Sent2
  <2>4. QED
    BY <1>2, <2>3
<1>4. Len(Sent3) = 3 /\ Sent3[1] = "associate" /\ Sent3[2] = "remote_reconnect" /\ Sent3[3] = "clock"
  <2>1. Sent2 \in Seq(Requests) /\ Len(Sent2) = 2 /\ 2 \in Nat
    BY <1>3, SentTypes
  <2>2. LET s == Append(Sent2, "clock") IN
        Len(s) = 2 + 1 /\ s[2 + 1] = "clock" /\ \A i \in 1..2 : s[i] = Sent2[i]
    BY <1>b, <2>1, Longer
  <2>3. Len(Sent3) = 2 + 1 /\ Sent3[2 + 1] = "clock" /\ \A i \in 1..2 : Sent3[i] = Sent2[i]
    BY <2>2, Zenon DEF Sent3
  <2>4. QED
    BY <1>3, <2>3
<1>5. /\ Len(Sent4) = 4 /\ Sent4[1] = "associate" /\ Sent4[2] = "remote_reconnect"
      /\ Sent4[3] = "clock" /\ Sent4[4] = "data"
  <2>1. Sent3 \in Seq(Requests) /\ Len(Sent3) = 3 /\ 3 \in Nat
    BY <1>4, SentTypes
  <2>2. LET s == Append(Sent3, "data") IN
        Len(s) = 3 + 1 /\ s[3 + 1] = "data" /\ \A i \in 1..3 : s[i] = Sent3[i]
    BY <1>c, <2>1, Longer
  <2>3. Len(Sent4) = 3 + 1 /\ Sent4[3 + 1] = "data" /\ \A i \in 1..3 : Sent4[i] = Sent3[i]
    BY <2>2, Zenon DEF Sent4
  <2>4. QED
    BY <1>4, <2>3
<1>6. Sent4 = script
  <2>1. script[1] = "associate" /\ script[2] = "remote_reconnect" /\ script[3] = "clock" /\ script[4] = "data"
    OBVIOUS
  <2>2. \A i \in 1..Len(Sent4) : Sent4[i] = script[i]
    BY <1>5, <2>1
  <2>3. QED
    BY <1>1, <1>5, <2>2, SentTypes, SeqEqual
<1>7. IsPrefix(script, script)
  BY <1>1 DEF IsPrefix
<1>8. IsPrefix(script, Append(script, "release"))
  <2> DEFINE longer == Append(script, "release")
  <2>1. /\ longer \in Seq(Requests) /\ Len(longer) = 5
        /\ \A i \in 1..4 : longer[i] = script[i]
    BY <1>1, AppendProperties DEF Requests
  <2>2. SubSeq(script, 1, 4) = SubSeq(longer, 1, 4)
    <3>1. /\ SubSeq(script, 1, 4) \in Seq(Requests) /\ Len(SubSeq(script, 1, 4)) = 4
          /\ \A i \in 1..4 : SubSeq(script, 1, 4)[i] = script[i]
      BY <1>1, SubSeqProperties
    <3>2. /\ SubSeq(longer, 1, 4) \in Seq(Requests) /\ Len(SubSeq(longer, 1, 4)) = 4
          /\ \A i \in 1..4 : SubSeq(longer, 1, 4)[i] = longer[i]
      BY <2>1, SubSeqProperties
    <3>3. QED
      BY <2>1, <3>1, <3>2, SeqEqual
  <2>3. QED
    BY <1>1, <2>1, <2>2 DEF IsPrefix
<1>9. QED
  BY <1>6, <1>7, <1>8

(* What a poll may find.                                                   *)
LEMMA PolledIs ==
  ASSUME ScriptInv
  PROVE  /\ Polled.op \in {"resolve", "connect", "read", "none"}
         /\ Polled.association \in {"closed", "opening", "open"}
         /\ Polled.stopped \in BOOLEAN
         /\ Polled.stopped => Polled.op \in {"resolve", "none"}
         /\ association = "closed" => Polled.association = "closed"
         /\ Polled.association = "open" => answered > 0
BY DEF ScriptInv, Types, Script, Polled

LEMMA ScriptInit == Init => ScriptInv
<1> SUFFICES ASSUME Init PROVE ScriptInv
  OBVIOUS
<1>1. <<>> \in Seq(Requests)
  OBVIOUS
<1>2. Types
  BY <1>1 DEF Init, Types
<1>3. Script
  BY DEF Init, Script
<1>4. QED
  BY <1>2, <1>3 DEF ScriptInv

(* One request: sent or not, it takes the script a call further.           *)
LEMMA SubmitStep ==
  ASSUME ScriptInv, NEW call, NEW request \in Requests, NEW next, Submit(call, request, next),
         next \in {"clock", "data", "close"}
  PROVE  /\ Types' /\ (stopped => op \in {"resolve", "none"})'
         /\ (association = "open" => answered > 0)'
         /\ (complete \/ ~result)'
         /\ result' => result /\ association # "closed" /\ asked' = Append(asked, request) /\ answered' > 0
<1>1. Append(asked, request) \in Seq(Requests)
  BY AppendProperties DEF ScriptInv, Types
<1>2. op' = Polled.op /\ association' = Polled.association /\ stopped' = Polled.stopped
  BY DEF Submit, Becomes
<1>3. IsOpen(Polled) => association # "closed" /\ answered > 0
  BY PolledIs DEF IsOpen
<1>4. /\ pc' = next /\ UNCHANGED <<session, complete, outcome, answered, rivals>>
      /\ asked' \in {asked, Append(asked, request)}
      /\ IsOpen(Polled) => asked' = Append(asked, request)
      /\ result' = (result /\ IsOpen(Polled))
  BY DEF Submit, Send, rival
<1>5. result' => result /\ IsOpen(Polled)
  BY <1>4
<1>6. result' \in BOOLEAN
  BY <1>4
<1>7. Types'
  BY <1>1, <1>2, <1>4, <1>6, PolledIs DEF ScriptInv, Types
<1>8. complete' \/ ~result'
  BY <1>4, <1>5 DEF ScriptInv, Script
<1>9. QED
  BY <1>2, <1>3, <1>4, <1>5, <1>7, <1>8, PolledIs

(* What happens outside of the head-end's thread.                          *)
LEMMA OutsideStep ==
  ASSUME ScriptInv,
         \/ Connects \/ RivalLeaves \/ UNCHANGED vars
         \/ \E m \in Meter : RivalConnects(m) \/ Turn(m)
  PROVE  ScriptInv'
<1> USE DEF ScriptInv, Types
<1>1. /\ UNCHANGED <<pc, session, tries, result, complete, op, association, stopped, asked>>
      /\ answered' \in {answered, answered + 1}
  BY DEF Connects, RivalLeaves, RivalConnects, Turn, Listen, Accept, Serve, TurnEnds,
         vars, thread, client, wire
<1>2. answered' \in Nat /\ (answered > 0 => answered' > 0)
  BY <1>1
<1>3. outcome' \in {"none", "ok", "refused"} /\ rivals' \in Nat
  <2>1. outcome' \in {outcome, "ok", "refused"} /\ rivals' \in {rivals, rivals + 1}
    BY DEF Connects, RivalLeaves, RivalConnects, Turn, Listen, Accept, Serve, TurnEnds, vars, rival
  <2>2. QED
    BY <2>1
<1>4. Types'
  BY <1>1, <1>2, <1>3
<1>5. Script'
  <2>1. AllSent' = AllSent
    BY <1>1 DEF AllSent
  <2>2. QED
    BY <1>1, <1>2, <2>1 DEF Script
<1>6. QED
  BY <1>4, <1>5

LEMMA MainStep == ASSUME ScriptInv, Main PROVE ScriptInv'
<1>1. CASE BeginPass \/ NextMeter
  <2>1. /\ pc' = "open" /\ session' = session + 1 /\ op' = "resolve" /\ outcome' = "none"
        /\ association' = "closed" /\ asked' = <<>> /\ answered' = 0
        /\ UNCHANGED <<stopped, rivals>>
    BY <1>1 DEF BeginPass, NextMeter, Construct, rival
  <2>2. /\ result' \in BOOLEAN /\ complete' \in BOOLEAN
        /\ complete' \/ ~result'
    <3>1. CASE BeginPass
      BY <3>1 DEF BeginPass
    <3>2. CASE NextMeter
      BY <3>2 DEF NextMeter, ScriptInv, Types, Script
    <3>3. QED
      BY <1>1, <3>1, <3>2
  <2>3. <<>> \in Seq(Requests)
    OBVIOUS
  <2>4. Types'
    BY <2>1, <2>2, <2>3 DEF ScriptInv, Types
  <2>5. Script'
    BY <2>1, <2>2 DEF Script
  <2>6. QED
    BY <2>4, <2>5 DEF ScriptInv
<1>2. CASE Open
  <2>1. UNCHANGED <<session, result, complete, outcome, answered, rivals>> /\ pc = "open"
    BY <1>2 DEF Open, rival
  <2>2. asked = <<>> /\ association = "closed" /\ Polled.association = "closed"
    BY <2>1, PolledIs DEF ScriptInv, Script
  <2>3. op' = Polled.op /\ stopped' = Polled.stopped
    BY <1>2 DEF Open, Becomes
  <2>4. \/ pc' = "serviceConnect" /\ association' = "opening" /\ asked' = Append(<<>>, "associate")
        \/ pc' \in {"serviceConnect", "open"} /\ association' = "closed" /\ asked' = <<>>
    BY <1>2, <2>2 DEF Open, Becomes, Send
  <2>5. Append(<<>>, "associate") = Sent1
    BY DEF Sent1
  <2>6. <<>> \in Seq(Requests)
    OBVIOUS
  <2>7. Types'
    BY <2>1, <2>3, <2>4, <2>5, <2>6, PolledIs, SentTypes DEF ScriptInv, Types
  <2>8. Script'
    BY <2>1, <2>3, <2>4, <2>5, PolledIs DEF ScriptInv, Script
  <2>9. QED
    BY <2>7, <2>8 DEF ScriptInv
<1>3. CASE ServiceConnect
  <2>1. Submit("serviceConnect", "remote_reconnect", "clock") /\ pc = "serviceConnect" /\ pc' = "clock"
    BY <1>3 DEF ServiceConnect, Submit
  <2>2. result' => asked' = Sent2 /\ answered' > 0
    BY <2>1, SubmitStep DEF ScriptInv, Script, Requests, Sent2
  <2>3. QED
    BY <2>1, <2>2, SubmitStep DEF ScriptInv, Script, Requests
<1>4. CASE GetClock
  <2>1. Submit("clock", "clock", "data") /\ pc = "clock" /\ pc' = "data"
    BY <1>4 DEF GetClock, Submit
  <2>2. result' => asked' = Sent3 /\ answered' > 0
    BY <2>1, SubmitStep DEF ScriptInv, Script, Requests, Sent3
  <2>3. QED
    BY <2>1, <2>2, SubmitStep DEF ScriptInv, Script, Requests
<1>5. CASE GetData
  <2>1. Submit("data", "data", "close") /\ pc = "data" /\ pc' = "close"
    BY <1>5 DEF GetData, Submit
  <2>2. result' => asked' = Sent4 /\ answered' > 0
    BY <2>1, SubmitStep DEF ScriptInv, Script, Requests, Sent4
  <2>3. QED
    BY <2>1, <2>2, SubmitStep DEF ScriptInv, Script, Requests
<1>6. CASE Close
  <2>1. /\ pc = "close" /\ pc' = "destroy"
        /\ op' = Polled.op /\ association' = Polled.association /\ stopped' = Polled.stopped
        /\ asked' \in {asked, Append(asked, "release")}
        /\ UNCHANGED <<session, result, complete, outcome, answered, rivals>>
    BY <1>6 DEF Close, Becomes, Send, rival
  <2>2. asked' \in Seq(Requests)
    BY <2>1, AppendProperties DEF ScriptInv, Types, Requests
  <2>3. result' => AllSent' /\ answered' > 0
    BY <2>1, SentInOrder DEF ScriptInv, Script, AllSent
  <2>4. Types'
    BY <2>1, <2>2, PolledIs DEF ScriptInv, Types
  <2>5. Script'
    BY <2>1, <2>3, PolledIs DEF ScriptInv, Script
  <2>6. QED
    BY <2>4, <2>5 DEF ScriptInv
<1>7. CASE Destroy
  <2>1. /\ pc = "destroy" /\ pc' = "between" /\ op' = "none"
        /\ association' = Polled.association /\ stopped' = Polled.stopped
        /\ UNCHANGED <<session, result, outcome, asked, answered, rivals>>
        /\ complete' = (complete /\ Complete)
    BY <1>7 DEF Destroy, Becomes, wire, rival
  <2>2. complete' \in BOOLEAN
    BY <2>1
  <2>3. complete' \/ ~result'
    BY <2>1 DEF ScriptInv, Script, Complete, AllSent
  <2>4. Types'
    BY <2>1, <2>2, PolledIs DEF ScriptInv, Types
  <2>5. Script'
    BY <2>1, <2>3, PolledIs DEF ScriptInv, Script
  <2>6. QED
    BY <2>4, <2>5 DEF ScriptInv
<1>8. CASE EndPass
  <2>1. /\ pc' = "asleep"
        /\ UNCHANGED <<session, result, complete, op, association, stopped, outcome, asked, answered, rivals>>
    BY <1>8 DEF EndPass, client, wire, rival
  <2>2. QED
    BY <2>1 DEF ScriptInv, Types, Script
<1>9. QED
  BY <1>1, <1>2, <1>3, <1>4, <1>5, <1>6, <1>7, <1>8 DEF Main, RunScript

LEMMA ScriptHolds == Spec => []ScriptInv
<1>1. ScriptInv /\ [Next]_vars => ScriptInv'
  BY OutsideStep, MainStep DEF Next
<1>2. QED
  BY <1>1, ScriptInit, PTL DEF Spec

(* runScript's result is that of all its requests: when main() prints      *)
(* success, each meter of the pass was sent all of them, in order, over    *)
(* an association it had accepted.                                         *)
THEOREM SuccessIsEarned == Spec => []SuccessMeansAsked
<1>1. ScriptInv => SuccessMeansAsked
  BY DEF ScriptInv, Script, SuccessMeansAsked
<1>2. QED
  BY <1>1, ScriptHolds, PTL
-----------------------------------------------------------------------------
(* The meters.                                                             *)

N == Len(Meters)

Turns ==
  /\ session \in Sessions \cup {0} /\ tries \in 0..MaxTries /\ (pc = "open" => tries > 0)
  /\ answered <= Len(asked)
  /\ turn \in [Meter -> {"starting", "listening", "serving"}]
  /\ queue \in [Meter -> Seq(Nat)]
  /\ session = 0 => pc = "asleep" /\ op = "none" /\ outcome = "none"

(* A meter's connections: sessions with it, and only those that connected. *)
Queue(m) ==
  /\ IsInjective(queue[m])
  /\ \A n \in ToSet(queue[m]) : n = Rival \/ (n <= session /\ MeterOf(n) = m)
  /\ session > 0 /\ outcome = "none" => session \notin ToSet(queue[m])
  /\ turn[m] = "starting" => queue[m] = <<>>
  /\ turn[m] = "serving" => queue[m] # <<>>

(* In the first pass, and without a rival, a meter has nothing to do until *)
(* the session with it connects, and nobody else until that is over.       *)
FirstPass ==
  rivals = 0 /\ session <= N =>
    /\ ~ stopped /\ outcome # "refused"
    /\ \A i \in 1..N : i > session \/ (i = session /\ outcome = "none") =>
         turn[Meters[i]] = "listening" /\ queue[Meters[i]] = <<>>
    /\ session > 0 /\ outcome = "ok" /\ pc \notin {"between", "asleep"} =>
         queue[Meters[session]] = <<session>>

IInv == ScriptInv /\ Turns /\ (\A m \in Meter : Queue(m)) /\ FirstPass

LEMMA MeterFacts ==
  /\ N \in Nat \ {0}
  /\ \A i \in 1..N : Meters[i] \in Meter /\ MeterOf(i) = Meters[i]
  /\ \A i, j \in 1..N : Meters[i] = Meters[j] => i = j
  /\ \A k \in Nat \ {0} : MeterOf(k) \in Meter
<1>1. Meters \in Seq(STRING) /\ N \in Nat \ {0} /\ DOMAIN Meters = 1..N
  BY MetersAssumption, LenProperties, EmptySeq DEF N
<1>2. \A i \in 1..N : Meters[i] \in Meter
  BY <1>1 DEF Meter, ToSet
<1>3. ASSUME NEW i \in 1..N PROVE MeterOf(i) = Meters[i]
  <2>1. (i - 1) % N = i - 1
    BY <1>1
  <2>2. MeterOf(i) = Meters[(i - 1) + 1] /\ (i - 1) + 1 = i
    BY <1>1, <2>1 DEF MeterOf, N
  <2>3. QED
    BY <2>2
<1>4. \A i, j \in 1..N : Meters[i] = Meters[j] => i = j
  BY <1>1, MetersAssumption DEF IsInjective
<1>5. ASSUME NEW k \in Nat \ {0} PROVE MeterOf(k) \in Meter
  <2>1. ((k - 1) % N) + 1 \in 1..N
    BY <1>1
  <2>2. QED
    BY <1>2, <2>1 DEF MeterOf, N
<1>6. QED
  BY <1>1, <1>2, <1>3, <1>4, <1>5

(* A pass that has not come to its last meter is not the last one's end.   *)
LEMMA OneMoreSession ==
  ASSUME NEW k \in Sessions \cup {0}, k < MaxPasses * N \/ k % N # 0
  PROVE  k + 1 \in Sessions /\ k \in Nat
<1>1. N \in Nat \ {0} /\ MaxPasses \in Nat
  BY MeterFacts, BoundsAssumption
<1>2. PICK last \in Nat : last = MaxPasses * N
  BY <1>1
<1>3. last % N = 0
  BY <1>1, <1>2
<1>4. Sessions = 1..last
  BY <1>2 DEF Sessions, N
<1>5. k \in 0..last /\ k # last
  BY <1>2, <1>3, <1>4
<1>6. QED
  BY <1>4, <1>5

LEMMA QueueTypes ==
  ASSUME Turns, NEW m \in Meter
  PROVE  /\ queue[m] \in Seq(Nat) /\ Len(queue[m]) \in Nat
         /\ DOMAIN queue[m] = 1..Len(queue[m])
         /\ queue[m] # <<>> => Head(queue[m]) \in ToSet(queue[m])
<1>1. /\ queue[m] \in Seq(Nat) /\ Len(queue[m]) \in Nat
      /\ DOMAIN queue[m] = 1..Len(queue[m])
  BY LenProperties DEF Turns
<1>2. ASSUME queue[m] # <<>> PROVE Head(queue[m]) \in ToSet(queue[m])
  <2>1. Head(queue[m]) = queue[m][1] /\ 1 \in DOMAIN queue[m]
    BY <1>1, <1>2, HeadTailProperties, EmptySeq
  <2>2. QED
    BY <2>1 DEF ToSet
<1>3. QED
  BY <1>1, <1>2

LEMMA Joins ==
  ASSUME Turns, NEW m \in Meter, NEW n \in Nat, n \notin ToSet(queue[m]), IsInjective(queue[m])
  PROVE  /\ Append(queue[m], n) \in Seq(Nat) /\ Append(queue[m], n) # <<>>
         /\ ToSet(Append(queue[m], n)) = ToSet(queue[m]) \cup {n}
         /\ IsInjective(Append(queue[m], n))
<1> DEFINE q == queue[m]
           r == Append(q, n)
<1>1. /\ r \in Seq(Nat) /\ Len(r) = Len(q) + 1 /\ Len(q) \in Nat /\ r[Len(q) + 1] = n
      /\ \A i \in 1..Len(q) : r[i] = q[i]
      /\ DOMAIN q = 1..Len(q) /\ DOMAIN r = 1..Len(r)
  BY QueueTypes, AppendProperties, LenProperties
<1> HIDE DEF q, r
<1>2. /\ \A i \in DOMAIN r : i \in DOMAIN q \/ i = Len(q) + 1
      /\ \A i \in DOMAIN q : i \in DOMAIN r
      /\ Len(q) + 1 \in DOMAIN r
  BY <1>1
<1>3. ToSet(r) = ToSet(q) \cup {n}
  BY <1>1, <1>2 DEF ToSet
<1>4. \A i \in DOMAIN q : q[i] # n
  BY DEF ToSet, q
<1>5. IsInjective(r)
  <2>1. \A i, j \in DOMAIN q : q[i] = q[j] => i = j
    BY DEF IsInjective, q
  <2>2. QED
    BY <1>1, <1>2, <1>4, <2>1 DEF IsInjective
<1>6. r # <<>>
  BY <1>1, EmptySeq
<1>7. QED
  BY <1>1, <1>3, <1>5, <1>6 DEF q, r

LEMMA InitIInv == Init => IInv
<1> SUFFICES ASSUME Init PROVE IInv
  OBVIOUS
<1>1. ScriptInv
  BY ScriptInit
<1>2. Turns
  <2>1. <<>> \in Seq(Nat) /\ Len(<<>>) = 0
    BY EmptySeq
  <2>2. 0 \in 0..MaxTries
    BY BoundsAssumption
  <2>3. QED
    BY <2>1, <2>2 DEF Init, Turns
<1>3. ASSUME NEW m \in Meter PROVE Queue(m)
  <2>1. queue[m] = <<>> /\ turn[m] = "listening"
    BY DEF Init
  <2>2. DOMAIN <<>> = {}
    OBVIOUS
  <2>3. QED
    BY <2>1, <2>2 DEF Init, Queue, IsInjective, ToSet
<1>4. FirstPass
  BY MeterFacts DEF Init, FirstPass
<1>5. QED
  BY <1>1, <1>2, <1>3, <1>4 DEF IInv

(* In the first pass a poll never finds the io_service without work.       *)
LEMMA PolledGoesOn ==
  ASSUME IInv, rivals = 0, session <= N, pc \notin {"between", "asleep"}
  PROVE  ~ Polled.stopped
<1>1. session \in Nat \ {0} /\ session \in 1..N
  <2>1. session \in Nat /\ session # 0 /\ N \in Nat
    BY MeterFacts DEF IInv, ScriptInv, Types, Turns
  <2>2. QED
    BY <2>1
<1>2. ~ stopped /\ outcome # "refused"
  BY DEF IInv, FirstPass
<1>3. ~ TurnedAway
  <2>1. CASE outcome = "ok"
    <3>1. queue[MeterOf(session)] = <<session>>
      BY <1>1, <2>1, MeterFacts DEF IInv, FirstPass
    <3>2. session \in ToSet(<<session>>)
      <4>1. 1 \in DOMAIN <<session>> /\ <<session>>[1] = session
        OBVIOUS
      <4>2. QED
        BY <4>1 DEF ToSet
    <3>3. QED
      BY <3>1, <3>2 DEF TurnedAway
  <2>2. QED
    BY <2>1 DEF TurnedAway
<1>4. QED
  BY <1>2, <1>3 DEF Polled

(* A call of runScript polls, and leaves the meters alone.                 *)
LEMMA CallStep ==
  ASSUME IInv, ScriptInv', pc # "asleep",
         UNCHANGED <<session, outcome, answered, turn, queue, rivals>>,
         tries' \in 0..MaxTries, pc' = "open" => tries' > 0,
         asked' = asked \/ \E request \in Requests : asked' = Append(asked, request),
         \/ pc # "between" /\ stopped' = Polled.stopped
         \/ pc' = "asleep" /\ stopped' = stopped
  PROVE  IInv'
<1>1. answered' <= Len(asked')
  <2>1. asked \in Seq(Requests) /\ Len(asked) \in Nat /\ answered \in Nat /\ answered <= Len(asked)
    BY LenProperties DEF IInv, ScriptInv, Types, Turns
  <2>2. Len(asked') \in {Len(asked), Len(asked) + 1}
    BY <2>1, AppendProperties
  <2>3. QED
    BY <2>1, <2>2
<1>2. Turns'
  BY <1>1 DEF IInv, Turns
<1>3. \A m \in Meter : Queue(m)'
  BY DEF IInv, Queue
<1>4. FirstPass'
  <2>1. rivals = 0 /\ session <= N => ~ stopped'
    BY PolledGoesOn DEF IInv, FirstPass
  <2>2. QED
    BY <2>1 DEF IInv, FirstPass
<1>5. QED
  BY <1>2, <1>3, <1>4 DEF IInv

LEMMA ConstructStep ==
  ASSUME IInv, ScriptInv', Construct, session + 1 \in Sessions
  PROVE  IInv'
<1>1. /\ session' = session + 1 /\ tries' = MaxTries /\ pc' = "open" /\ outcome' = "none"
      /\ asked' = <<>> /\ answered' = 0
      /\ UNCHANGED <<stopped, turn, queue, rivals>>
  BY DEF Construct, meter, rival
<1>2. session \in Nat /\ session' \in Nat \ {0}
  BY <1>1 DEF IInv, ScriptInv, Types
<1>3. Turns'
  <2>1. Len(<<>>) = 0 /\ MaxTries \in 0..MaxTries /\ MaxTries > 0
    BY BoundsAssumption, EmptySeq
  <2>2. QED
    BY <1>1, <1>2, <2>1 DEF IInv, Turns
<1>4. ASSUME NEW m \in Meter PROVE Queue(m)'
  <2>1. \A n \in ToSet(queue[m]) : n = Rival \/ (n <= session /\ MeterOf(n) = m)
    BY DEF IInv, Queue
  <2>2. \A n \in ToSet(queue[m]) : n \in Nat
    BY QueueTypes, ElementOfSeq DEF IInv, ToSet
  <2>3. \A n \in ToSet(queue[m]) : n = Rival \/ (n <= session' /\ MeterOf(n) = m)
    BY <1>1, <1>2, <2>1, <2>2
  <2>4. session' \notin ToSet(queue[m])
    BY <1>1, <1>2, <2>1 DEF Rival
  <2>5. QED
    BY <1>1, <2>3, <2>4 DEF IInv, Queue
<1>5. FirstPass'
  <2>1. SUFFICES ASSUME rivals' = 0, session' <= N PROVE FirstPass'
    BY DEF FirstPass
  <2>2. rivals = 0 /\ session <= N /\ N \in Nat
    BY <1>1, <1>2, <2>1, MeterFacts
  <2>3. \A i \in 1..N : i >= session' => i > session
    BY <1>1, <1>2
  <2>4. \A i \in 1..N : i > session' \/ i = session' => i > session
    BY <1>1, <1>2
  <2>5. QED
    BY <1>1, <2>2, <2>4 DEF IInv, FirstPass
<1>6. QED
  BY <1>3, <1>4, <1>5 DEF IInv

LEMMA MainKeeps == ASSUME IInv, Main PROVE IInv'
<1>1. ScriptInv'
  BY MainStep DEF IInv
<1>2. session \in Sessions \cup {0} /\ tries \in 0..MaxTries /\ (pc = "open" => tries > 0)
  BY DEF IInv, Turns
<1>3. CASE BeginPass \/ NextMeter
  <2>1. Construct /\ (session < MaxPasses * N \/ session % N # 0)
    BY <1>3 DEF BeginPass, NextMeter, N
  <2>2. QED
    BY <1>1, <1>2, <2>1, OneMoreSession, ConstructStep
<1>4. CASE Open
  <2>1. /\ pc = "open" /\ UNCHANGED <<session, outcome, answered, turn, queue, rivals>>
        /\ stopped' = Polled.stopped
        /\ asked' = asked \/ asked' = Append(asked, "associate")
    BY <1>4 DEF Open, Becomes, Send, meter, rival
  <2>2. \/ tries' = tries /\ pc' = "serviceConnect"
        \/ tries' = tries - 1 /\ pc' = IF tries' = 0 THEN "serviceConnect" ELSE "open"
    BY <1>4 DEF Open
  <2>3. tries' \in 0..MaxTries /\ (pc' = "open" => tries' > 0)
    BY <1>2, <2>1, <2>2, BoundsAssumption
  <2>4. "associate" \in Requests
    BY DEF Requests
  <2>5. QED
    BY <1>1, <2>1, <2>3, <2>4, CallStep
<1>5. ASSUME NEW call \in {"serviceConnect", "clock", "data"}, NEW request \in Requests,
             NEW next \in {"clock", "data", "close"}, Submit(call, request, next)
      PROVE  IInv'
  <2>1. /\ pc = call /\ pc' = next /\ stopped' = Polled.stopped
        /\ asked' = asked \/ asked' = Append(asked, request)
        /\ UNCHANGED <<session, tries, outcome, answered, turn, queue, rivals>>
    BY <1>5 DEF Submit, Becomes, Send, meter, rival
  <2>2. QED
    BY <1>1, <1>2, <2>1, CallStep
<1>6. CASE ServiceConnect \/ GetClock \/ GetData
  BY <1>5, <1>6 DEF ServiceConnect, GetClock, GetData, Requests
<1>7. CASE Close
  <2>1. /\ pc = "close" /\ pc' = "destroy" /\ stopped' = Polled.stopped
        /\ asked' = asked \/ asked' = Append(asked, "release")
        /\ UNCHANGED <<session, tries, outcome, answered, turn, queue, rivals>>
    BY <1>7 DEF Close, Becomes, Send, meter, rival
  <2>2. "release" \in Requests
    BY DEF Requests
  <2>3. QED
    BY <1>1, <1>2, <2>1, <2>2, CallStep
<1>8. CASE Destroy
  <2>1. /\ pc = "destroy" /\ pc' = "between" /\ stopped' = Polled.stopped
        /\ UNCHANGED <<session, tries, outcome, asked, answered, turn, queue, rivals>>
    BY <1>8 DEF Destroy, Becomes, wire, meter, rival
  <2>2. QED
    BY <1>1, <1>2, <2>1, CallStep
<1>9. CASE EndPass
  <2>1. /\ pc = "between" /\ pc' = "asleep"
        /\ UNCHANGED <<session, tries, stopped, outcome, asked, answered, turn, queue, rivals>>
    BY <1>9 DEF EndPass, client, wire, meter, rival
  <2>2. QED
    BY <1>1, <1>2, <2>1, CallStep
<1>10. QED
  BY <1>3, <1>4, <1>6, <1>7, <1>8, <1>9 DEF Main, RunScript

LEMMA ConnectsStep == ASSUME IInv, Connects PROVE IInv'
<1> DEFINE m == MeterOf(session)
<1>1. /\ op = "connect" /\ outcome = "none"
      /\ \/ /\ turn[m] \in {"listening", "serving"} /\ outcome' = "ok"
            /\ queue' = [queue EXCEPT ![m] = Append(queue[m], session)]
         \/ turn[m] \notin {"listening", "serving"} /\ outcome' = "refused" /\ queue' = queue
      /\ UNCHANGED <<pc, session, tries, asked, answered, stopped, op, turn, rivals>>
  BY DEF Connects, Listens, thread, client, wire, rival
<1>2. ScriptInv'
  BY OutsideStep DEF IInv
<1>3. session \in Nat \ {0} /\ m \in Meter
  BY <1>1, MeterFacts DEF IInv, ScriptInv, Types, Turns
<1> HIDE DEF m
<1>4. session \notin ToSet(queue[m]) /\ IsInjective(queue[m])
  BY <1>1, <1>3 DEF IInv, Queue
<1>5. /\ Append(queue[m], session) \in Seq(Nat) /\ Append(queue[m], session) # <<>>
      /\ ToSet(Append(queue[m], session)) = ToSet(queue[m]) \cup {session}
      /\ IsInjective(Append(queue[m], session))
  BY <1>3, <1>4, Joins DEF IInv
<1>6. /\ \A d \in Meter \ {m} : queue'[d] = queue[d]
      /\ queue'[m] = queue[m] \/ (turn[m] # "starting" /\ queue'[m] = Append(queue[m], session))
      /\ outcome' # "none"
  BY <1>1, <1>3 DEF IInv, Turns
<1>7. Turns'
  <2>1. queue' \in [Meter -> Seq(Nat)]
    BY <1>1, <1>3, <1>5 DEF IInv, Turns
  <2>2. QED
    BY <1>1, <1>3, <2>1 DEF IInv, Turns
<1>8. ASSUME NEW d \in Meter PROVE Queue(d)'
  <2>1. CASE queue'[d] = queue[d]
    BY <1>1, <1>6, <2>1 DEF IInv, Queue
  <2>2. CASE d = m /\ turn[m] # "starting" /\ queue'[m] = Append(queue[m], session)
    <3>1. \A n \in ToSet(queue'[m]) : n = Rival \/ (n <= session /\ MeterOf(n) = m)
      BY <1>3, <1>5, <2>2 DEF IInv, Queue, m
    <3>2. QED
      BY <1>1, <1>5, <1>6, <2>2, <3>1 DEF Queue
  <2>3. QED
    BY <1>6, <2>1, <2>2
<1>9. FirstPass'
  <2>1. SUFFICES ASSUME rivals' = 0, session' <= N PROVE FirstPass'
    BY DEF FirstPass
  <2>2. /\ rivals = 0 /\ session \in 1..N /\ m = Meters[session]
        /\ \A i \in 1..N : i # session => Meters[i] # m /\ Meters[i] \in Meter
    BY <1>1, <1>3, <2>1, MeterFacts DEF m
  <2>3. /\ ~ stopped
        /\ \A i \in 1..N : i > session \/ i = session =>
             turn[Meters[i]] = "listening" /\ queue[Meters[i]] = <<>>
    BY <1>1, <2>1, <2>2 DEF IInv, FirstPass
  <2>4. turn[m] = "listening" /\ queue[m] = <<>>
    BY <2>2, <2>3
  <2>5. outcome' = "ok" /\ queue'[m] = Append(<<>>, session)
    BY <1>1, <1>3, <2>4 DEF IInv, Turns
  <2>6. Append(<<>>, session) = <<session>>
    OBVIOUS
  <2>7. \A i \in 1..N : i > session => turn'[Meters[i]] = "listening" /\ queue'[Meters[i]] = <<>>
    BY <1>1, <1>3, <1>6, <2>2, <2>3
  <2>8. QED
    BY <1>1, <2>2, <2>3, <2>5, <2>6, <2>7 DEF FirstPass
<1>10. QED
  BY <1>2, <1>7, <1>8, <1>9 DEF IInv

LEMMA RivalConnectsStep == ASSUME IInv, NEW m \in Meter, RivalConnects(m) PROVE IInv'
<1>1. /\ turn[m] \in {"listening", "serving"} /\ Rival \notin ToSet(queue[m])
      /\ queue' = [queue EXCEPT ![m] = Append(queue[m], Rival)] /\ rivals' = rivals + 1
      /\ UNCHANGED <<pc, session, tries, asked, answered, op, stopped, outcome, turn>>
  BY DEF RivalConnects, Listens, thread, client, wire
<1>2. ScriptInv'
  BY OutsideStep DEF IInv
<1>3. IsInjective(queue[m]) /\ Rival \in Nat
  BY DEF IInv, Queue, Rival
<1>4. /\ Append(queue[m], Rival) \in Seq(Nat) /\ Append(queue[m], Rival) # <<>>
      /\ ToSet(Append(queue[m], Rival)) = ToSet(queue[m]) \cup {Rival}
      /\ IsInjective(Append(queue[m], Rival))
  BY <1>1, <1>3, Joins DEF IInv
<1>5. queue'[m] = Append(queue[m], Rival) /\ \A d \in Meter \ {m} : queue'[d] = queue[d]
  BY <1>1 DEF IInv, Turns
<1>6. Turns'
  <2>1. queue' \in [Meter -> Seq(Nat)]
    BY <1>1, <1>4 DEF IInv, Turns
  <2>2. QED
    BY <1>1, <2>1 DEF IInv, Turns
<1>7. ASSUME NEW d \in Meter PROVE Queue(d)'
  <2>1. CASE d # m
    BY <1>1, <1>5, <2>1 DEF IInv, Queue
  <2>2. CASE d = m
    <3>1. session > 0 => session # Rival
      BY DEF Rival, IInv, ScriptInv, Types
    <3>2. QED
      BY <1>1, <1>4, <1>5, <2>2, <3>1 DEF IInv, Queue
  <2>3. QED
    BY <2>1, <2>2
<1>8. FirstPass'
  BY <1>1 DEF IInv, ScriptInv, Types, FirstPass
<1>9. QED
  BY <1>2, <1>6, <1>7, <1>8 DEF IInv

LEMMA TurnStep == ASSUME IInv, NEW m \in Meter, Turn(m) PROVE IInv'
<1>1. ScriptInv'
  BY OutsideStep DEF IInv
<1>2. UNCHANGED <<pc, session, tries, asked, op, stopped, outcome, rivals>>
  BY DEF Turn, Listen, Accept, Serve, TurnEnds, thread, client, wire, rival
<1>3. CASE Serve(m)
  <2>1. answered' = answered + 1 /\ answered < Len(asked) /\ UNCHANGED <<turn, queue>>
    BY <1>3 DEF Serve, meter
  <2>2. answered' <= Len(asked')
    <3>1. Len(asked) \in Nat /\ answered \in Nat
      BY LenProperties DEF IInv, ScriptInv, Types
    <3>2. QED
      BY <1>2, <2>1, <3>1
  <2>3. QED
    BY <1>1, <1>2, <2>1, <2>2 DEF IInv, Turns, Queue, FirstPass
<1>4. CASE Listen(m) \/ Accept(m)
  <2>1. PICK t \in {"listening", "serving"} : turn' = [turn EXCEPT ![m] = t] /\ (t = "serving" => queue[m] # <<>>)
    BY <1>4 DEF Listen, Accept
  <2>2. UNCHANGED <<queue, answered>>
    BY <1>4 DEF Listen, Accept, wire
  <2>3. turn'[m] = t /\ \A d \in Meter \ {m} : turn'[d] = turn[d]
    BY <2>1 DEF IInv, Turns
  <2>4. Turns'
    BY <1>2, <2>1, <2>2 DEF IInv, Turns
  <2>5. \A d \in Meter : Queue(d)'
    BY <1>2, <2>1, <2>2, <2>3 DEF IInv, Queue
  <2>6. FirstPass'
    <3>1. ASSUME NEW i \in 1..N, turn[Meters[i]] = "listening", queue[Meters[i]] = <<>>
          PROVE  turn'[Meters[i]] = "listening"
      BY <2>1, <2>3, <3>1, MeterFacts
    <3>2. QED
      BY <1>2, <2>2, <3>1 DEF IInv, FirstPass
  <2>7. QED
    BY <1>1, <2>4, <2>5, <2>6 DEF IInv
<1>5. CASE TurnEnds(m)
  <2>1. /\ turn[m] = "serving" /\ Closed(Head(queue[m]))
        /\ turn' = [turn EXCEPT ![m] = "starting"] /\ queue' = [queue EXCEPT ![m] = <<>>]
        /\ answered' = answered
    BY <1>5 DEF TurnEnds, wire
  <2>2. /\ turn'[m] = "starting" /\ queue'[m] = <<>>
        /\ \A d \in Meter \ {m} : turn'[d] = turn[d] /\ queue'[d] = queue[d]
    BY <2>1 DEF IInv, Turns
  <2>3. <<>> \in Seq(Nat) /\ DOMAIN <<>> = {}
    OBVIOUS
  <2>4. Turns'
    BY <1>2, <2>1, <2>3 DEF IInv, Turns
  <2>5. ASSUME NEW d \in Meter PROVE Queue(d)'
    <3>1. CASE d = m
      BY <2>2, <2>3, <3>1 DEF Queue, IsInjective, ToSet
    <3>2. CASE d # m
      BY <1>2, <2>2, <3>2 DEF IInv, Queue
    <3>3. QED
      BY <3>1, <3>2
  <2>6. FirstPass'
    <3>1. SUFFICES ASSUME rivals' = 0, session' <= N PROVE FirstPass'
      BY DEF FirstPass
    <3>2. rivals = 0 /\ session <= N /\ session \in Nat /\ N \in Nat
      BY <1>2, <3>1, MeterFacts DEF IInv, ScriptInv, Types
    <3>3. \A i \in 1..N : turn[Meters[i]] = "listening" => Meters[i] # m /\ Meters[i] \in Meter
      BY <2>1, MeterFacts
    <3>4. \A i \in 1..N : i > session \/ (i = session /\ outcome = "none") =>
            turn'[Meters[i]] = "listening" /\ queue'[Meters[i]] = <<>>
      BY <2>2, <3>2, <3>3 DEF IInv, FirstPass
    <3>5. ASSUME session > 0, outcome = "ok", pc \notin {"between", "asleep"}
          PROVE  queue'[Meters[session]] = <<session>>
      <4>1. session \in 1..N
        BY <3>2, <3>5
      <4>2. queue[Meters[session]] = <<session>>
        BY <3>2, <3>5 DEF IInv, FirstPass
      <4>3. Meters[session] # m
        <5>1. Head(<<session>>) = session
          OBVIOUS
        <5>2. ~ Closed(session)
          BY <3>2, <3>5 DEF Closed, Rival
        <5>3. QED
          BY <2>1, <4>2, <5>1, <5>2
      <4>4. QED
        BY <2>2, <4>1, <4>2, <4>3, MeterFacts
    <3>6. QED
      BY <1>2, <3>2, <3>4, <3>5 DEF IInv, FirstPass
  <2>7. QED
    BY <1>1, <2>4, <2>5, <2>6 DEF IInv
<1>6. QED
  BY <1>3, <1>4, <1>5 DEF Turn

LEMMA QuietKeeps == ASSUME IInv, RivalLeaves \/ UNCHANGED vars PROVE IInv'
<1>1. UNCHANGED <<pc, session, tries, asked, answered, op, stopped, outcome, turn, queue, rivals>>
  BY DEF RivalLeaves, vars, thread, client, wire, meter, rival
<1>2. ScriptInv'
  BY OutsideStep DEF IInv
<1>3. QED
  BY <1>1, <1>2 DEF IInv, Turns, Queue, FirstPass

LEMMA IInvAlways == Spec => []IInv
<1>1. IInv /\ [Next]_vars => IInv'
  BY MainKeeps, ConnectsStep, RivalConnectsStep, TurnStep, QuietKeeps DEF Next
<1>2. QED
  BY <1>1, InitIInv, PTL DEF Spec
-----------------------------------------------------------------------------
(* The theorems.                                                           *)

(* The types of runScript's calls and of the meters; a connection waits at *)
(* its own meter, once, and goes with the acceptor.                        *)
THEOREM TypeCorrect == Spec => []TypeOK
<1>1. IInv => TypeOK
  <2> SUFFICES ASSUME IInv PROVE TypeOK
    OBVIOUS
  <2>1. answered \in 0..Len(asked)
    <3>1. Len(asked) \in Nat /\ answered \in Nat /\ answered <= Len(asked)
      BY LenProperties DEF IInv, ScriptInv, Types, Turns
    <3>2. QED
      BY <3>1
  <2>2. \A m \in Meter :
          /\ turn[m] \in {"starting", "listening", "serving"}
          /\ IsInjective(queue[m])
          /\ \A n \in ToSet(queue[m]) : n = Rival \/ (n <= session /\ MeterOf(n) = m)
          /\ turn[m] = "starting" => queue[m] = <<>>
          /\ turn[m] = "serving" => queue[m] # <<>>
    BY DEF IInv, Turns, Queue
  <2>3. QED
    BY <2>1, <2>2 DEF IInv, ScriptInv, Types, Script, Turns, TypeOK
<1>2. QED
  BY <1>1, IInvAlways, PTL

(* With no Access Point about, and until the head-end comes to a meter for *)
(* the second time, polling without waiting is safe: whatever the meters   *)
(* and the network do, the io_service of HESsim always has work left.      *)
THEOREM FirstPassWorks == Spec => []FirstContactsWork
<1>1. IInv => FirstContactsWork
  <2> SUFFICES ASSUME IInv, stopped PROVE rivals > 0 \/ session > N
    BY DEF FirstContactsWork, N
  <2>1. rivals \in Nat /\ session \in Nat /\ N \in Nat
    BY MeterFacts DEF IInv, ScriptInv, Types
  <2>2. QED
    BY <2>1 DEF IInv, FirstPass
<1>2. QED
  BY <1>1, IInvAlways, PTL
=============================================================================
